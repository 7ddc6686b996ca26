SPECIFICATION Spec
CONSTANTS
  Writers = {v, w}
  Readers = {r, s}
  MaxRots = 2
  MaxCrashes = 2
  MaxLosses = 2
  MaxSyncFailures = 1
INVARIANTS StoreTypeOK AcknowledgedIsDurable ReadsAreVerified
PROPERTIES DamagedIsQuarantined
SYMMETRY CallSymmetry
