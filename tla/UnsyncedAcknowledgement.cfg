SPECIFICATION Spec
CONSTANTS
  Writers = {v, w}
  Readers = {r, s}
  MaxRots = 2
  MaxCrashes = 1
  MaxLosses = 1
  MaxSyncFailures = 1
INVARIANTS AcknowledgementIsPersistent
SYMMETRY CallSymmetry
