SPECIFICATION Spec
CONSTANTS
  Subscribers = {}
  NoSub = nosub
  Epochs = {0, 1, 2, 3}
  MaxTerm = 3
  MaxExpiries = 0
  MaxFaults = 1
  MaxGates = 1
  MaxRequests = 0
  MaxCalls = 1
  MaxStops = 1
CHECK_DEADLOCK FALSE
INVARIANTS
  TypeOK
  AnnouncedEpochIsOwn
  BusinessLeaderIsNewest
