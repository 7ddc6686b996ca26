SPECIFICATION Spec
CONSTANTS
  Subscribers = {}
  NoSub = nosub
  Epochs = {0, 1}
  MaxTerm = 1
  MaxExpiries = 1
  MaxFaults = 0
  MaxGates = 0
  MaxRequests = 1
  MaxCalls = 0
  MaxStops = 0
CHECK_DEADLOCK FALSE
PROPERTIES

  LeaderTakesOver
  LossIsAnnounced
