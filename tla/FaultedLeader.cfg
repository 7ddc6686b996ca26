SPECIFICATION Spec
CONSTANTS
  Subscribers = {}
  NoSub = nosub
  Epochs = {0, 1}
  MaxTerm = 1
  MaxExpiries = 0
  MaxFaults = 1
  MaxGates = 0
  MaxRequests = 0
  MaxCalls = 0
  MaxStops = 0
CHECK_DEADLOCK FALSE
PROPERTY AnnouncedLeaderMayAct
