SPECIFICATION Spec
CONSTANTS
  Subscribers = {s1}
  NoSub = nosub
  Epochs = {0, 1}
  MaxTerm = 1
  MaxExpiries = 0
  MaxFaults = 0
  MaxGates = 0
  MaxRequests = 0
  MaxCalls = 1
  MaxStops = 0
CHECK_DEADLOCK FALSE
PROPERTY SubscribersAreStopped
