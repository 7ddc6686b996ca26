SPECIFICATION EventSpec
CONSTANTS
  Subscribers = {s1, s2}
  NoSub = nosub
  Epochs = {0}
INVARIANTS
  NoChangeIsLost
  SendsToOpenChannels
  OnlyOvertakenBlocks
PROPERTY LockIsReleased
