SPECIFICATION EventSpec
CONSTANTS
  Subscribers = {s1}
  NoSub = nosub
  Epochs = {0, 1}
PROPERTY SubscribeReturns
