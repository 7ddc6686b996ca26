SPECIFICATION FairSpec
CONSTANTS
  Founders = {a, b, c}
  Joiners = {d}
  NoNode = NoNode
  MaxLog = 11
  MaxCrashes = 1
INVARIANTS FoundersAreKnown
PROPERTIES FoundersElect
CHECK_DEADLOCK FALSE
