SPECIFICATION FairSpec
CONSTANTS
  Founders = {a, b, c}
  Joiners = {d}
  NoNode = NoNode
  MaxLog = 12
  MaxCrashes = 2
PROPERTY MajorityElects
CHECK_DEADLOCK FALSE
