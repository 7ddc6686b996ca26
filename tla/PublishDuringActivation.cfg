SPECIFICATION Spec
CONSTANTS
  Nodes = {a, b}
  NoNode = none
  CommandIDs = {c1, c2, c3}
  NoID = noid
  k1 = k1
  v1 = v1
  v2 = v2
  Keys = {members}
  Vals = {initial}
  MembersKey = members
  MembersValue = initial
  EmptyKey = empty
  Writes = {}
  ClusterID = own
  Drafts <- MCDrafts
  Gates <- MCGates
  MaxSequence = 3
  MaxLog = 3
  MaxTerm = 1
  MaxLag = 2
CHECK_DEADLOCK FALSE
SYMMETRY Symmetry
INVARIANT PublishNeverHalts
