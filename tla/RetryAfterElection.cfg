SPECIFICATION Spec
CONSTANTS
  Nodes = {a, b}
  NoNode = none
  CommandIDs = {c1}
  NoID = noid
  k1 = k1
  v1 = v1
  v2 = v2
  Keys = {k1, members}
  Vals = {v1, v2, initial}
  MembersKey = members
  MembersValue = initial
  EmptyKey = empty
  Writes <- MCWrites
  ClusterID = own
  Drafts = {}
  Gates = {}
  MaxSequence = 3
  MaxLog = 4
  MaxTerm = 2
  MaxLag = 2
CHECK_DEADLOCK FALSE
SYMMETRY Symmetry
INVARIANT RetryIsIdempotent
