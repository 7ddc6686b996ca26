SPECIFICATION ReplicaSpec
CONSTANTS
  Nodes = {a, b}
  NoNode = none
  CommandIDs = {c1, c2}
  NoID = noid
  k1 = k1
  v1 = v1
  Keys = {k1, members}
  Vals = {v1, initial}
  MembersKey = members
  MembersValue = initial
  EmptyKey = empty
  Writes <- MCWrites
  ClusterID = own
  Drafts <- MCDrafts
  Gates <- MCGates
  Binaries <- MCBinaries
  MaxSequence = 3
  MaxLog = 3
  MaxTerm = 1
  MaxLag = 2
  MaxRestarts = 2
CHECK_DEADLOCK FALSE
INVARIANT HealthyReplicaSupportsGate
