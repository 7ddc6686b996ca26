SPECIFICATION FairSpec
CONSTANTS
  Founders = {a, b, c}
  Joiners = {d}
  Modern = {a, b, c}
  NoNode = NoNode
  MaxOps = 2
  MaxFaults = 2
  MaxPauses = 0
INVARIANTS MembershipTypeOK VotersSupportGate MembersFollowRaft
PROPERTIES Implements JoinIsStaged OperationCompletes
CHECK_DEADLOCK FALSE
