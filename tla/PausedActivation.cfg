SPECIFICATION Spec
CONSTANTS
  Founders = {a, b, c}
  Joiners = {d}
  Modern = {a, b, c}
  NoNode = NoNode
  MaxOps = 2
  MaxFaults = 2
  MaxPauses = 1
SYMMETRY FoundersSymmetry
INVARIANT VotersSupportGate
CHECK_DEADLOCK FALSE
