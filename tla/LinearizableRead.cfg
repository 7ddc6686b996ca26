SPECIFICATION Spec
CONSTANTS
  Nodes = {a, b, c}
  NoNode = NoNode
  Readers = {c}
  Bounded = {}
  Emergency = {}
  MaxLog = 3
INVARIANTS LinearizableRead
SYMMETRY AskedSymmetry
