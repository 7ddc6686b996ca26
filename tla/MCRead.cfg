SPECIFICATION Spec
CONSTANTS
  Nodes = {a, b, c}
  NoNode = NoNode
  Readers = {c}
  Bounded = {c}
  Emergency = {c}
  MaxLog = 4
INVARIANTS ReadTypeOK ServedIsServable
SYMMETRY AskedSymmetry
