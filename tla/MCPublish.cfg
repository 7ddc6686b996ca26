SPECIFICATION Spec
CONSTANTS
  Nodes = {a, b}
  NoNode = none
  b1 = b1
  Blobs = {b1}
  Drafts <- OneBlob
  InitialVoters = {a, b}
  Retention = 1
  MaxCalls = 1
  MaxGenerations = 1
  MaxChanges = 1
  MaxCorruptions = 1
INVARIANTS
  TypeOK
  GenerationWasStored
PROPERTIES
  GenerationSpreads
