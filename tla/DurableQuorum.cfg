SPECIFICATION Spec
CONSTANTS
  Nodes = {a, b, c}
  NoNode = none
  b1 = b1
  Blobs = {b1}
  Drafts <- OneBlob
  InitialVoters = {a, b, c}
  Retention = 1
  MaxCalls = 1
  MaxGenerations = 1
  MaxChanges = 0
  MaxCorruptions = 0
INVARIANT SubmittedIsDurable
