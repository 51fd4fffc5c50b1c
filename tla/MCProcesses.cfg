CONSTANTS
  NumPcb = 4
  NumTerm = 3
  MaxFd = 2
  Statuses = {255}
  MaxDepth = 4
SPECIFICATION Spec
INVARIANTS
  TypeOK
  ProcessTree
  RunsInOwnContext
  SavedContexts
  ImagesIntact
  NoDescriptorLeak
PROPERTIES
  DescriptorsPrivate
