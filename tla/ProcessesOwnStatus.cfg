CONSTANTS
  NumPcb = 4
  NumTerm = 2
  MaxFd = 1
  Statuses = {0, 1}
  MaxDepth = 2
SPECIFICATION Spec
INVARIANT ReturnsOwnStatus
