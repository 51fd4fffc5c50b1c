CONSTANTS
  NumPcb = 3
  NumTerm = 2
  MaxFd = 2
  Statuses = {0, 255}
  MaxDepth = 3
SPECIFICATION FairSpec
PROPERTIES
  ImplementsJobStacks
  EveryTerminalRuns
  ShellComesUp
  ExecuteReturns
