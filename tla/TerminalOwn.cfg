CONSTANTS
  NumTerm = 2
  BUFFER_SIZE = 3
  MaxCount = 4
SPECIFICATION Spec
INVARIANT ReadsOwnTerminal
