CONSTANTS
  Procs = {p1, p2}
  Frequencies <- EdgeFrequencies
SPECIFICATION FairSpec
INVARIANTS
  OpenEnablesInterrupts
PROPERTIES
  WriteArithmetic
  ReadWaitsForTick
  TickProgramsRequest
  StarvedOnlyByOthers
CHECK_DEADLOCK FALSE
