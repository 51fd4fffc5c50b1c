CONSTANTS
  Procs = {p1, p2}
  Frequencies <- EdgeFrequencies
SPECIFICATION FairSpec
PROPERTY OpenSets2Hz
CHECK_DEADLOCK FALSE
