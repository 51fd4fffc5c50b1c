CONSTANTS
  BLOCKSIZE = 2
  WORD = 16
  NAMELEN = 3
  MAX_FD = 3
  Dentries <- SmallDirectory
  Inodes <- SmallInodes
  fs_dblocks = 7
  Fnames <- SomeFnames
  Chunks = {0, 1, 3}
  Procs = {1, 2}
  Me = 1
  USR_BUF_SIZE = 6
  Chars = {10, 32, 46, 97, 98}
  ArgSizes = {0, 2}
  Lines <- SomeLines
  ExitWord <- SomeExit
  Commands <- SomeCommands
  ProgramOf <- SmallPrograms
  BUFSIZE = 3
  MAGIC_SIZE = 2
  Statuses = {255}
SPECIFICATION Spec
INVARIANTS
  ReadFitsBuffer
  ReadsAreTheFile
  EndOnlyAfterAll
  ReadsStop
  FindsByName
  AnswerTerminated
  OwnArgument
  ExitTellsTheTruth
