CONSTANTS
  NUM_ROWS = 3
  NUM_COLS = 2
  MaxStray = 1
  TERMBUF_SIZE = 3
  MaxLine = 4
SPECIFICATION ConsoleSpec
INVARIANTS
  ColumnOnScreen
  OnScreenUnlessRaced
  ShiftAsHeld
  EchoMatchesLine
