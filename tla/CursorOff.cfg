CONSTANTS
  NUM_ROWS = 3
  NUM_COLS = 3
  MaxStray = 2
SPECIFICATION Spec
INVARIANT CursorOnScreen
