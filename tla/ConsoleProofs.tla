--------------------------- MODULE ConsoleProofs ---------------------------
(***************************************************************************)
(* The cursor's and the keyboard interrupt's properties for a screen and a *)
(* line of any size.  What is proved of the cursor alone holds of the      *)
(* console, whose cursor makes only steps of Cursor; the modifiers and the *)
(* echo have invariants of their own.                                      *)
(***************************************************************************)
EXTENDS Console, TLAPS

-----------------------------------------------------------------------------
(* The cursor *)

\* Where putc can be.
Pcs == {"user", "newline_x", "carry", "test", "scroll", "wrap"}

\* Where the column can be at each point of putc: off the screen only between
\* the increment and the wrap.
Column ==
  /\ screen_x \in 0 .. NUM_COLS
  /\ pc = "user" => screen_x < NUM_COLS

\* Where the row can be at each point of putc if no key has come in between.
RowAt(p, y) ==
  /\ y \in 0 .. NUM_ROWS
  /\ p \in {"user", "carry", "wrap"} => y < NUM_ROWS
  /\ p = "scroll" => y = NUM_ROWS

Row == screen_y \in Int /\ (~raced => RowAt(pc, screen_y))

Booleans == visible \in BOOLEAN /\ raced \in BOOLEAN

IInv == Booleans /\ pc \in Pcs /\ Column /\ Row

\* Division of a column that is at most one too far.
LEMMA ColumnArithmetic ==
  ASSUME NEW x \in 0 .. NUM_COLS
  PROVE  /\ x % NUM_COLS \in 0 .. NUM_COLS - 1
         /\ x < NUM_COLS => x \div NUM_COLS = 0
         /\ x = NUM_COLS => x \div NUM_COLS = 1
BY CursorAssumption

\* At boot the cursor is in the first column of the first row.
LEMMA InitIInv == Init => IInv
<1> SUFFICES ASSUME Init PROVE IInv
  OBVIOUS
<1>1. Booleans
  BY Zenon DEF Init, Booleans
<1>2. pc \in Pcs /\ Column
  BY CursorAssumption DEF Init, Column, Pcs
<1>3. Row
  BY CursorAssumption DEF Init, Row, RowAt
<1> QED BY <1>1, <1>2, <1>3 DEF IInv

\* Where a key moves the cursor: to a column on the screen and, if it was on
\* the screen, to a row on the screen.
LEMMA KeyMoves ==
  ASSUME IInv, NEW position, MoveTo(position),
         position.x \in 0 .. NUM_COLS - 1, position.y \in Int,
         screen_x < NUM_COLS /\ screen_y \in 0 .. NUM_ROWS - 1
           => position.y \in 0 .. NUM_ROWS - 1
  PROVE  IInv'
<1>1. Booleans'
  BY Zenon DEF IInv, Booleans, MoveTo
<1>2. pc' \in Pcs /\ Column'
  BY CursorAssumption DEF IInv, MoveTo, Column
<1>3. pc = "user" /\ ~raced => position.y \in 0 .. NUM_ROWS - 1
  BY CursorAssumption DEF IInv, Column, Row, RowAt
<1>4. ~raced' => pc = "user" /\ ~raced
  BY DEF MoveTo
<1>5. Row'
  BY <1>3, <1>4, CursorAssumption DEF MoveTo, Row, RowAt
<1> QED BY <1>1, <1>2, <1>5 DEF IInv

\* Every key keeps the invariant.
LEMMA KeyIInv == IInv /\ Key => IInv'
<1> SUFFICES ASSUME IInv, Key PROVE IInv'
  OBVIOUS
<1>0. screen_x \in 0 .. NUM_COLS /\ screen_y \in Int
  BY DEF IInv, Column, Row
<1>1. CASE EchoChar
  <2> DEFINE x == screen_x + 1
             y == screen_y + (x \div NUM_COLS)
  <2>1. x % NUM_COLS \in 0 .. NUM_COLS - 1 /\ y \in Int
    BY <1>0, CursorAssumption
  <2>2. screen_x < NUM_COLS => y = screen_y \/ y = screen_y + 1
    BY <1>0, ColumnArithmetic, CursorAssumption
  <2>3. MoveTo(EchoPosition(x, y))
    BY <1>1 DEF EchoChar
  <2> HIDE DEF x, y
  <2> QED
    BY <1>0, <2>1, <2>2, <2>3, KeyMoves, CursorAssumption DEF EchoPosition
<1>2. CASE EchoEnter
  BY <1>0, <1>2, ColumnArithmetic, KeyMoves, CursorAssumption DEF EchoEnter, EchoPosition
<1>3. CASE delete_char
  BY <1>0, <1>3, KeyMoves, CursorAssumption DEF delete_char, DeletePosition
<1>4. CASE key_clear_screen
  BY <1>4, KeyMoves, CursorAssumption DEF key_clear_screen
<1>5. CASE SwitchScreen
  <2>1. Booleans'
    BY <1>5, Zenon DEF IInv, Booleans, SwitchScreen
  <2> QED
    BY <1>5, <2>1 DEF SwitchScreen, cursorVars, IInv, Column, Row
<1> QED BY <1>1, <1>2, <1>3, <1>4, <1>5 DEF Key

\* Every step of putc keeps the invariant.
LEMMA PutcIInv == IInv /\ (Newline \/ PutChar \/ PutcStep) => IInv'
<1> SUFFICES ASSUME IInv, Newline \/ PutChar \/ PutcStep PROVE IInv'
  OBVIOUS
<1>0. /\ screen_x \in 0 .. NUM_COLS /\ screen_y \in Int
      /\ pc = "user" => screen_x < NUM_COLS
      /\ ~raced => RowAt(pc, screen_y)
  BY DEF IInv, Column, Row
<1>1. visible' = visible /\ raced' = raced
  BY DEF Newline, NewlineX, PutChar, Carry, Test, Scroll, Wrap, PutcStep
<1>2. Booleans'
  BY <1>1, Zenon DEF IInv, Booleans
<1>3. pc' \in Pcs /\ Column' /\ screen_y' \in Int /\ (RowAt(pc, screen_y) => RowAt(pc', screen_y'))
  <2> USE CursorAssumption DEF Pcs, Column, Goto
  <2>1. CASE Newline
    BY <1>0, <2>1 DEF Newline, RowAt
  <2>2. CASE NewlineX
    BY <1>0, <2>2 DEF NewlineX, RowAt
  <2>3. CASE PutChar
    BY <1>0, <2>3 DEF PutChar, RowAt
  <2>4. CASE Carry
    BY <1>0, <2>4, ColumnArithmetic DEF Carry, RowAt
  <2>5. CASE Test
    BY <1>0, <2>5 DEF Test, BelowScreen, cursorVars, RowAt
  <2>6. CASE Scroll
    BY <1>0, <2>6 DEF Scroll, RowAt
  <2>7. CASE Wrap
    BY <1>0, <2>7, ColumnArithmetic DEF Wrap, RowAt
  <2> QED BY <2>1, <2>2, <2>3, <2>4, <2>5, <2>6, <2>7 DEF PutcStep
<1>4. Row'
  BY <1>0, <1>1, <1>3 DEF Row
<1> QED BY <1>2, <1>3, <1>4 DEF IInv

\* The cursor's inductive invariant holds in every reachable state.
THEOREM Inductive == Spec => []IInv
<1>1. IInv /\ UNCHANGED vars => IInv'
  BY DEF vars, IInv, Booleans, Column, Row
<1> QED
  BY <1>1, InitIInv, KeyIInv, PutcIInv, PTL DEF Spec, Next

\* Every variable keeps its type, on a screen of any size (lib.c:17).
THEOREM TypeCorrect == Spec => []TypeOK
<1>1. IInv => TypeOK
  BY Zenon DEF IInv, TypeOK, Booleans, Pcs, Column, Row
<1> QED
  BY <1>1, Inductive, PTL

\* After every putc the column is on the screen, on a screen of any size and
\* whatever keys have come in between (lib.c:265).
THEOREM ColumnSafety == Spec => []ColumnOnScreen
<1>1. IInv => ColumnOnScreen
  BY CursorAssumption DEF IInv, Column, ColumnOnScreen
<1> QED
  BY <1>1, Inductive, PTL

\* As long as no key has come in the middle of a putc, the row is on the
\* screen after every putc, on a screen of any size (lib.c:260).
THEOREM RowSafety == Spec => []OnScreenUnlessRaced
<1>1. IInv => OnScreenUnlessRaced
  BY CursorAssumption DEF IInv, Row, RowAt, OnScreenUnlessRaced
<1> QED
  BY <1>1, Inductive, PTL

-----------------------------------------------------------------------------
(* Console implements Cursor *)

\* A scan code makes a step of Cursor's keys, or does not touch the cursor.
LEMMA KeyIsCursorStep ==
  ASSUME NEW key \in AllKeys, KeyDown(key) \/ KeyUp(key)
  PROVE  [Key]_vars
<1>1. CASE KeyUp(key)
  BY <1>1 DEF KeyUp, NoEffect
<1>2. CASE KeyDown(key)
  <2>1. ASSUME NEW c, TypeKey(c) PROVE Key
    BY <2>1 DEF TypeKey, Key
  <2>2. ASSUME DeleteKey PROVE [Key]_vars
    BY <2>2 DEF DeleteKey, Key
  <2>3. ASSUME ClearKey PROVE Key
    BY <2>3 DEF ClearKey, Key
  <2>4. ASSUME NEW show, SwitchKey(show) PROVE [Key]_vars
    BY <2>4 DEF SwitchKey, Key
  <2>5. ASSUME NoEffect PROVE UNCHANGED vars
    BY <2>5 DEF NoEffect
  <2> QED BY <1>2, <2>1, <2>2, <2>3, <2>4, <2>5 DEF KeyDown
<1> QED BY <1>1, <1>2

\* Every step of the console is a step of the cursor or leaves it alone.
LEMMA ConsoleStep == [ConsoleNext]_consoleVars => [Next]_vars
<1> SUFFICES ASSUME [ConsoleNext]_consoleVars PROVE [Next]_vars
  OBVIOUS
<1>1. CASE \E key \in AllKeys : KeyDown(key) \/ KeyUp(key)
  BY <1>1, KeyIsCursorStep DEF Next
<1>2. CASE Output
  BY <1>2 DEF Output, Next
<1>3. CASE ClearFlag \/ ResetCounter
  BY <1>3 DEF ClearFlag, ResetCounter
<1>4. CASE UNCHANGED consoleVars
  BY <1>4 DEF consoleVars
<1> QED BY <1>1, <1>2, <1>3, <1>4 DEF ConsoleNext

\* With the scan codes, the modifiers and the line counter of
\* interrupt_keyboard in front of it, the cursor behaves as Cursor says.
THEOREM ImplementsCursor == ConsoleSpec => Spec
<1>1. ConsoleInit => Init
  BY DEF ConsoleInit
<1> QED BY <1>1, ConsoleStep, PTL DEF ConsoleSpec, Spec

\* The column is on the screen after every putc, whatever codes the keyboard
\* sends in between (lib.c:265).
THEOREM ConsoleColumn == ConsoleSpec => []ColumnOnScreen
BY ImplementsCursor, ColumnSafety, PTL

\* Without a key in the middle of a putc the row is on the screen, whatever
\* codes the keyboard sends (lib.c:260).
THEOREM ConsoleRow == ConsoleSpec => []OnScreenUnlessRaced
BY ImplementsCursor, RowSafety, PTL

-----------------------------------------------------------------------------
(* The modifiers *)

\* ShiftAsHeld is inductive with the meaning of both_shifts.
ShiftInv ==
  /\ key_status \in 0 .. 3
  /\ Shifts \subseteq held => both_shifts
  /\ ShiftAsHeld

\* At boot no key is down and no shift is on.
LEMMA InitShift == KeysInit => ShiftInv
BY DEF KeysInit, ShiftInv, ShiftAsHeld, ShiftOn, Shifts

\* What the state machine makes of the code of a shift key, and of others.
LEMMA StatusFacts ==
  ASSUME NEW status \in 0 .. 3, NEW key, NEW down \in BOOLEAN
  PROVE  /\ StatusAfter(status, key, down) \in 0 .. 3
         /\ key \in Shifts =>
              (StatusAfter(status, key, down) \in {1, 3} <=> down)
         /\ key \notin Shifts =>
              (StatusAfter(status, key, down) \in {1, 3} <=> status \in {1, 3})
<1>1. CASE key \in Shifts
  BY <1>1, Z3 DEF StatusAfter, Shifts
<1>2. CASE key \notin Shifts
  BY <1>2, Z3 DEF StatusAfter, Shifts
<1> QED BY <1>1, <1>2

\* A key that goes down, or repeats, keeps the invariant.
LEMMA PressShift ==
  ASSUME ShiftInv, NEW key \in AllKeys, Press(key)
  PROVE  ShiftInv'
<1>1. key_status' = StatusAfter(key_status, key, TRUE)
  BY DEF Press, Modify
<1>2. held' = held \cup ({key} \cap Holdable) /\ both_shifts' = (both_shifts \/ Shifts \subseteq held')
  BY DEF Press
<1>3. CASE key \in Shifts
  <2>1. ShiftOn' /\ key_status' \in 0 .. 3
    BY <1>1, <1>3, StatusFacts DEF ShiftInv, ShiftOn
  <2>2. held' \cap Shifts # {}
    BY <1>2, <1>3 DEF Holdable
  <2> QED BY <1>2, <2>1, <2>2 DEF ShiftInv, ShiftAsHeld
<1>4. CASE key \notin Shifts
  <2>1. (ShiftOn' <=> ShiftOn) /\ key_status' \in 0 .. 3
    <3>1. key_status \in 0 .. 3
      BY DEF ShiftInv
    <3>2. key_status' \in 0 .. 3
      BY <3>1, <1>1, StatusFacts
    <3>3. StatusAfter(key_status, key, TRUE) \in {1, 3} <=> key_status \in {1, 3}
      BY <3>1, <1>4, Z3 DEF StatusAfter, Shifts
    <3> QED BY <3>2, <3>3, <1>1, Zenon DEF ShiftOn
  <2>2. held' \cap Shifts = held \cap Shifts
    BY <1>2, <1>4
  <2> QED BY <1>2, <2>1, <2>2, Zenon DEF ShiftInv, ShiftAsHeld
<1> QED BY <1>3, <1>4

\* A key that goes up keeps the invariant.
LEMMA ReleaseShift ==
  ASSUME ShiftInv, NEW key \in AllKeys, Release(key)
  PROVE  ShiftInv'
<1>1. key_status' = StatusAfter(key_status, key, FALSE)
  BY DEF Release, Modify
<1>2. /\ key \in held /\ held' = held \ {key}
      /\ both_shifts' = (both_shifts /\ held' \cap Shifts # {})
  BY DEF Release
<1>3. CASE key \in Shifts
  <2>1. ~ShiftOn' /\ key_status' \in 0 .. 3
    BY <1>1, <1>3, StatusFacts DEF ShiftInv, ShiftOn
  <2>2. held' \cap Shifts # {} => Shifts \subseteq held
    BY <1>2, <1>3 DEF Shifts
  <2>3. ~(Shifts \subseteq held')
    BY <1>2, <1>3
  <2> QED BY <1>2, <2>1, <2>2, <2>3 DEF ShiftInv, ShiftAsHeld
<1>4. CASE key \notin Shifts
  <2>1. (ShiftOn' <=> ShiftOn) /\ key_status' \in 0 .. 3
    <3>1. key_status \in 0 .. 3
      BY DEF ShiftInv
    <3>2. key_status' \in 0 .. 3
      BY <3>1, <1>1, StatusFacts
    <3>3. StatusAfter(key_status, key, FALSE) \in {1, 3} <=> key_status \in {1, 3}
      BY <3>1, <1>4, Z3 DEF StatusAfter, Shifts
    <3> QED BY <3>2, <3>3, <1>1, Zenon DEF ShiftOn
  <2>2. held' \cap Shifts = held \cap Shifts
    BY <1>2, <1>4
  <2>3. Shifts \subseteq held' => both_shifts'
    BY <1>2, <2>2 DEF ShiftInv, Shifts
  <2>4. ShiftAsHeld'
    BY <1>2, <2>1, <2>2 DEF ShiftInv, ShiftAsHeld
  <2> QED BY <2>1, <2>3, <2>4 DEF ShiftInv
<1> QED BY <1>3, <1>4

\* Every step of the console keeps the invariant of the modifiers.
LEMMA ConsoleShift == ShiftInv /\ [ConsoleNext]_consoleVars => ShiftInv'
<1> SUFFICES ASSUME ShiftInv, [ConsoleNext]_consoleVars PROVE ShiftInv'
  OBVIOUS
<1>1. CASE UNCHANGED keysVars
  BY <1>1 DEF keysVars, keyStateVars, ShiftInv, ShiftAsHeld, ShiftOn
<1>2. CASE \E key \in AllKeys : KeyDown(key) \/ KeyUp(key)
  BY <1>2, PressShift, ReleaseShift DEF KeyDown, KeyUp
<1>3. CASE Output \/ ClearFlag \/ ResetCounter \/ UNCHANGED consoleVars
  BY <1>1, <1>3 DEF Output, ClearFlag, ResetCounter, consoleVars
<1> QED BY <1>2, <1>3 DEF ConsoleNext

\* The modifiers' invariant holds in every reachable state.
LEMMA ShiftInvariant == ConsoleSpec => []ShiftInv
<1>1. ConsoleInit => ShiftInv
  BY InitShift DEF ConsoleInit
<1> QED BY <1>1, ConsoleShift, PTL DEF ConsoleSpec

\* The shift never sticks and is on while a shift key is down, unless both
\* were (keyboard.c:99), through any sequence of codes.
THEOREM ShiftSafety == ConsoleSpec => []ShiftAsHeld
<1>1. ShiftInv => ShiftAsHeld
  BY DEF ShiftInv
<1> QED BY <1>1, ShiftInvariant, PTL

-----------------------------------------------------------------------------
(* The line and its echo *)

\* A line that nothing has mixed with starts on the screen and ends at the
\* cursor; the bound on its length keeps its start from scrolling away.
EchoInv ==
  /\ counter \in 0 .. MaxLine
  /\ mixed \in BOOLEAN
  /\ raced => mixed
  /\ ~mixed => line_start \in Nat /\ Position = line_start + counter

\* The cursor is at the first position of the screen and no line is begun.
LEMMA InitEcho == ConsoleInit => EchoInv
<1> SUFFICES ASSUME ConsoleInit PROVE EchoInv
  OBVIOUS
<1>1. counter = 0 /\ line_start = 0 /\ mixed = FALSE /\ raced = FALSE /\ Position = 0
  BY CursorAssumption DEF ConsoleInit, Init, Position
<1>2. mixed \in BOOLEAN /\ (raced => mixed)
  BY <1>1, Zenon
<1>3. counter \in 0 .. MaxLine /\ line_start \in Nat /\ Position = line_start + counter
  BY <1>1, ConsoleAssumption
<1> QED BY <1>2, <1>3, Zenon DEF EchoInv

\* A step that keeps the cursor, or leaves an empty or a mixed line behind.
LEMMA KeptEcho ==
  ASSUME EchoInv, IInv, IInv', NEW mixes \in BOOLEAN, Track(mixes, FALSE),
         counter' \in 0 .. MaxLine,
         \/ mixes \/ counter' = 0
         \/ Position' = Position /\ counter' = counter /\ raced' = raced,
         counter' = 0 /\ ~raced' => Position' \in Nat
  PROVE  EchoInv'
<1>1. mixed' = (raced' \/ (counter' # 0 /\ (mixed \/ mixes)))
  BY DEF Track
<1>2. mixed' \in BOOLEAN /\ (raced' => mixed')
  BY <1>1, Zenon DEF IInv, Booleans
<1>3. ASSUME ~mixed' PROVE line_start' \in Nat /\ Position' = line_start' + counter'
  <2>1. CASE counter' = 0
    <3>1. ~raced' /\ line_start' = Position'
      BY <1>2, <1>3, <2>1, Zenon DEF Track
    <3> QED BY <2>1, <3>1
  <2>2. CASE counter' # 0
    <3>1. ~mixed /\ ~mixes /\ line_start' = line_start
      BY <1>1, <1>3, <2>2 DEF Track
    <3> QED BY <3>1, <2>2 DEF EchoInv
  <2> QED BY <2>1, <2>2
<1> QED BY <1>2, <1>3 DEF EchoInv

\* On the screen the position is a natural number.
LEMMA OnScreenPosition ==
  ASSUME NEW x \in Nat, NEW y \in Nat
  PROVE  y * NUM_COLS + x \in Nat
BY CursorAssumption

\* As long as no key came in the middle of a putc the position is natural.
LEMMA PositionNat == ASSUME IInv', ~raced' PROVE Position' \in Nat
<1>1. screen_x' \in Nat /\ screen_y' \in Nat
  BY CursorAssumption DEF IInv, Column, Row, RowAt
<1> QED BY <1>1, OnScreenPosition DEF Position

\* A row is NUM_COLS positions.
LEMMA RowLength ==
  ASSUME NEW y \in Int
  PROVE  /\ (y + 1) * NUM_COLS = y * NUM_COLS + NUM_COLS
         /\ (y - 1) * NUM_COLS = y * NUM_COLS - NUM_COLS
         /\ y * NUM_COLS \in Int
BY CursorAssumption

\* An echoed character is the next position, or, if the screen scrolls, the
\* first of the last row.
LEMMA EchoCharPosition ==
  ASSUME IInv, EchoChar, pc = "user", ~raced
  PROVE  IF ScrollsAfterChar
           THEN /\ Position' = Position + 1 - NUM_COLS
                /\ Position' = (NUM_ROWS - 1) * NUM_COLS
           ELSE Position' = Position + 1
<1>1. /\ screen_x \in 0 .. NUM_COLS - 1 /\ screen_y \in 0 .. NUM_ROWS - 1
      /\ NUM_COLS \in Nat \ {0} /\ NUM_ROWS \in Nat \ {0}
  BY CursorAssumption DEF IInv, Column, Row, RowAt
<1> DEFINE carry == (screen_x + 1) \div NUM_COLS
<1>2. /\ screen_x' = (screen_x + 1) % NUM_COLS
      /\ screen_y' = IF screen_y + carry = NUM_ROWS THEN (screen_y + carry) - 1
                                                    ELSE screen_y + carry
  BY DEF EchoChar, MoveTo, EchoPosition
<1>3. ScrollsAfterChar <=> screen_y + carry = NUM_ROWS
  BY DEF ScrollsAfterChar
<1>4. CASE screen_x + 1 < NUM_COLS
  <2>1. carry = 0 /\ (screen_x + 1) % NUM_COLS = screen_x + 1
    BY <1>1, <1>4
  <2> HIDE DEF carry
  <2>2. screen_x' = screen_x + 1 /\ screen_y' = screen_y /\ ~ScrollsAfterChar
    BY <1>1, <1>2, <1>3, <2>1
  <2> QED BY <2>2, <1>1, RowLength DEF Position
<1>5. CASE screen_x + 1 = NUM_COLS
  <2>1. carry = 1 /\ (screen_x + 1) % NUM_COLS = 0
    BY <1>1, <1>5
  <2> HIDE DEF carry
  <2>2. CASE screen_y + 1 = NUM_ROWS
    <3>1. screen_x' = 0 /\ screen_y' = screen_y /\ ScrollsAfterChar
      BY <1>1, <1>2, <1>3, <2>1, <2>2
    <3> QED BY <3>1, <2>2, <1>1, <1>5, RowLength DEF Position
  <2>3. CASE screen_y + 1 # NUM_ROWS
    <3>1. screen_x' = 0 /\ screen_y' = screen_y + 1 /\ ~ScrollsAfterChar
      BY <1>1, <1>2, <1>3, <2>1, <2>3
    <3> QED BY <3>1, <1>1, <1>5, RowLength DEF Position
  <2> QED BY <2>2, <2>3
<1> QED BY <1>1, <1>4, <1>5

\* A typed character keeps the echo beside the line.
LEMMA CharEcho ==
  ASSUME EchoInv, IInv, IInv', EchoChar, counter < MaxLine, counter' = counter + 1,
         Track(FALSE, ScrollsAfterChar)
  PROVE  EchoInv'
<1>1. counter' \in 1 .. MaxLine
  BY ConsoleAssumption DEF EchoInv
<1>2. mixed' = (raced' \/ (counter' # 0 /\ (mixed \/ FALSE)))
  BY DEF Track
<1>3. mixed' \in BOOLEAN /\ (raced' => mixed')
  BY <1>2, Zenon DEF IInv, Booleans
<1>4. ASSUME ~mixed' PROVE line_start' \in Nat /\ Position' = line_start' + counter'
  <2>1. ~mixed /\ ~raced /\ pc = "user"
    <3>1. counter' # 0
      BY <1>1
    <3>2. ~mixed /\ ~raced'
      BY <3>1, <1>2, <1>4, Zenon
    <3>3. raced' = (raced \/ pc # "user")
      BY DEF EchoChar, MoveTo
    <3> QED BY <3>2, <3>3, Zenon
  <2>2. line_start \in Nat /\ Position = line_start + counter
    BY <2>1 DEF EchoInv
  <2>3. line_start' = IF ScrollsAfterChar THEN line_start - NUM_COLS ELSE line_start
    BY <1>1, <1>4 DEF Track
  <2>4. CASE ~ScrollsAfterChar
    BY <2>1, <2>2, <2>3, <2>4, EchoCharPosition DEF EchoInv
  <2>5. CASE ScrollsAfterChar
    <3>1. /\ Position' = Position + 1 - NUM_COLS
          /\ Position' = (NUM_ROWS - 1) * NUM_COLS
      BY <2>1, <2>5, EchoCharPosition
    <3>2. counter' <= (NUM_ROWS - 1) * NUM_COLS
      BY <1>1, ConsoleAssumption, CursorAssumption
    <3>3. Position' = line_start' + counter' /\ line_start' \in Int
      BY <2>2, <2>3, <2>5, <3>1, CursorAssumption DEF EchoInv
    <3>4. (NUM_ROWS - 1) * NUM_COLS \in Int
      BY CursorAssumption
    <3>5. line_start' >= 0
      BY <3>1, <3>2, <3>3, <3>4, <1>1
    <3> QED BY <3>3, <3>5
  <2> QED BY <2>4, <2>5
<1> QED BY <1>1, <1>3, <1>4 DEF EchoInv

\* A deleted character is the one before the cursor.
LEMMA DeletePositionIs ==
  ASSUME IInv, delete_char
  PROVE  Position' = Position - 1
<1>1. screen_x \in 0 .. NUM_COLS /\ screen_y \in Int /\ NUM_COLS \in Nat \ {0}
  BY CursorAssumption DEF IInv, Column, Row
<1>2. CASE screen_x = 0
  <2>1. screen_x' = NUM_COLS - 1 /\ screen_y' = screen_y - 1
    BY <1>2 DEF delete_char, DeletePosition, MoveTo
  <2> QED BY <1>1, <1>2, <2>1, RowLength DEF Position
<1>3. CASE screen_x # 0
  <2>1. screen_x' = screen_x - 1 /\ screen_y' = screen_y
    BY <1>3 DEF delete_char, DeletePosition, MoveTo
  <2> QED BY <1>1, <2>1, RowLength DEF Position
<1> QED BY <1>2, <1>3

\* Deleting takes the same character from the line as from the screen.
LEMMA DeleteEcho ==
  ASSUME EchoInv, IInv, IInv', DeleteKey
  PROVE  EchoInv'
<1>1. counter' = counter - 1 /\ counter' \in 0 .. MaxLine /\ counter \in 1 .. MaxLine
  BY ConsoleAssumption DEF DeleteKey, EchoInv
<1>2. mixed' = (raced' \/ (counter' # 0 /\ (mixed \/ FALSE)))
  BY DEF DeleteKey, Track
<1>3. mixed' \in BOOLEAN /\ (raced' => mixed')
  BY <1>2, Zenon DEF IInv, Booleans
<1>4. ASSUME ~mixed' PROVE line_start' \in Nat /\ Position' = line_start' + counter'
  <2>1. ~raced'
    BY <1>3, <1>4
  <2>2. CASE counter' = 0
    <3>1. line_start' = Position'
      BY <1>4, <2>2 DEF DeleteKey, Track
    <3>2. Position' \in Nat
      BY <2>1, PositionNat
    <3>3. \A n \in Nat : n = n + 0
      OBVIOUS
    <3> QED BY <2>2, <3>1, <3>2, <3>3, Zenon
  <2>3. CASE counter' # 0
    <3>1. ~mixed
      BY <1>2, <1>4, <2>3, Zenon
    <3>2. line_start \in Nat /\ Position = line_start + counter
      BY <3>1 DEF EchoInv
    <3>3. line_start' = line_start
      BY <1>4, <2>3 DEF DeleteKey, Track
    <3>4. ~(screen_x = 0 /\ screen_y = 0)
      BY <1>1, <3>2, CursorAssumption DEF Position
    <3>5. delete_char
      BY <3>4 DEF DeleteKey
    <3>6. Position' = Position - 1
      BY <3>5, DeletePositionIs
    <3> QED BY <1>1, <3>2, <3>3, <3>6
  <2> QED BY <2>2, <2>3
<1> QED BY <1>1, <1>3, <1>4 DEF EchoInv

\* Every step of the console keeps the line beside its echo.
LEMMA NextEcho ==
  ASSUME EchoInv, IInv, IInv', [ConsoleNext]_consoleVars
  PROVE  EchoInv'
<1>0. ~raced' => Position' \in Nat
  BY PositionNat
<1>1. ASSUME NEW c, TypeKey(c) PROVE EchoInv'
  <2>1. counter < MaxLine /\ counter' = counter + 1 /\ counter' \in 0 .. MaxLine
    BY <1>1, ConsoleAssumption DEF TypeKey, EchoInv
  <2>2. CASE c = "\n"
    <3>1. (c = "\n") = TRUE /\ counter' # 0
      BY <2>1, <2>2 DEF EchoInv
    <3>2. mixed' = (raced' \/ (counter' # 0 /\ (mixed \/ TRUE)))
      BY <1>1, <3>1 DEF TypeKey, Track
    <3>3. mixed' = TRUE
      BY <3>1, <3>2
    <3> QED BY <2>1, <3>3 DEF EchoInv
  <2>3. CASE c # "\n"
    <3>1. (c = "\n") = FALSE /\ EchoChar
      BY <1>1, <2>3 DEF TypeKey
    <3>2. Track(FALSE, ScrollsAfterChar)
      BY <1>1, <3>1 DEF TypeKey
    <3> QED BY <2>1, <3>1, <3>2, CharEcho
  <2> QED BY <2>2, <2>3
<1>2. ASSUME ClearKey PROVE EchoInv'
  BY <1>0, <1>2, KeptEcho DEF ClearKey, EchoInv
<1>3. ASSUME UNCHANGED <<cursorVars, counter, raced>>, Track(FALSE, FALSE) PROVE EchoInv'
  <2>1. Position' = Position /\ counter' = counter /\ raced' = raced
    BY <1>3 DEF cursorVars, Position
  <2> QED BY <1>0, <1>3, <2>1, KeptEcho DEF EchoInv
<1>4. ASSUME NEW show, SwitchKey(show) PROVE EchoInv'
  BY <1>3, <1>4 DEF SwitchKey, SwitchScreen, vars, cursorVars
<1>5. ASSUME NoEffect PROVE EchoInv'
  BY <1>3, <1>5 DEF NoEffect, vars, cursorVars
<1>6. CASE Output
  BY <1>0, <1>6, KeptEcho DEF Output, lineVars, EchoInv
<1>7. CASE ResetCounter
  <2>1. counter' = 0 /\ Track(FALSE, FALSE)
    BY <1>7 DEF ResetCounter
  <2>2. counter' \in 0 .. MaxLine
    BY <2>1, ConsoleAssumption
  <2> QED BY <1>0, <2>1, <2>2, KeptEcho
<1>7a. CASE ClearFlag
  BY <1>3, <1>7a DEF ClearFlag, vars, cursorVars
<1>8. CASE UNCHANGED consoleVars
  BY <1>8 DEF consoleVars, vars, lineVars, historyVars, EchoInv, Position
<1>9. ASSUME NEW key \in AllKeys, KeyDown(key) \/ KeyUp(key) PROVE EchoInv'
  BY <1>1, <1>2, <1>4, <1>5, <1>9, DeleteEcho DEF KeyDown, KeyUp
<1> QED BY <1>6, <1>7, <1>7a, <1>8, <1>9 DEF ConsoleNext

\* On a screen and for a line of any size the cursor is as far behind the start
\* of the line as the line is long (lib.c:268, keyboard.c:155): characters,
\* deletions, ends of rows and scrolling keep line and screen together.
THEOREM EchoSafety == ConsoleSpec => []EchoMatchesLine
<1>1. ConsoleSpec => []IInv
  BY ImplementsCursor, Inductive, PTL
<1>2. EchoInv /\ IInv /\ IInv' /\ [ConsoleNext]_consoleVars => EchoInv'
  BY NextEcho
<1>3. EchoInv => EchoMatchesLine
  BY DEF EchoInv, EchoMatchesLine
<1> QED BY <1>1, <1>2, <1>3, InitEcho, PTL DEF ConsoleSpec
=============================================================================
