------------------------------ MODULE Console ------------------------------
(***************************************************************************)
(* The keyboard interrupt from the scan code to the screen, for one        *)
(* terminal: interrupt_keyboard with getchar (Keys), the line counter, and *)
(* the echo that moves the cursor (Cursor), against the output of the      *)
(* program of the same terminal.                                           *)
(*                                                                         *)
(* The interrupt runs with interrupts disabled: one action per scan code.  *)
(* Keys that are pressed while another terminal is visible change the      *)
(* state of the modifiers, which all terminals share, and nothing here.    *)
(* What a line holds, and readers of several terminals, are in Terminal.   *)
(*                                                                         *)
(* Definitions whose name adds a word to the one below them are wrong on   *)
(* purpose: each stands for a bug that a property here must detect.        *)
(***************************************************************************)
EXTENDS Cursor, Keys

CONSTANTS
  TERMBUF_SIZE,   \* a line of this length is full (127)
  MaxLine         \* bound: how far the counter may run before keys stop

\* A line is shorter than a screen without its last row.
ASSUME ConsoleAssumption ==
  /\ TERMBUF_SIZE \in Nat \ {0}
  /\ MaxLine \in Nat
  /\ TERMBUF_SIZE <= MaxLine
  /\ MaxLine <= (NUM_ROWS - 1) * NUM_COLS

VARIABLES
  counter,         \* length of the line being typed
  flag_keyboard,   \* a line is ready
  line_start,      \* history: where on the screen the line began
  mixed            \* history: output, Enter or a cleared screen came after it,
                   \*   or a key came in the middle of a putc

lineVars == <<counter, flag_keyboard>>
historyVars == <<line_start, mixed>>
consoleVars == <<vars, keysVars, lineVars, historyVars>>

\* The cursor as one number, row by row.
Position == screen_y * NUM_COLS + screen_x

ConsoleInit ==
  /\ Init
  /\ KeysInit
  /\ counter = 0
  /\ flag_keyboard = 0
  /\ line_start = 0
  /\ mixed = FALSE

-----------------------------------------------------------------------------
(* History: an empty line begins at the cursor; a line that scrolls up     *)
(* with the screen begins a row higher.  Once something else has moved the *)
(* cursor, or a key came in the middle of a putc, the start is forgotten.  *)

Track(mixes, scrolls) ==
  /\ mixed' = (raced' \/ (counter' # 0 /\ (mixed \/ mixes)))
  /\ line_start' = IF mixed' THEN 0
                   ELSE IF counter' = 0 THEN Position'
                   ELSE IF scrolls THEN line_start - NUM_COLS ELSE line_start

-----------------------------------------------------------------------------
(* interrupt_keyboard *)

\* The test at the end of the handler.  The counter of another terminal that
\* has reached the limit raises this one's flag as well.
SetFlag(enter) ==
  \E other_full \in BOOLEAN :
    flag_keyboard' =
      IF visible' /\ (enter \/ counter' >= TERMBUF_SIZE \/ other_full)
        THEN 1 ELSE flag_keyboard

ScrollsAfterChar == screen_y + ((screen_x + 1) \div NUM_COLS) = NUM_ROWS

\* A character, or Enter: echoed, then counted.
TypeKey(c) ==
  /\ counter < MaxLine
  /\ IF c = "\n" THEN EchoEnter ELSE EchoChar
  /\ counter' = counter + 1
  /\ SetFlag(c = "\n")
  /\ Track(c = "\n", ScrollsAfterChar)

\* The character is taken off the screen only.
DeleteKey_screen ==
  /\ visible /\ counter > 0
  /\ IF screen_x = 0 /\ screen_y = 0 THEN UNCHANGED vars ELSE delete_char
  /\ UNCHANGED counter
  /\ SetFlag(FALSE)
  /\ Track(FALSE, FALSE)

\* Delete, with something to delete: on the screen, unless the cursor is in
\* its first position, and in the line.
DeleteKey ==
  /\ visible /\ counter > 0
  /\ IF screen_x = 0 /\ screen_y = 0 THEN UNCHANGED vars ELSE delete_char
  /\ counter' = counter - 1
  /\ SetFlag(FALSE)
  /\ Track(FALSE, FALSE)

ClearKey ==
  /\ key_clear_screen
  /\ UNCHANGED counter
  /\ SetFlag(FALSE)
  /\ Track(TRUE, FALSE)

SwitchKey(show) ==
  /\ IF visible = show THEN UNCHANGED vars ELSE SwitchScreen
  /\ UNCHANGED counter
  /\ SetFlag(FALSE)
  /\ Track(FALSE, FALSE)

\* A code that this terminal's line and screen do not notice.
NoEffect ==
  /\ UNCHANGED <<vars, counter>>
  /\ SetFlag(FALSE)
  /\ Track(FALSE, FALSE)

KeyDown(key) ==
  /\ Press(key)
  /\ \/ SwitchesTo(key) /\ SwitchKey(key = "F")
     \/ Clears(key) /\ visible /\ ClearKey
     \/ key = "DELETE" /\ DeleteKey
     \/ getchar(key) # "0" /\ visible /\ TypeKey(getchar(key))
     \/ /\ ~SwitchesTo(key)
        /\ (key = "DELETE" /\ counter > 0) \/ Clears(key) \/ getchar(key) # "0" => ~visible
        /\ NoEffect

KeyUp(key) == Release(key) /\ NoEffect

-----------------------------------------------------------------------------
(* The terminal's program *)

\* putc, statement by statement.
Output ==
  /\ Newline \/ PutChar \/ PutcStep
  /\ UNCHANGED <<keysVars, lineVars>>
  /\ Track(TRUE, FALSE)

\* keyboard_read lowers the flag of the visible terminal and, after more keys
\* or a screen switch perhaps, resets the counter of the branch it is in.
\* The reader may be another terminal's (Terminal): here the two statements
\* may come at any time.
ClearFlag ==
  /\ visible
  /\ flag_keyboard' = 0
  /\ UNCHANGED <<vars, keysVars, counter>>
  /\ Track(FALSE, FALSE)

ResetCounter ==
  /\ counter' = 0
  /\ UNCHANGED <<vars, keysVars, flag_keyboard>>
  /\ Track(FALSE, FALSE)

ConsoleNext ==
  \/ \E key \in AllKeys : KeyDown(key) \/ KeyUp(key)
  \/ Output \/ ClearFlag \/ ResetCounter

ConsoleSpec == ConsoleInit /\ [][ConsoleNext]_consoleVars

-----------------------------------------------------------------------------
(* Properties *)

\* What the line holds is what the screen shows of it: as long as nothing but
\* characters and deletions has come since the line began, the cursor is as
\* many positions behind its start as the counter says, through the ends of
\* rows and through scrolling.  So deleting never reaches the prompt, and
\* takes from the line the character it takes from the screen.
EchoMatchesLine ==
  ~mixed => Position = line_start + counter
=============================================================================
