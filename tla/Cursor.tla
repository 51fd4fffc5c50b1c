------------------------------- MODULE Cursor -------------------------------
(***************************************************************************)
(* The cursor of one terminal (screen_x, screen_y in lib.c), moved by putc *)
(* for the output of its programs and by putc_keyboard, delete_char and    *)
(* key_clear_screen for the keys typed while it is visible.                *)
(*                                                                         *)
(* The keyboard handler runs with interrupts disabled: one action per kind *)
(* of key.  putc runs in a system call with interrupts enabled: every      *)
(* statement that reads or writes the cursor is a step.  The cursors of    *)
(* the terminals are independent, so one is enough; which frame it is on   *)
(* is the subject of Display.                                              *)
(*                                                                         *)
(* Definitions whose name adds a word to the one below them are wrong on   *)
(* purpose: each stands for a bug that a property here must detect.        *)
(***************************************************************************)
EXTENDS Integers

CONSTANTS
  NUM_ROWS, NUM_COLS,   \* size of the screen (25 by 80)
  MaxStray              \* bound: rows the cursor may stray off the screen

ASSUME CursorAssumption ==
  /\ NUM_ROWS \in Nat \ {0}
  /\ NUM_COLS \in Nat \ {0}
  /\ MaxStray \in Nat

VARIABLES
  screen_x, screen_y,
  visible,     \* the terminal is on the screen: keys are echoed here
  pc,          \* where putc is, "user" outside it
  raced        \* history: a key moved the cursor while putc was running

cursorVars == <<screen_x, screen_y>>
vars == <<screen_x, screen_y, visible, pc, raced>>

Init ==
  /\ screen_x = 0
  /\ screen_y = 0
  /\ visible \in BOOLEAN
  /\ pc = "user"
  /\ raced = FALSE

\* Where the model stops following a cursor that has left the screen.
InBounds == screen_y \in (0 - MaxStray) .. (NUM_ROWS + MaxStray)

-----------------------------------------------------------------------------
(* The keyboard handler *)

\* The end of putc_keyboard: scroll if the cursor is just below the screen.
EchoPosition(x, y) ==
  [x |-> x % NUM_COLS, y |-> IF y = NUM_ROWS THEN y - 1 ELSE y]

MoveTo(position) ==
  /\ visible
  /\ InBounds
  /\ screen_x' = position.x
  /\ screen_y' = position.y
  /\ raced' = (raced \/ pc # "user")
  /\ UNCHANGED <<visible, pc>>

\* putc_keyboard, for a character and for Enter.
EchoChar ==
  MoveTo(EchoPosition(screen_x + 1, screen_y + ((screen_x + 1) \div NUM_COLS)))

EchoEnter == MoveTo(EchoPosition(0, screen_y + 1))

DeletePosition ==
  IF screen_x = 0 THEN [x |-> NUM_COLS - 1, y |-> screen_y - 1]
                  ELSE [x |-> screen_x - 1, y |-> screen_y]

\* delete_char, when the line buffer is not empty.
delete_char ==
  /\ screen_x # 0 \/ screen_y # 0
  /\ MoveTo(DeletePosition)

key_clear_screen == MoveTo([x |-> 0, y |-> 0])

\* Alt with a function key.
SwitchScreen ==
  /\ visible' = ~visible
  /\ UNCHANGED <<cursorVars, pc, raced>>

-----------------------------------------------------------------------------
(* putc *)

Goto(from, to) == pc = from /\ pc' = to

Newline ==
  /\ InBounds
  /\ Goto("user", "newline_x")
  /\ screen_y' = screen_y + 1
  /\ UNCHANGED <<screen_x, visible, raced>>

NewlineX ==
  /\ Goto("newline_x", "test")
  /\ screen_x' = 0
  /\ UNCHANGED <<screen_y, visible, raced>>

\* A character is stored and the column advances ...
PutChar ==
  /\ InBounds
  /\ Goto("user", "carry")
  /\ screen_x' = screen_x + 1
  /\ UNCHANGED <<screen_y, visible, raced>>

\* ... and carries into the row.
Carry ==
  /\ Goto("carry", "test")
  /\ screen_y' = screen_y + (screen_x \div NUM_COLS)
  /\ UNCHANGED <<screen_x, visible, raced>>

\* One row too late.
BelowScreen_late == screen_y = NUM_ROWS + 1

BelowScreen == screen_y = NUM_ROWS

Test ==
  /\ Goto("test", IF BelowScreen THEN "scroll" ELSE "wrap")
  /\ UNCHANGED <<cursorVars, visible, raced>>

\* scroll_screen, during which many keys may arrive, then screen_y--.
Scroll ==
  /\ Goto("scroll", "wrap")
  /\ screen_y' = screen_y - 1
  /\ UNCHANGED <<screen_x, visible, raced>>

\* Without "screen_x %= NUM_COLS".
Wrap_skipped ==
  /\ Goto("wrap", "user")
  /\ UNCHANGED <<cursorVars, visible, raced>>

Wrap ==
  /\ Goto("wrap", "user")
  /\ screen_x' = screen_x % NUM_COLS
  /\ UNCHANGED <<screen_y, visible, raced>>

PutcStep == NewlineX \/ Carry \/ Test \/ Scroll \/ Wrap

-----------------------------------------------------------------------------

Key == EchoChar \/ EchoEnter \/ delete_char \/ key_clear_screen \/ SwitchScreen

Next == Key \/ Newline \/ PutChar \/ PutcStep

Spec == Init /\ [][Next]_vars

-----------------------------------------------------------------------------
(* Properties *)

\* Every variable keeps its type.  In a putc the column may be one too far.
TypeOK ==
  /\ screen_x \in 0 .. NUM_COLS
  /\ screen_y \in Int
  /\ visible \in BOOLEAN
  /\ pc \in {"user", "newline_x", "carry", "test", "scroll", "wrap"}
  /\ raced \in BOOLEAN

\* Between two characters the column is on the screen, however keys and
\* output have interleaved: the last thing every putc does is to wrap it.
ColumnOnScreen == pc = "user" => screen_x \in 0 .. NUM_COLS - 1

\* Without a key in the middle of a putc the cursor stays on the screen,
\* through any mixture of output, echo, deleting, clearing and scrolling.
OnScreenUnlessRaced ==
  ~raced /\ pc = "user" => screen_y \in 0 .. NUM_ROWS - 1

-----------------------------------------------------------------------------
(* What a comment in the source says, and the code does not do *)

\* lib.c:262, "If terminal is filled up, scroll down a line": output never
\* leaves the cursor off the screen.
CursorOnScreen == pc = "user" => screen_y \in 0 .. NUM_ROWS - 1
=============================================================================
