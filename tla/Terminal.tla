------------------------------ MODULE Terminal ------------------------------
(***************************************************************************)
(* The line discipline of the three terminals: the keyboard interrupt      *)
(* (interrupt_keyboard, and the part of getScancode that edits the line or *)
(* changes the visible screen) against keyboard_read in the processes that *)
(* wait for a line.                                                        *)
(*                                                                         *)
(* The handler runs with interrupts disabled: one action per kind of key.  *)
(* keyboard_read runs with interrupts enabled and reads visible_screen     *)
(* afresh at every use, so each use is a step; the timer lets the readers  *)
(* of different terminals interleave at any point.  A cell of a buffer is  *)
(* 0 or holds a character; which character is not distinguished.           *)
(*                                                                         *)
(* Definitions whose name adds a word to the one below them are wrong on   *)
(* purpose: each stands for a bug that a property here must detect.        *)
(***************************************************************************)
EXTENDS Integers, FiniteSets

CONSTANTS
  NumTerm,       \* terminals
  BUFFER_SIZE,   \* cells of a terminal's buffer (keyboard.h: 128)
  MaxCount       \* bound: how far a counter may run before keys stop

ASSUME TerminalAssumption ==
  /\ NumTerm \in Nat \ {0}
  /\ BUFFER_SIZE \in Nat \ {0, 1}
  /\ MaxCount \in Nat /\ MaxCount >= BUFFER_SIZE

Terms == 0 .. NumTerm - 1
TERMBUF_SIZE == BUFFER_SIZE - 1
Cells == 0 .. BUFFER_SIZE - 1

VARIABLES
  visible_screen,
  flag_keyboard,   \* per terminal: a line is ready
  counter,         \* counter1 .. counter3
  buffer,          \* terminal1_buffer .. terminal3_buffer, 1 = a character
  pc,              \* the reader of each terminal, inside keyboard_read
  src,             \* the terminal whose branch of keyboard_read it is in
  bytes_read       \* its local

keyVars == <<visible_screen, flag_keyboard, counter, buffer>>
readVars == <<pc, src, bytes_read>>
vars == <<keyVars, readVars>>

Init ==
  /\ visible_screen = 0
  /\ flag_keyboard = [t \in Terms |-> 0]
  /\ counter = [t \in Terms |-> 0]
  /\ buffer = [t \in Terms |-> [i \in Cells |-> 0]]
  /\ pc = [t \in Terms |-> "user"]
  /\ src = [t \in Terms |-> 0]
  /\ bytes_read = [t \in Terms |-> 0]

-----------------------------------------------------------------------------
(* The keyboard interrupt *)

\* The flag goes up one character later.
SetFlag_past(enter) ==
  flag_keyboard' =
    IF enter \/ \E t \in Terms : counter'[t] > TERMBUF_SIZE
      THEN [flag_keyboard EXCEPT ![visible_screen'] = 1]
      ELSE flag_keyboard

\* The end of interrupt_keyboard: the visible terminal's flag goes up after
\* Enter, or when any terminal's counter has reached the limit.
SetFlag(enter) ==
  flag_keyboard' =
    IF enter \/ \E t \in Terms : counter'[t] >= TERMBUF_SIZE
      THEN [flag_keyboard EXCEPT ![visible_screen'] = 1]
      ELSE flag_keyboard

\* A character, or Enter, is stored in the visible terminal's buffer.  There
\* is no bound: past the buffer the store hits memory that is not modelled.
StoreKey(enter) ==
  LET v == visible_screen IN
  /\ counter[v] < MaxCount
  /\ buffer' = IF counter[v] \in Cells
                 THEN [buffer EXCEPT ![v][counter[v]] = 1] ELSE buffer
  /\ counter' = [counter EXCEPT ![v] = counter[v] + 1]
  /\ UNCHANGED <<visible_screen, readVars>>
  /\ SetFlag(enter)

TypeChar == StoreKey(FALSE)
TypeEnter == StoreKey(TRUE)

CanDelete(v) == counter[v] > 0

\* Backspace removes the last character of the visible terminal, if any.
TypeDelete ==
  LET v == visible_screen IN
  /\ IF CanDelete(v)
       THEN /\ counter' = [counter EXCEPT ![v] = counter[v] - 1]
            /\ buffer' = IF counter[v] - 1 \in Cells
                           THEN [buffer EXCEPT ![v][counter[v] - 1] = 0] ELSE buffer
       ELSE UNCHANGED <<counter, buffer>>
  /\ UNCHANGED <<visible_screen, readVars>>
  /\ SetFlag(FALSE)

\* Shift, Ctrl, Alt, Ctrl-L and key releases only reach the test of the flag.
TypeOther ==
  /\ UNCHANGED <<visible_screen, counter, buffer, readVars>>
  /\ SetFlag(FALSE)

\* Alt with F1, F2 or F3: switch_vid.
SwitchScreen(target) ==
  /\ target # visible_screen
  /\ visible_screen' = target
  /\ UNCHANGED <<counter, buffer, readVars>>
  /\ SetFlag(FALSE)

-----------------------------------------------------------------------------
(* keyboard_read *)

Goto(t, from, to) == pc[t] = from /\ pc' = [pc EXCEPT ![t] = to]

keyboard_read(t) ==
  /\ Goto(t, "user", "wait_screen")
  /\ UNCHANGED <<keyVars, src, bytes_read>>

\* The two operands of the loop condition.  (While the first one keeps it in
\* the loop the reader only spins.)
WaitScreen(t) ==
  /\ visible_screen = t
  /\ Goto(t, "wait_screen", "wait_flag")
  /\ UNCHANGED <<keyVars, src, bytes_read>>

\* The flag of terminal 0 is tested on every screen.
WaitFlag_first(t) ==
  /\ Goto(t, "wait_flag",
          IF flag_keyboard[0] = 1 THEN "clear_flag" ELSE "wait_screen")
  /\ UNCHANGED <<keyVars, src, bytes_read>>

WaitFlag(t) ==
  /\ Goto(t, "wait_flag",
          IF flag_keyboard[visible_screen] = 1 THEN "clear_flag" ELSE "wait_screen")
  /\ UNCHANGED <<keyVars, src, bytes_read>>

ClearFlag(t) ==
  /\ Goto(t, "clear_flag", "branch")
  /\ flag_keyboard' = [flag_keyboard EXCEPT ![visible_screen] = 0]
  /\ src' = [src EXCEPT ![t] = 0]
  /\ UNCHANGED <<visible_screen, counter, buffer, bytes_read>>

\* The chain "if(visible_screen == 0) ... else if ...": src is the number the
\* next test compares with.  If the screen changes under it, no test may
\* match, and bytes_read is returned without a value.
Branch(t) ==
  /\ pc[t] = "branch"
  /\ IF visible_screen = src[t]
       THEN /\ pc' = [pc EXCEPT ![t] = "copy"]
            /\ UNCHANGED src
       ELSE /\ pc' = [pc EXCEPT ![t] = IF src[t] = NumTerm - 1 THEN "user" ELSE "branch"]
            /\ src' = [src EXCEPT ![t] = (src[t] + 1) % NumTerm]
  /\ UNCHANGED <<keyVars, bytes_read>>

\* strlen: the cells before the first 0.  With no 0 in the buffer it runs on
\* into memory that is not modelled and stops somewhere past the end.
StrlenOf(b) ==
  IF \E i \in Cells : b[i] = 0
    THEN {CHOOSE n \in Cells : b[n] = 0 /\ \A i \in 0 .. n - 1 : b[i] # 0}
    ELSE BUFFER_SIZE .. MaxCount

\* strlen and the copy to the caller's buf.
Copy(t) ==
  /\ Goto(t, "copy", "clear")
  /\ \E n \in StrlenOf(buffer[src[t]]) : bytes_read' = [bytes_read EXCEPT ![t] = n]
  /\ UNCHANGED <<keyVars, src>>

\* A key stored during the clearing loop is either cleared by it or stored
\* behind it, so the loop is one step.
ClearBuffer(t) ==
  /\ Goto(t, "clear", "reset")
  /\ buffer' = [buffer EXCEPT ![src[t]] = [i \in Cells |-> 0]]
  /\ UNCHANGED <<visible_screen, flag_keyboard, counter, src, bytes_read>>

\* Without "counter = 0".
ResetCounter_forgotten(t) ==
  /\ Goto(t, "reset", "user")
  /\ src' = [src EXCEPT ![t] = 0]
  /\ bytes_read' = [bytes_read EXCEPT ![t] = 0]
  /\ UNCHANGED <<visible_screen, flag_keyboard, counter, buffer>>

ResetCounter(t) ==
  /\ Goto(t, "reset", "user")
  /\ counter' = [counter EXCEPT ![src[t]] = 0]
  /\ src' = [src EXCEPT ![t] = 0]
  /\ bytes_read' = [bytes_read EXCEPT ![t] = 0]
  /\ UNCHANGED <<visible_screen, flag_keyboard, buffer>>

ReadStep(t) ==
  \/ WaitScreen(t) \/ WaitFlag(t) \/ ClearFlag(t) \/ Branch(t)
  \/ Copy(t) \/ ClearBuffer(t) \/ ResetCounter(t)

-----------------------------------------------------------------------------

Key ==
  \/ TypeChar \/ TypeEnter \/ TypeDelete \/ TypeOther
  \/ \E target \in Terms : SwitchScreen(target)

Next ==
  \/ Key
  \/ \E t \in Terms : keyboard_read(t) \/ ReadStep(t)

Spec == Init /\ [][Next]_vars

\* A process inside keyboard_read gets the CPU again and again (Processes,
\* EveryTerminalRuns).  Nothing is assumed of the person at the keyboard.
Fairness == \A t \in Terms : WF_vars(ReadStep(t))

FairSpec == Spec /\ Fairness

-----------------------------------------------------------------------------
(* Properties *)

Waiting == {"wait_screen", "wait_flag"}

\* Nobody is between the clearing of v's buffer and the reset of its counter.
Settled(v) == \A t \in Terms : pc[t] = "reset" => src[t] # v

\* Whatever keys arrive during reads, and whichever readers meet in the same
\* buffer, a line being typed has no hole: all cells below the counter hold
\* characters, so strlen never cuts typed input short.
TypedLineHasNoHole ==
  \A v \in Terms : Settled(v) =>
    \A i \in Cells : i < counter[v] => buffer[v][i] = 1

\* A reader has taken the flag of terminal v and will empty its buffer, unless
\* another screen is shown first.
Emptying(t, v) ==
  \/ pc[t] = "branch" /\ src[t] <= v
  \/ pc[t] \in {"copy", "clear", "reset"} /\ src[t] = v

\* A full line is never left unannounced: while the visible terminal's counter
\* is at the limit its flag is up, or a reader is about to empty that line.
\* This holds through every screen switch and although readers of other
\* terminals take flags that are not theirs: whoever reads next on this screen
\* finds the line, and the counter runs past the buffer only until then.
FullLineIsAnnounced ==
  counter[visible_screen] >= TERMBUF_SIZE =>
    \/ flag_keyboard[visible_screen] = 1
    \/ \E t \in Terms : Emptying(t, visible_screen)

\* Once a screen stays visible, a reader on it does not miss Enter for ever:
\* if its flag keeps being raised, its reads keep ending, although readers of
\* other terminals may have taken the flag before.
ReaderNotStarved ==
  \A t \in Terms :
    (<>[](visible_screen = t) /\ []<>(flag_keyboard[t] = 1))
      => []<>(pc[t] \notin Waiting)

-----------------------------------------------------------------------------
(* What comments in the source say, and the code does not do *)

\* interrupt_handler.c:54, "Depending on which screen, use different terminal
\* buffers": a reader takes its line from its own terminal's buffer.
ReadsOwnTerminal ==
  \A t \in Terms : pc[t] \in {"copy", "clear", "reset"} => src[t] = t
=============================================================================
