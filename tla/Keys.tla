-------------------------------- MODULE Keys --------------------------------
(***************************************************************************)
(* The modifier keys: the state machine of getScancode and the table       *)
(* key_pos of getchar (keyboard.c), driven by a keyboard on which any key  *)
(* may be pressed, held so that its press code is sent again, and released *)
(* in any order.                                                           *)
(*                                                                         *)
(* Keys are told apart as far as the code does.  "LETTER" stands for all   *)
(* letters but L, "DIGIT" for the keys with a second character, "STAR" for *)
(* those with one (space, the keypad's star), "MINUS" for the keypad's -,  *)
(* "F" and "F_OTHER" for the function keys of this terminal and of the     *)
(* others, and "MUTE" for the keys that key_pos has 0 for in every row.    *)
(* 0xE0, the prefix of some keys' codes, is itself a code that does        *)
(* nothing; the code behind it is that of the key of the same number (of   *)
(* 0xE0 0x37, "STAR").  Prefixed shift codes, which some keyboards send    *)
(* around other keys without a shift key being pressed, are left out.      *)
(*                                                                         *)
(* Definitions whose name adds a word to the one below them are wrong on   *)
(* purpose: each stands for a bug that a property here must detect.        *)
(***************************************************************************)
EXTENDS Integers

Shifts == {"LSHIFT", "RSHIFT"}
Holdable == Shifts \cup {"CTRL", "ALT"}
AllKeys ==
  Holdable \cup {"LETTER", "L", "DIGIT", "STAR", "MINUS", "ENTER"}
    \cup {"CAPS", "DELETE", "F", "F_OTHER", "MUTE"}

VARIABLES
  key_status,      \* 0 .. 3: bit 0 shift, bit 1 caps lock
  key_flag,        \* 1: control is down
  terminal_flag,   \* 1: alt is down
  held,            \* the keyboard: which of the holdable keys are down
  both_shifts      \* history: both shift keys were down since neither was

keyStateVars == <<key_status, key_flag, terminal_flag>>
keysVars == <<keyStateVars, held, both_shifts>>

\* keyboard_init
KeysInit ==
  /\ key_status = 0
  /\ key_flag = 0
  /\ terminal_flag = 0
  /\ held = {}
  /\ both_shifts = FALSE

-----------------------------------------------------------------------------
(* getScancode and getchar *)

\* A release turns the shift off only if caps lock is off.
StatusAfter_caps(status, key, down) ==
  CASE status = 0 /\ key \in Shifts /\ down -> 1
    [] status = 1 /\ key \in Shifts /\ ~down -> 0
    [] status = 0 /\ key = "CAPS" /\ down -> 2
    [] status = 2 /\ key = "CAPS" /\ down -> 0
    [] status = 2 /\ key \in Shifts /\ down -> 3
    [] OTHER -> status

\* The first six branches of getScancode, for a code that says that a key
\* went down (or is still down) or up.
StatusAfter(status, key, down) ==
  CASE status = 0 /\ key \in Shifts /\ down -> 1
    [] status = 1 /\ key \in Shifts /\ ~down -> 0
    [] status = 0 /\ key = "CAPS" /\ down -> 2
    [] status = 2 /\ key = "CAPS" /\ down -> 0
    [] status = 2 /\ key \in Shifts /\ down -> 3
    [] status = 3 /\ key \in Shifts /\ ~down -> 2
    [] OTHER -> status

ChangesStatus(key, down) == StatusAfter(key_status, key, down) # key_status

\* The table, "0" for no character.  Its entry for the left shift key is that
\* of the backslash key beside it.
key_pos(status, key) ==
  CASE key \in {"LETTER", "L"} -> IF status \in {1, 2} THEN "A" ELSE "a"
    [] key = "DIGIT" -> IF status \in {1, 3} THEN "!" ELSE "1"
    [] key = "STAR" -> "*"
    [] key = "MINUS" -> IF status \in {1, 3} THEN "-" ELSE "0"
    [] key = "ENTER" -> "\n"
    [] key = "LSHIFT" -> IF status \in {1, 3} THEN "|" ELSE "\\"
    [] OTHER -> "0"

\* The branches behind those of key_status: control, alt, alt with a function
\* key, control with L, delete.  Everything else is looked up in the table.
SwitchesTo(key) == terminal_flag = 1 /\ key \in {"F", "F_OTHER"}
Clears(key) == key_flag = 1 /\ key = "L"

getchar(key) ==
  IF ChangesStatus(key, TRUE) \/ key \in {"CTRL", "ALT", "DELETE"}
       \/ SwitchesTo(key) \/ Clears(key)
    THEN "0" ELSE key_pos(key_status, key)

\* What a code does to the state of getScancode.
Modify(key, down) ==
  /\ key_status' = StatusAfter(key_status, key, down)
  /\ key_flag' = IF key = "CTRL" THEN IF down THEN 1 ELSE 0 ELSE key_flag
  /\ terminal_flag' = IF key = "ALT" THEN IF down THEN 1 ELSE 0 ELSE terminal_flag

-----------------------------------------------------------------------------
(* The keyboard *)

\* A key goes down, or is held down and repeats.
Press(key) ==
  /\ held' = held \cup ({key} \cap Holdable)
  /\ both_shifts' = (both_shifts \/ Shifts \subseteq held')
  /\ Modify(key, TRUE)

\* A key that is held goes up; of the others the release has no effect.
Release(key) ==
  /\ key \in held
  /\ held' = held \ {key}
  /\ both_shifts' = (both_shifts /\ held' \cap Shifts # {})
  /\ Modify(key, FALSE)

KeysNext == \E key \in AllKeys : Press(key) \/ Release(key)

KeysSpec == KeysInit /\ [][KeysNext]_keysVars

-----------------------------------------------------------------------------
(* Properties *)

ShiftOn == key_status \in {1, 3}

\* Through any sequence of presses, repeats and releases, with caps lock in
\* between: the shift is off whenever no shift key is down, so it never
\* sticks; and it is on while one is, unless both were down together and one
\* of them has gone up.
ShiftAsHeld ==
  /\ held \cap Shifts = {} => ~ShiftOn
  /\ held \cap Shifts # {} /\ ~both_shifts => ShiftOn
=============================================================================
