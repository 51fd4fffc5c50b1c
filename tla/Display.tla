------------------------------ MODULE Display ------------------------------
(***************************************************************************)
(* Which memory the terminals draw on: switch_vid (vidctl.c), the page     *)
(* table entries of video memory (paging.c), their update by context_switch*)
(* (scheduler.c) and by vidmap, execute and halt (syscall.c), and putc     *)
(* (lib.c), which tests for the visible screen and then stores.            *)
(*                                                                         *)
(* There is one frame of video memory and one buffer frame per terminal.   *)
(* The kernel writes program output at the virtual address of video memory *)
(* through pte[184], or at the address of a buffer; the keyboard handler   *)
(* writes through a second address that always is video memory; a program  *)
(* that called vidmap draws through pte_vid[0].                            *)
(*                                                                         *)
(* The handlers of timer and keyboard are one action each; putc and vidmap *)
(* run with interrupts enabled and are split where another actor matters.  *)
(* A frame's picture is represented by who drew on it last.  Where on the  *)
(* screen a character goes is the subject of Cursor.                       *)
(*                                                                         *)
(* Definitions whose name adds a word to the one below them are wrong on   *)
(* purpose: each stands for a bug that a property here must detect.        *)
(***************************************************************************)
EXTENDS Integers

CONSTANT NumTerm     \* terminals

ASSUME DisplayAssumption == NumTerm \in Nat \ {0}

Terms == 0 .. NumTerm - 1
Video == 0                      \* frame 0xb8000
Buffer(t) == t + 1              \* frames BUFFER_1 and up
Frames == 0 .. NumTerm
NoPage == -1                    \* an entry that is not present
Blank == -1                     \* a picture nobody has drawn on

VARIABLES
  visible_screen,
  schedule_index,
  pte,         \* frame behind pte[184]
  pte_vid,     \* frame behind pte_vid[0], or NoPage
  vid_set,     \* of the program in control of each terminal
  started,     \* terminals that have a process
  picture,     \* of each frame: the terminal that drew on it last
  pc,          \* where the program of each terminal is, in putc or vidmap
  slice_hit,   \* history: the screen was switched since the last tick
  putc_hit     \* history: the screen was switched since t's putc began

mapVars == <<pte, pte_vid, vid_set>>
hitVars == <<slice_hit, putc_hit>>
vars == <<visible_screen, schedule_index, mapVars, started, picture, pc, hitVars>>

\* The frame on which terminal t belongs now.
FrameOf(t) == IF visible_screen = t THEN Video ELSE Buffer(t)

Init ==
  /\ visible_screen = 0
  /\ schedule_index = 0
  /\ pte = Video
  /\ pte_vid = NoPage
  /\ vid_set = [t \in Terms |-> 0]
  /\ started = {0}
  /\ picture = [f \in Frames |-> Blank]
  /\ pc = [t \in Terms |-> "user"]
  /\ slice_hit = FALSE
  /\ putc_hit = [t \in Terms |-> FALSE]

-----------------------------------------------------------------------------
(* context_switch *)

\* Not remapped for a terminal in the background.
map_screen_buffer_kept(t) == IF visible_screen = t THEN Video ELSE pte

\* map_screen_buffer: what pte[184] becomes for terminal t.
map_screen_buffer(t) == IF visible_screen = t THEN Video ELSE Buffer(t)

\* Always the buffer of the visible screen.
map_user_visible(t, set) == IF set = 0 THEN NoPage ELSE Buffer(visible_screen)

\* What pte_vid[0] becomes for terminal t.
map_user(t, set) == IF set = 0 THEN NoPage ELSE FrameOf(t)

\* For a terminal without a process, get_pcb(-1) is an address in a boot
\* stack: the vid_set read there is any value.  boot_shell then starts the
\* shell, whose own vid_set is 0.
Tick ==
  LET next == (schedule_index + 1) % NumTerm IN
  /\ schedule_index' = next
  /\ pte' = map_screen_buffer(next)
  /\ \E set \in (IF next \in started THEN {vid_set[next]} ELSE {0, 1}) :
       pte_vid' = map_user(next, set)
  /\ vid_set' = IF next \in started THEN vid_set ELSE [vid_set EXCEPT ![next] = 0]
  /\ started' = started \cup {next}
  /\ slice_hit' = FALSE
  /\ UNCHANGED <<visible_screen, picture, pc, putc_hit>>

-----------------------------------------------------------------------------
(* The keyboard handler *)

\* The target's buffer is shown before the old screen is saved.
CopyScreens_swapped(from, to) ==
  [picture EXCEPT ![Video] = picture[Buffer(to)], ![Buffer(from)] = picture[Buffer(to)]]

\* Save the visible screen, then show the target's buffer.
CopyScreens(from, to) ==
  [picture EXCEPT ![Buffer(from)] = picture[Video], ![Video] = picture[Buffer(to)]]

\* switch_vid on Alt with a function key.  pte_vid[0] is set whether or not
\* the running program has called vidmap; pte[184] is left alone.
switch_vid(target) ==
  /\ target # visible_screen
  /\ picture' = CopyScreens(visible_screen, target)
  /\ visible_screen' = target
  /\ pte_vid' = IF target # schedule_index THEN Buffer(schedule_index) ELSE Video
  /\ slice_hit' = TRUE
  /\ putc_hit' = [t \in Terms |-> putc_hit[t] \/ pc[t] # "user"]
  /\ UNCHANGED <<schedule_index, pte, vid_set, started, pc>>

\* putc_keyboard, and delete_char, on the visible screen.
EchoKey ==
  /\ picture' = [picture EXCEPT ![Video] = visible_screen]
  /\ UNCHANGED <<visible_screen, schedule_index, mapVars, started, pc, hitVars>>

\* Ctrl-L
key_clear_screen ==
  /\ picture' = [picture EXCEPT ![Video] = Blank]
  /\ UNCHANGED <<visible_screen, schedule_index, mapVars, started, pc, hitVars>>

-----------------------------------------------------------------------------
(* The program of the scheduled terminal *)

Goto(from, to) ==
  /\ pc[schedule_index] = from
  /\ pc' = [pc EXCEPT ![schedule_index] = to]

\* putc, for a character: the test ...
putc ==
  /\ Goto("user", IF schedule_index = visible_screen THEN "video" ELSE "buffer")
  /\ putc_hit' = [putc_hit EXCEPT ![schedule_index] = FALSE]
  /\ UNCHANGED <<visible_screen, schedule_index, mapVars, started, picture, slice_hit>>

\* putc, for a newline: nothing is stored.
putc_newline ==
  /\ Goto("user", "stored")
  /\ UNCHANGED <<visible_screen, schedule_index, mapVars, started, picture, hitVars>>

\* FOURKB * schedule_index.
StoreTarget_near ==
  IF pc[schedule_index] = "video" THEN pte ELSE Buffer(schedule_index) - 1

\* ... and the store: through pte[184], or at the address of the own buffer.
StoreTarget ==
  IF pc[schedule_index] = "video" THEN pte ELSE Buffer(schedule_index)

StoreChar ==
  /\ pc[schedule_index] \in {"video", "buffer"}
  /\ Goto(pc[schedule_index], "stored")
  /\ picture' = [picture EXCEPT ![StoreTarget] = schedule_index]
  /\ UNCHANGED <<visible_screen, schedule_index, mapVars, started, hitVars>>

\* A putc that does not fill the screen ends here.
putc_return ==
  /\ Goto("stored", "user")
  /\ UNCHANGED <<visible_screen, schedule_index, mapVars, started, picture, hitVars>>

\* scroll_screen.  In the background it writes to the own buffer what it
\* reads through pte[184].
scroll_screen ==
  /\ Goto("stored", "user")
  /\ picture' = IF schedule_index = visible_screen THEN picture
                ELSE [picture EXCEPT ![Buffer(schedule_index)] = picture[pte]]
  /\ UNCHANGED <<visible_screen, schedule_index, mapVars, started, hitVars>>

\* vidmap sets vid_set, then map_vid maps video memory, whatever is visible.
vidmap ==
  /\ Goto("user", "map_vid")
  /\ vid_set' = [vid_set EXCEPT ![schedule_index] = 1]
  /\ UNCHANGED <<visible_screen, schedule_index, pte, pte_vid, started, picture, hitVars>>

map_vid ==
  /\ Goto("map_vid", "user")
  /\ pte_vid' = Video
  /\ UNCHANGED <<visible_screen, schedule_index, pte, vid_set, started, picture, hitVars>>

\* The program draws through the page that vidmap gave it.
Draw ==
  /\ pc[schedule_index] = "user"
  /\ pte_vid # NoPage
  /\ picture' = [picture EXCEPT ![pte_vid] = schedule_index]
  /\ UNCHANGED <<visible_screen, schedule_index, mapVars, started, pc, hitVars>>

\* execute: the new program has not called vidmap.
execute ==
  /\ pc[schedule_index] = "user"
  /\ vid_set' = [vid_set EXCEPT ![schedule_index] = 0]
  /\ UNCHANGED <<visible_screen, schedule_index, pte, pte_vid, started, picture, pc, hitVars>>

\* halt: clear_vid; the parent may or may not have called vidmap.
halt ==
  /\ pc[schedule_index] = "user"
  /\ pte_vid' = NoPage
  /\ \E set \in {0, 1} : vid_set' = [vid_set EXCEPT ![schedule_index] = set]
  /\ UNCHANGED <<visible_screen, schedule_index, pte, started, picture, pc, hitVars>>

-----------------------------------------------------------------------------

Next ==
  \/ Tick
  \/ \E target \in Terms : switch_vid(target)
  \/ EchoKey \/ key_clear_screen
  \/ putc \/ putc_newline \/ StoreChar \/ putc_return \/ scroll_screen
  \/ vidmap \/ map_vid \/ Draw
  \/ execute \/ halt

Spec == Init /\ [][Next]_vars

\* The timer keeps ticking.
FairSpec == Spec /\ WF_vars(Tick)

-----------------------------------------------------------------------------
(* Properties *)

\* Every variable keeps its type.
TypeOK ==
  /\ visible_screen \in Terms
  /\ schedule_index \in Terms
  /\ pte \in Frames
  /\ pte_vid \in Frames \cup {NoPage}
  /\ vid_set \in [Terms -> {0, 1}]
  /\ started \subseteq Terms
  /\ picture \in [Frames -> Terms \cup {Blank}]
  /\ pc \in [Terms -> {"user", "video", "buffer", "stored", "map_vid"}]
  /\ slice_hit \in BOOLEAN
  /\ putc_hit \in [Terms -> BOOLEAN]

\* Whatever ticks, screen switches and vidmaps interleave, neither the kernel
\* nor the running program has another terminal's buffer mapped.
NeverAnotherBuffer ==
  /\ pte \in {Video, Buffer(schedule_index)}
  /\ pte_vid \in {NoPage, Video, Buffer(schedule_index)}

OutputStep ==
  (StoreChar /\ ~slice_hit /\ ~putc_hit[schedule_index])
    => StoreTarget = FrameOf(schedule_index)

\* A character that putc stores lands where its terminal is shown or kept,
\* across any number of ticks and of screen switches, except when a switch
\* falls into this very putc or into the time slice of the store.
OutputOnOwnScreen == [][OutputStep]_vars

ScreenStep ==
  visible_screen' # visible_screen =>
    \A t \in Terms : picture'[IF visible_screen' = t THEN Video ELSE Buffer(t)]
                       = picture[FrameOf(t)]

\* Switching the screen changes no terminal's picture: what was on the screen
\* is kept, and what had been kept is shown.
SwitchKeepsPictures == [][ScreenStep]_vars

\* When the visible screen stays, and no vidmap is in progress, the mappings
\* become right and stay right through all ticks.
MappingSettles ==
  \A v \in Terms :
    <>[](visible_screen = v /\ \A t \in Terms : pc[t] # "map_vid")
      => <>[](/\ pte = FrameOf(schedule_index)
              /\ pte_vid \in {NoPage, FrameOf(schedule_index)})
=============================================================================
