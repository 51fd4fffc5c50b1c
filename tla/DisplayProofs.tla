---------------------------- MODULE DisplayProofs ----------------------------
(***************************************************************************)
(* The screens of any number of terminals.                                 *)
(***************************************************************************)
EXTENDS Display, TLAPS

Pcs == {"user", "video", "buffer", "stored", "map_vid"}

\* The types of everything but the histories.
Types ==
  /\ visible_screen \in Terms
  /\ schedule_index \in Terms
  /\ vid_set \in [Terms -> {0, 1}]
  /\ started \subseteq Terms
  /\ picture \in [Frames -> Terms \cup {Blank}]
  /\ pc \in [Terms -> Pcs]

Histories == slice_hit \in BOOLEAN /\ putc_hit \in [Terms -> BOOLEAN]

\* In a time slice without a screen switch the kernel's page is the right one.
SliceMapped == ~slice_hit => pte = FrameOf(schedule_index)

\* Between its test and its store putc knows whether its terminal is visible,
\* unless the screen was switched.
TestHolds ==
  \A t \in Terms : ~putc_hit[t] =>
    /\ pc[t] = "video" => visible_screen = t
    /\ pc[t] = "buffer" => visible_screen # t

IInv == Types /\ Histories /\ NeverAnotherBuffer /\ SliceMapped /\ TestHolds

\* At boot everybody is off the screen but terminal 0.
LEMMA InitIInv == Init => IInv
<1> SUFFICES ASSUME Init PROVE IInv
  OBVIOUS
<1> USE DisplayAssumption DEF Init, Terms, Frames, Buffer, Video, NoPage
<1>1. Types
  BY DEF Types, Pcs
<1>2. Histories
  BY Zenon DEF Histories
<1>3. NeverAnotherBuffer /\ SliceMapped
  BY DEF NeverAnotherBuffer, SliceMapped, FrameOf
<1>4. TestHolds
  BY DEF TestHolds
<1> QED BY <1>1, <1>2, <1>3, <1>4 DEF IInv

\* A tick maps the next terminal's frames.
LEMMA TickIInv == IInv /\ Tick => IInv'
<1> SUFFICES ASSUME IInv, Tick PROVE IInv'
  OBVIOUS
<1> DEFINE next == (schedule_index + 1) % NumTerm
<1>1. next \in Terms
  BY DisplayAssumption DEF IInv, Types, Terms
<1>2. schedule_index' = next /\ UNCHANGED <<visible_screen, picture, pc, putc_hit>>
  BY DEF Tick
<1>3. pte' = FrameOf(next) /\ pte_vid' \in {NoPage, FrameOf(next)}
  BY DEF Tick, map_screen_buffer, map_user, FrameOf
<1>4. vid_set' \in [Terms -> {0, 1}] /\ started' \subseteq Terms
  BY <1>1 DEF Tick, IInv, Types
<1> HIDE DEF next
<1>5. Types'
  BY <1>1, <1>2, <1>4 DEF IInv, Types
<1>6. NeverAnotherBuffer' /\ SliceMapped'
  BY <1>2, <1>3 DEF NeverAnotherBuffer, SliceMapped, FrameOf
<1>7. Histories'
  <2>1. slice_hit' = FALSE
    BY DEF Tick
  <2> QED BY <1>2, <2>1, Zenon DEF IInv, Histories
<1>8. TestHolds'
  BY <1>2 DEF IInv, TestHolds
<1> QED BY <1>5, <1>6, <1>7, <1>8 DEF IInv

\* A screen switch maps the buffer of the running terminal, or video memory,
\* and invalidates what the slice and every putc know.
LEMMA SwitchIInv ==
  ASSUME IInv, NEW target \in Terms, switch_vid(target)
  PROVE  IInv'
<1>1. /\ visible_screen' = target
      /\ UNCHANGED <<schedule_index, pte, vid_set, started, pc>>
      /\ pte_vid' \in {Video, Buffer(schedule_index)}
      /\ picture' = CopyScreens(visible_screen, target)
  BY DEF switch_vid
<1>2. picture' \in [Frames -> Terms \cup {Blank}]
  BY <1>1, DisplayAssumption DEF IInv, Types, CopyScreens, Terms, Frames, Buffer, Video
<1>3. Types'
  BY <1>1, <1>2 DEF IInv, Types
<1>4. NeverAnotherBuffer'
  BY <1>1 DEF IInv, NeverAnotherBuffer
<1>5. slice_hit' = TRUE /\ putc_hit' = [t \in Terms |-> putc_hit[t] \/ pc[t] # "user"]
  BY DEF switch_vid
<1>6. Histories'
  BY <1>5, Zenon DEF Histories
<1>7. SliceMapped'
  BY <1>5 DEF SliceMapped
<1>8. TestHolds'
  BY <1>1, <1>5 DEF TestHolds
<1> QED BY <1>3, <1>4, <1>6, <1>7, <1>8 DEF IInv

\* Keys that draw on the visible screen.
LEMMA KeyIInv == IInv /\ (EchoKey \/ key_clear_screen) => IInv'
<1> SUFFICES ASSUME IInv, EchoKey \/ key_clear_screen PROVE IInv'
  OBVIOUS
<1>1. UNCHANGED <<visible_screen, schedule_index, pte, pte_vid, vid_set, started, pc, slice_hit, putc_hit>>
  BY DEF EchoKey, key_clear_screen, mapVars, hitVars
<1>2. picture' \in [Frames -> Terms \cup {Blank}]
  BY DEF EchoKey, key_clear_screen, IInv, Types
<1> QED
  BY <1>1, <1>2 DEF IInv, Types, Histories, NeverAnotherBuffer, SliceMapped, TestHolds, FrameOf

\* What the running program does leaves the screens and the kernel's mapping
\* alone.
LEMMA ProgramIInv ==
  ASSUME IInv,
         \/ putc \/ putc_newline \/ StoreChar \/ putc_return \/ scroll_screen
         \/ vidmap \/ map_vid \/ Draw \/ execute \/ halt
  PROVE  IInv'
<1>0. /\ schedule_index \in Terms /\ pc \in [Terms -> Pcs]
      /\ vid_set \in [Terms -> {0, 1}]
      /\ picture \in [Frames -> Terms \cup {Blank}]
  BY DEF IInv, Types
<1>1. UNCHANGED <<visible_screen, schedule_index, pte, started, slice_hit>>
  BY DEF putc, putc_newline, StoreChar, putc_return, scroll_screen, vidmap, map_vid,
         Draw, execute, halt, mapVars, hitVars
<1>2. pc' \in [Terms -> Pcs]
  BY <1>0 DEF putc, putc_newline, StoreChar, putc_return, scroll_screen, vidmap, map_vid,
              Draw, execute, halt, Goto, Pcs
<1>3. vid_set' \in [Terms -> {0, 1}]
  BY <1>0 DEF putc, putc_newline, StoreChar, putc_return, scroll_screen, vidmap, map_vid,
              Draw, execute, halt, mapVars
<1>4. picture' \in [Frames -> Terms \cup {Blank}]
  <2>1. \A t \in Terms : Buffer(t) \in Frames
    BY DisplayAssumption DEF Terms, Frames, Buffer
  <2>2. pte \in Frames /\ (pte_vid # NoPage => pte_vid \in Frames)
    BY <1>0, <2>1, DisplayAssumption DEF IInv, NeverAnotherBuffer, Video, Frames
  <2>3. CASE StoreChar
    BY <1>0, <2>1, <2>2, <2>3 DEF StoreChar, StoreTarget
  <2>4. CASE scroll_screen
    BY <1>0, <2>1, <2>2, <2>4 DEF scroll_screen
  <2>5. CASE Draw
    BY <1>0, <2>2, <2>5 DEF Draw
  <2>6. CASE ~StoreChar /\ ~scroll_screen /\ ~Draw
    BY <1>0, <2>6 DEF putc, putc_newline, putc_return, vidmap, map_vid, execute, halt
  <2> QED BY <2>3, <2>4, <2>5, <2>6
<1>5. pte_vid' \in {NoPage, Video, pte_vid}
  BY DEF putc, putc_newline, StoreChar, putc_return, scroll_screen, vidmap, map_vid,
         Draw, execute, halt, mapVars
<1>6. NeverAnotherBuffer' /\ SliceMapped'
  BY <1>1, <1>5 DEF IInv, NeverAnotherBuffer, SliceMapped, FrameOf
<1>7. Histories'
  <2>1. putc_hit' = putc_hit \/ putc_hit' = [putc_hit EXCEPT ![schedule_index] = FALSE]
    BY DEF putc, putc_newline, StoreChar, putc_return, scroll_screen, vidmap, map_vid,
           Draw, execute, halt, hitVars
  <2>2. putc_hit' \in [Terms -> BOOLEAN]
    BY <2>1 DEF IInv, Histories
  <2> QED BY <1>1, <2>2, Zenon DEF IInv, Histories
<1>8. TestHolds'
  <2>1. CASE putc
    BY <1>0, <1>1, <2>1 DEF putc, Goto, IInv, TestHolds, Histories
  <2>2. CASE ~putc
    <3>1. putc_hit' = putc_hit
      BY <2>2 DEF putc_newline, StoreChar, putc_return, scroll_screen, vidmap, map_vid,
                  Draw, execute, halt, hitVars
    <3>2. \A t \in Terms : pc'[t] = pc[t] \/ pc'[t] \in {"user", "stored", "map_vid"}
      BY <1>0, <2>2 DEF putc_newline, StoreChar, putc_return, scroll_screen, vidmap,
                        map_vid, Draw, execute, halt, Goto
    <3> QED BY <1>1, <3>1, <3>2 DEF IInv, TestHolds
  <2> QED BY <2>1, <2>2
<1> QED BY <1>0, <1>1, <1>2, <1>3, <1>4, <1>6, <1>7, <1>8 DEF IInv, Types

\* The inductive invariant holds in every reachable state.
THEOREM Inductive == Spec => []IInv
<1>1. IInv /\ UNCHANGED vars => IInv'
  BY DEF vars, mapVars, hitVars, IInv, Types, Histories, NeverAnotherBuffer, SliceMapped,
         TestHolds, FrameOf
<1>2. IInv /\ [Next]_vars => IInv'
  BY <1>1, TickIInv, SwitchIInv, KeyIInv, ProgramIInv DEF Next
<1> QED
  BY <1>2, InitIInv, PTL DEF Spec

\* Every variable keeps its type, for any number of terminals.
THEOREM TypeCorrect == Spec => []TypeOK
<1>1. ASSUME IInv PROVE TypeOK
  <2>1. pte \in Frames /\ pte_vid \in Frames \cup {NoPage}
    BY <1>1, DisplayAssumption
       DEF IInv, Types, NeverAnotherBuffer, Terms, Frames, Buffer, Video
  <2> QED
    BY <1>1, <2>1, Zenon DEF IInv, Types, Histories, Pcs, TypeOK
<1> QED
  BY <1>1, Inductive, PTL

\* For any number of terminals: neither the kernel nor the running program
\* ever has another terminal's buffer mapped (scheduler.c:62, vidctl.c:80).
THEOREM BufferSafety == Spec => []NeverAnotherBuffer
<1>1. IInv => NeverAnotherBuffer
  BY DEF IInv
<1> QED
  BY <1>1, Inductive, PTL

\* For any number of terminals: unless the screen is switched in this very
\* putc or slice, a character goes where its terminal is (lib.c:247).
THEOREM OutputSafety == Spec => OutputOnOwnScreen
<1>1. ASSUME IInv PROVE [OutputStep]_vars
  <2> SUFFICES ASSUME StoreChar, ~slice_hit, ~putc_hit[schedule_index]
               PROVE  StoreTarget = FrameOf(schedule_index)
    BY DEF OutputStep
  <2>1. schedule_index \in Terms /\ pc[schedule_index] \in {"video", "buffer"}
    BY <1>1 DEF StoreChar, IInv, Types
  <2> QED
    BY <1>1, <2>1 DEF StoreTarget, FrameOf, IInv, SliceMapped, TestHolds
<1> QED
  BY <1>1, Inductive, PTL DEF OutputOnOwnScreen

\* For any number of terminals: a screen switch changes no terminal's picture
\* (vidctl.c:76).
THEOREM SwitchSafety == Spec => SwitchKeepsPictures
<1>1. ASSUME IInv, [Next]_vars PROVE [ScreenStep]_vars
  <2> SUFFICES ASSUME Next, visible_screen' # visible_screen
               PROVE  \A t \in Terms : picture'[IF visible_screen' = t THEN Video ELSE Buffer(t)]
                                         = picture[FrameOf(t)]
    BY <1>1 DEF ScreenStep
  <2>1. PICK target \in Terms : switch_vid(target)
    BY DEF Next, Tick, EchoKey, key_clear_screen, putc, putc_newline, StoreChar, putc_return,
           scroll_screen, vidmap, map_vid, Draw, execute, halt
  <2>2. /\ visible_screen' = target /\ target # visible_screen
        /\ picture' = CopyScreens(visible_screen, target)
    BY <2>1 DEF switch_vid
  <2> QED
    BY <1>1, <2>2, DisplayAssumption DEF IInv, Types, CopyScreens, FrameOf, Terms, Frames, Buffer, Video
<1> QED
  BY <1>1, Inductive, PTL DEF Spec, SwitchKeepsPictures
=============================================================================
