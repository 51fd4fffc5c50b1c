-------------------------- MODULE TerminalProofs --------------------------
(***************************************************************************)
(* Proofs about Terminal, for every number of terminals and buffer size.   *)
(***************************************************************************)
EXTENDS Terminal, TLAPS

\* Types of the variables that the argument about the buffers needs.
BufferTypes ==
  /\ visible_screen \in Terms
  /\ counter \in [Terms -> Nat]
  /\ buffer \in [Terms -> [Cells -> {0, 1}]]
  /\ pc \in [Terms -> Waiting \cup {"user", "clear_flag", "branch", "copy",
                                    "clear", "reset"}]
  /\ src \in [Terms -> Terms]

\* Terminals and cells are numbered from 0.
LEMMA Numbers ==
  /\ Terms \subseteq Nat /\ 0 \in Terms
  /\ Cells \subseteq Nat
BY TerminalAssumption DEF Terms, Cells

LineInv == BufferTypes /\ TypedLineHasNoHole

\* Buffers start empty, with counters at 0.
LEMMA InitLineInv == Init => LineInv
BY Numbers DEF Init, LineInv, BufferTypes, TypedLineHasNoHole, Waiting

\* The branch number stays a terminal.
LEMMA NextBranch == \A s \in Terms : (s + 1) % NumTerm \in Terms
BY TerminalAssumption DEF Terms

\* A key preserves the invariant.
LEMMA KeyLineInv ==
  ASSUME LineInv, Key
  PROVE  LineInv'
<1> USE Numbers
<1> DEFINE v == visible_screen
<1>1. v \in Terms /\ counter[v] \in Nat
  BY DEF LineInv, BufferTypes
<1>2. pc' = pc /\ src' = src /\ visible_screen' \in Terms
  BY DEF Key, TypeChar, TypeEnter, StoreKey, TypeDelete, TypeOther, SwitchScreen,
         readVars, LineInv, BufferTypes
<1>3. CASE TypeChar \/ TypeEnter
  <2>1. /\ counter' = [counter EXCEPT ![v] = counter[v] + 1]
        /\ buffer' = IF counter[v] \in Cells
                       THEN [buffer EXCEPT ![v][counter[v]] = 1] ELSE buffer
    BY <1>3 DEF TypeChar, TypeEnter, StoreKey
  <2>2. BufferTypes'
    BY <2>1, <1>1, <1>2 DEF LineInv, BufferTypes
  <2>3. ASSUME NEW u \in Terms, Settled(u), NEW i \in Cells, i < counter'[u]
        PROVE  buffer'[u][i] = 1
    <3>1. CASE u = v
      <4>1. i < counter[v] \/ i = counter[v]
        BY <3>1, <2>1, <2>3, <1>1 DEF LineInv, BufferTypes
      <4>2. i < counter[v] => buffer[v][i] = 1
        BY <3>1, <2>3 DEF LineInv, TypedLineHasNoHole
      <4> QED BY <4>1, <4>2, <3>1, <2>1, <1>1 DEF LineInv, BufferTypes
    <3>2. CASE u # v
      BY <3>2, <2>1, <2>3, <1>1 DEF LineInv, BufferTypes, TypedLineHasNoHole
    <3> QED BY <3>1, <3>2
  <2> QED BY <2>2, <2>3, <1>2 DEF LineInv, TypedLineHasNoHole, Settled
<1>4. CASE TypeDelete /\ counter[v] > 0
  <2>1. /\ counter' = [counter EXCEPT ![v] = counter[v] - 1]
        /\ buffer' = IF counter[v] - 1 \in Cells
                       THEN [buffer EXCEPT ![v][counter[v] - 1] = 0] ELSE buffer
    BY <1>4 DEF TypeDelete, CanDelete
  <2>2. BufferTypes'
    BY <2>1, <1>1, <1>2, <1>4 DEF LineInv, BufferTypes
  <2>3. ASSUME NEW u \in Terms, Settled(u), NEW i \in Cells, i < counter'[u]
        PROVE  buffer'[u][i] = 1
    <3>1. CASE u = v
      <4>1. i < counter[v] - 1
        BY <3>1, <2>1, <2>3, <1>1 DEF LineInv, BufferTypes
      <4>2. buffer[v][i] = 1
        BY <4>1, <3>1, <2>3, <1>1 DEF LineInv, TypedLineHasNoHole
      <4> QED BY <4>1, <4>2, <3>1, <2>1, <1>1 DEF LineInv, BufferTypes
    <3>2. CASE u # v
      BY <3>2, <2>1, <2>3, <1>1 DEF LineInv, BufferTypes, TypedLineHasNoHole
    <3> QED BY <3>1, <3>2
  <2> QED BY <2>2, <2>3, <1>2 DEF LineInv, TypedLineHasNoHole, Settled
<1>5. CASE counter' = counter /\ buffer' = buffer
  BY <1>5, <1>2 DEF LineInv, BufferTypes, TypedLineHasNoHole, Settled
<1>6. CASE TypeDelete /\ ~(counter[v] > 0)
  BY <1>6, <1>5 DEF TypeDelete, CanDelete
<1>7. CASE TypeOther \/ \E target \in Terms : SwitchScreen(target)
  BY <1>7, <1>5 DEF TypeOther, SwitchScreen
<1> QED BY <1>3, <1>4, <1>6, <1>7 DEF Key

\* A step of a reader preserves the invariant.
LEMMA ReadLineInv ==
  ASSUME LineInv, NEW t \in Terms, keyboard_read(t) \/ ReadStep(t)
  PROVE  LineInv'
<1> USE Numbers
<1>1. CASE ClearBuffer(t)
  <2>1. /\ pc' = [pc EXCEPT ![t] = "reset"] /\ src' = src
        /\ buffer' = [buffer EXCEPT ![src[t]] = [i \in Cells |-> 0]]
        /\ counter' = counter /\ visible_screen' = visible_screen
    BY <1>1 DEF ClearBuffer, Goto
  <2>2. BufferTypes'
    BY <2>1 DEF LineInv, BufferTypes
  <2>3. ASSUME NEW u \in Terms, Settled(u)'
        PROVE  u # src[t] /\ Settled(u)
    BY <2>1, <2>3 DEF Settled, LineInv, BufferTypes
  <2> QED BY <2>1, <2>2, <2>3 DEF LineInv, BufferTypes, TypedLineHasNoHole
<1>2. CASE ResetCounter(t)
  <2>1. /\ pc' = [pc EXCEPT ![t] = "user"] /\ src' = [src EXCEPT ![t] = 0]
        /\ counter' = [counter EXCEPT ![src[t]] = 0] /\ pc[t] = "reset"
        /\ buffer' = buffer /\ visible_screen' = visible_screen
    BY <1>2 DEF ResetCounter, Goto
  <2>2. BufferTypes'
    BY <2>1 DEF LineInv, BufferTypes
  <2>3. ASSUME NEW u \in Terms, u # src[t], Settled(u)'
        PROVE  Settled(u)
    BY <2>1, <2>3 DEF Settled, LineInv, BufferTypes
  <2>4. counter'[src[t]] = 0 /\ \A u \in Terms : u # src[t] => counter'[u] = counter[u]
    BY <2>1 DEF LineInv, BufferTypes
  <2> QED BY <2>1, <2>2, <2>3, <2>4 DEF LineInv, TypedLineHasNoHole
<1>3. CASE Branch(t)
  <2>1. /\ pc[t] = "branch" /\ pc'[t] # "reset"
        /\ \A u \in Terms : u # t => pc'[u] = pc[u] /\ src'[u] = src[u]
        /\ counter' = counter /\ buffer' = buffer /\ visible_screen' = visible_screen
    <3>1. pc' = [pc EXCEPT ![t] = pc'[t]] /\ src' = [src EXCEPT ![t] = src'[t]]
      BY <1>3 DEF Branch, LineInv, BufferTypes
    <3>2. pc[t] = "branch" /\ pc'[t] \in {"copy", "user", "branch"}
      BY <1>3 DEF Branch, LineInv, BufferTypes
    <3> QED BY <1>3, <3>1, <3>2 DEF Branch, keyVars, LineInv, BufferTypes
  <2>2. BufferTypes'
    <3>1. pc' \in [Terms -> Waiting \cup {"user", "clear_flag", "branch", "copy",
                                           "clear", "reset"}]
      BY <1>3 DEF Branch, LineInv, BufferTypes
    <3>2. (src[t] + 1) % NumTerm \in Terms
      BY NextBranch DEF LineInv, BufferTypes
    <3>3. src' = src \/ src' = [src EXCEPT ![t] = (src[t] + 1) % NumTerm]
      BY <1>3, Zenon DEF Branch
    <3>4. src' \in [Terms -> Terms]
      BY <3>2, <3>3 DEF LineInv, BufferTypes
    <3> QED BY <2>1, <3>1, <3>4 DEF LineInv, BufferTypes
  <2>3. ASSUME NEW u \in Terms, Settled(u)'
        PROVE  Settled(u)
    BY <2>1, <2>3 DEF Settled
  <2> QED BY <2>1, <2>2, <2>3 DEF LineInv, TypedLineHasNoHole
<1>4. CASE keyboard_read(t) \/ WaitScreen(t) \/ WaitFlag(t) \/ ClearFlag(t) \/ Copy(t)
  <2>1. /\ pc[t] # "reset"
        /\ counter' = counter /\ buffer' = buffer /\ visible_screen' = visible_screen
        /\ \A u \in Terms : u # t => pc'[u] = pc[u] /\ src'[u] = src[u]
    BY <1>4 DEF keyboard_read, WaitScreen, WaitFlag, ClearFlag, Copy, Goto, keyVars,
                LineInv, BufferTypes
  <2>2. BufferTypes'
    BY <1>4, <2>1 DEF keyboard_read, WaitScreen, WaitFlag, ClearFlag, Copy, Goto,
                      keyVars, LineInv, BufferTypes, Waiting
  <2>3. ASSUME NEW u \in Terms, Settled(u)'
        PROVE  Settled(u)
    BY <2>1, <2>3 DEF Settled
  <2> QED BY <2>1, <2>2, <2>3 DEF LineInv, TypedLineHasNoHole
<1> QED BY <1>1, <1>2, <1>3, <1>4 DEF ReadStep

\* Every step preserves the invariant.
LEMMA NextLineInv == LineInv /\ [Next]_vars => LineInv'
<1> SUFFICES ASSUME LineInv, [Next]_vars PROVE LineInv' OBVIOUS
<1>1. CASE UNCHANGED vars
  BY <1>1 DEF vars, keyVars, readVars, LineInv, BufferTypes, TypedLineHasNoHole,
              Settled
<1> QED BY <1>1, KeyLineInv, ReadLineInv DEF Next

\* The invariant holds in every reachable state.
LEMMA LineInvariant == Spec => []LineInv
BY InitLineInv, NextLineInv, PTL DEF Spec

\* A line being typed never has a hole, for any number of terminals and any
\* buffer size, although reads are not atomic with the keyboard interrupt.
THEOREM LineSafety == Spec => []TypedLineHasNoHole
<1>1. LineInv => TypedLineHasNoHole
  BY DEF LineInv
<1> QED BY <1>1, LineInvariant, PTL

-----------------------------------------------------------------------------
(* Full lines *)

FlagInv == flag_keyboard \in [Terms -> {0, 1}] /\ FullLineIsAnnounced

\* At boot no line is full.
LEMMA InitFlagInv == Init => FlagInv
BY Numbers, TerminalAssumption DEF Init, FlagInv, FullLineIsAnnounced, TERMBUF_SIZE

\* Every key ends in the test that raises the flag of the terminal that is then
\* visible.
LEMMA KeyFlagInv ==
  ASSUME LineInv, LineInv', FlagInv, Key
  PROVE  FlagInv'
<1>1. \E enter \in BOOLEAN : SetFlag(enter)
  BY DEF Key, TypeChar, TypeEnter, StoreKey, TypeDelete, TypeOther, SwitchScreen
<1>2. visible_screen' \in Terms
  BY DEF LineInv, BufferTypes
<1>3. flag_keyboard' \in [Terms -> {0, 1}]
  BY <1>1, <1>2 DEF SetFlag, FlagInv
<1>4. counter'[visible_screen'] >= TERMBUF_SIZE => flag_keyboard'[visible_screen'] = 1
  BY <1>1, <1>2 DEF SetFlag, FlagInv
<1> QED BY <1>3, <1>4 DEF FlagInv, FullLineIsAnnounced

\* A step of a reader leaves the visible terminal's full line announced.
LEMMA ReadFlagInv ==
  ASSUME LineInv, LineInv', FlagInv, NEW t \in Terms, keyboard_read(t) \/ ReadStep(t)
  PROVE  FlagInv'
<1> USE Numbers
<1> DEFINE v == visible_screen
<1>0. /\ v \in Terms /\ pc \in [Terms -> Waiting \cup {"user", "clear_flag", "branch",
                                               "copy", "clear", "reset"}]
      /\ src \in [Terms -> Terms] /\ counter \in [Terms -> Nat]
      /\ flag_keyboard \in [Terms -> {0, 1}]
  BY DEF LineInv, BufferTypes, FlagInv
<1>1. visible_screen' = v
  BY DEF keyboard_read, ReadStep, WaitScreen, WaitFlag, ClearFlag, Branch, Copy,
         ClearBuffer, ResetCounter, keyVars
<1>2. flag_keyboard' \in [Terms -> {0, 1}]
  BY <1>0 DEF keyboard_read, ReadStep, WaitScreen, WaitFlag, ClearFlag, Branch, Copy,
         ClearBuffer, ResetCounter, keyVars
<1>3. ASSUME NEW u \in Terms, u # t, Emptying(u, v)
      PROVE  Emptying(u, v)'
  <2>1. pc'[u] = pc[u] /\ src'[u] = src[u]
    BY <1>0, <1>3 DEF keyboard_read, ReadStep, WaitScreen, WaitFlag, ClearFlag, Branch,
           Copy, ClearBuffer, ResetCounter, Goto
  <2> QED BY <2>1, <1>1, <1>3 DEF Emptying
<1>4. SUFFICES ASSUME counter'[v] >= TERMBUF_SIZE
               PROVE  flag_keyboard'[v] = 1 \/ \E u \in Terms : Emptying(u, v)'
  BY <1>1, <1>2 DEF FlagInv, FullLineIsAnnounced
<1>5. ASSUME counter' = counter, flag_keyboard' = flag_keyboard,
             Emptying(t, v) => Emptying(t, v)'
      PROVE  flag_keyboard'[v] = 1 \/ \E u \in Terms : Emptying(u, v)'
  BY <1>3, <1>4, <1>5 DEF FlagInv, FullLineIsAnnounced
<1>6. CASE keyboard_read(t) \/ WaitScreen(t) \/ WaitFlag(t)
  BY <1>5, <1>6 DEF keyboard_read, WaitScreen, WaitFlag, Goto, Emptying, keyVars
<1>7. CASE ClearFlag(t)
  BY <1>0, <1>1, <1>7 DEF ClearFlag, Goto, Emptying
<1>8. CASE Branch(t)
  <2>1. ASSUME Emptying(t, v) PROVE Emptying(t, v)'
    <3>1. src[t] \in Nat /\ v \in Nat /\ src[t] <= v /\ v <= NumTerm - 1 /\ NumTerm \in Nat
      BY <1>0, <1>8, <2>1, TerminalAssumption DEF Branch, Emptying, Terms
    <3>2. CASE v = src[t]
      BY <1>0, <1>1, <1>8, <3>2 DEF Branch, Emptying
    <3>3. CASE v # src[t]
      <4>1. /\ pc'[t] = "branch"
            /\ src'[t] = (src[t] + 1) % NumTerm
        BY <1>0, <1>8, <3>1, <3>3 DEF Branch
      <4>2. src'[t] <= v
        BY <4>1, <3>1, <3>3
      <4> QED BY <4>1, <4>2, <1>1 DEF Emptying
    <3> QED BY <3>2, <3>3
  <2> QED BY <1>5, <1>8, <2>1 DEF Branch, keyVars
<1>9. CASE Copy(t) \/ ClearBuffer(t)
  BY <1>0, <1>1, <1>5, <1>9 DEF Copy, ClearBuffer, Goto, Emptying, keyVars
<1>10. CASE ResetCounter(t)
  <2>1. src[t] # v
    BY <1>0, <1>4, <1>10, TerminalAssumption DEF ResetCounter, TERMBUF_SIZE
  <2>2. ~Emptying(t, v)
    BY <2>1, <1>10 DEF ResetCounter, Goto, Emptying
  <2>3. counter'[v] = counter[v] /\ flag_keyboard' = flag_keyboard
    BY <2>1, <1>0, <1>10 DEF ResetCounter
  <2> QED BY <2>2, <2>3, <1>3, <1>4 DEF FlagInv, FullLineIsAnnounced
<1> QED BY <1>6, <1>7, <1>8, <1>9, <1>10 DEF ReadStep

\* The flag of the visible terminal is up, or its line about to be emptied,
\* whenever that line is full, for any number of terminals and any buffer size.
THEOREM FullLineSafety == Spec => []FullLineIsAnnounced
<1>1. LineInv /\ LineInv' /\ FlagInv /\ [Next]_vars => FlagInv'
  <2>1. FlagInv /\ UNCHANGED vars => FlagInv'
    BY DEF vars, keyVars, readVars, FlagInv, FullLineIsAnnounced, Emptying
  <2> QED BY <2>1, KeyFlagInv, ReadFlagInv DEF Next
<1>2. FlagInv => FullLineIsAnnounced
  BY DEF FlagInv
<1> QED BY <1>1, <1>2, InitFlagInv, LineInvariant, PTL DEF Spec
=============================================================================
