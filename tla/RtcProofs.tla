----------------------------- MODULE RtcProofs -----------------------------
(***************************************************************************)
(* Proofs about Rtc, for every set of processes and of frequencies.        *)
(***************************************************************************)
EXTENDS Rtc, TLAPS, WellFoundedInduction

\* The control state and the flags that the argument needs.
Control ==
  /\ pc \in [Procs -> InitPcs \cup {"idle", "opened", "read_wait"}]
  /\ ticked \in [Procs -> BOOLEAN]
  /\ index \in {"B", "C"}
  /\ flag_rtc \in {0, 1}

\* A process is between its first selection of register B and its write.
InsideInit == \E p \in Procs : pc[p] \in {"init_read", "init_reselect", "init_write"}

\* The index port can only have moved off register B by a tick, and there is
\* none before some process has enabled them.
IndexMovedByTick == (InsideInit /\ index # "B") => PIE \in reg_b

\* The flag a reader waits for can only be up because of a tick it has seen.
FlagMeansTick ==
  \A p \in Procs : (pc[p] = "read_wait" /\ flag_rtc = 1) => ticked[p] = TRUE

RtcInv ==
  /\ Control
  /\ IndexMovedByTick
  /\ OpenEnablesInterrupts
  /\ FlagMeansTick

\* The kernel starts with nobody in the driver.
LEMMA InitRtcInv == Init => RtcInv
BY DEF Init, RtcInv, Control, InitPcs, IndexMovedByTick, InsideInit,
       OpenEnablesInterrupts, FlagMeansTick

\* Every step of a process, and every tick, preserves the invariant.
LEMMA StepRtcInv == RtcInv /\ [Next]_vars => RtcInv'
<1> SUFFICES ASSUME RtcInv, [Next]_vars PROVE RtcInv' OBVIOUS
<1> USE DEF RtcInv
<1>1. ASSUME NEW p \in Procs, rtc_open(p) \/ init_flag(p) PROVE RtcInv'
  BY <1>1 DEF rtc_open, init_flag, Goto, chipVars, Control, InitPcs,
       IndexMovedByTick, InsideInit, OpenEnablesInterrupts, FlagMeansTick
<1>2. ASSUME NEW p \in Procs, init_select(p) \/ init_reselect(p) PROVE RtcInv'
  BY <1>2 DEF init_select, init_reselect, Goto, chipVars, Control, InitPcs,
       IndexMovedByTick, InsideInit, OpenEnablesInterrupts, FlagMeansTick
<1>3. ASSUME NEW p \in Procs, init_read(p) PROVE RtcInv'
  BY <1>3 DEF init_read, Goto, chipVars, Control, InitPcs,
       IndexMovedByTick, InsideInit, OpenEnablesInterrupts, FlagMeansTick
<1>4. ASSUME NEW p \in Procs, init_write(p) PROVE RtcInv'
  <2>1. PIE \in reg_b'
    <3>1. CASE index = "B"
      BY <1>4, <3>1 DEF init_write
    <3>2. CASE index # "B"
      BY <1>4, <3>2 DEF init_write, Goto, IndexMovedByTick, InsideInit
    <3> QED BY <3>1, <3>2
  <2>2. Control' /\ FlagMeansTick'
    BY <1>4 DEF init_write, Goto, Control, InitPcs, FlagMeansTick
  <2> QED BY <2>1, <2>2 DEF IndexMovedByTick, OpenEnablesInterrupts
<1>5. ASSUME NEW p \in Procs, rtc_read(p) PROVE RtcInv'
  BY <1>5 DEF rtc_read, Goto, chipVars, Control, InitPcs,
       IndexMovedByTick, InsideInit, OpenEnablesInterrupts, FlagMeansTick
<1>6. ASSUME NEW p \in Procs, read_return(p) \/ rtc_close(p) PROVE RtcInv'
  BY <1>6 DEF read_return, rtc_close, Goto, chipVars, Control, InitPcs,
       IndexMovedByTick, InsideInit, OpenEnablesInterrupts, FlagMeansTick
<1>7. ASSUME NEW p \in Procs, NEW f \in Frequencies, rtc_write(p, f) PROVE RtcInv'
  BY <1>7 DEF rtc_write, chipVars, Control, InitPcs,
       IndexMovedByTick, InsideInit, OpenEnablesInterrupts, FlagMeansTick
<1>10. ASSUME NEW p \in Procs, rtc_write_size(p) PROVE RtcInv'
  BY <1>10 DEF rtc_write_size, chipVars, Control, InitPcs,
       IndexMovedByTick, InsideInit, OpenEnablesInterrupts, FlagMeansTick
<1>8. CASE interrupt_rtc
  <2>1. PIE \in reg_b'
    BY <1>8 DEF interrupt_rtc
  <2>2. Control' /\ FlagMeansTick'
    BY <1>8 DEF interrupt_rtc, read_reg_c, Control, FlagMeansTick
  <2> QED BY <2>1, <2>2 DEF IndexMovedByTick, OpenEnablesInterrupts
<1>9. CASE UNCHANGED vars
  BY <1>9 DEF vars, chipVars, procVars, Control, InitPcs,
       IndexMovedByTick, InsideInit, OpenEnablesInterrupts, FlagMeansTick
<1> QED
  BY <1>1, <1>2, <1>3, <1>4, <1>5, <1>6, <1>7, <1>8, <1>9, <1>10
  DEF Next, InitStep

\* The inductive invariant holds of every behaviour.
THEOREM RtcInvariance == Spec => []RtcInv
BY InitRtcInv, StepRtcInv, PTL DEF Spec

\* Whoever has the rtc file open has periodic interrupts enabled, for any
\* number of processes inside rtc_init at once.
THEOREM OpenSafety == Spec => []OpenEnablesInterrupts
<1>1. RtcInv => OpenEnablesInterrupts
  BY DEF RtcInv
<1> QED BY <1>1, RtcInvariance, PTL

\* Only a return from rtc_read leads from the wait to the opened state, and
\* it finds the flag up.
LEMMA StepRead == RtcInv /\ [Next]_vars => [ReadStep]_vars
<1> SUFFICES ASSUME RtcInv, Next, NEW q \in Procs,
                    pc[q] = "read_wait", pc'[q] = "opened"
             PROVE  ticked[q]
  BY DEF ReadStep
<1>1. PICK p \in Procs : read_return(p) /\ p = q
  BY DEF Next, InitStep, rtc_open, init_flag, init_select, init_read,
         init_reselect, init_write, rtc_close, rtc_read, read_return, rtc_write,
         rtc_write_size, interrupt_rtc, Goto, RtcInv, Control
<1>2. ticked[q] = TRUE
  BY <1>1 DEF read_return, RtcInv, FlagMeansTick
<1> QED BY <1>2

\* rtc_read returns only after a tick that arrived during the call.
THEOREM ReadSafety == Spec => ReadWaitsForTick
BY RtcInvariance, StepRead, PTL DEF Spec, ReadWaitsForTick
-----------------------------------------------------------------------------
(* What the halving loop computes *)

\* A set of numbers that is not empty has a smallest member.
LEMMA Smallest ==
  ASSUME NEW S \in SUBSET Nat, S # {}
  PROVE  \E x \in S : \A y \in S : x <= y
<1>1. IsWellFoundedOn(OpToRel(<, Nat), Nat)
  BY NatLessThanWellFounded
<1>2. PICK x \in S : \A y \in S : <<y, x>> \notin OpToRel(<, Nat)
  BY <1>1, WFMin
<1>3. \A y \in S : x <= y
  <2> TAKE y \in S
  <2>1. <<y, x>> \in Nat \X Nat /\ ~(y < x)
    BY <1>2 DEF OpToRel
  <2> QED BY <2>1
<1> QED BY <1>3

\* The right-hand side of Halve's definition, for a function h in its place.
Body(h, f) ==
  IF f % 2 = 0 /\ f > 1
    THEN [frequency |-> h[f \div 2].frequency, power_value |-> h[f \div 2].power_value + 1]
    ELSE [frequency |-> f, power_value |-> 0]

Results == [frequency : Nat, power_value : Nat]

\* h computes the loop for the numbers up to n.
Upto(n, h) == \A f \in 0 .. n : h[f] = Body(h, f)

\* Half of an even number above one is smaller than it.
LEMMA HalfSmaller ==
  ASSUME NEW f \in Nat
  PROVE  /\ f \div 2 \in Nat
         /\ f % 2 = 0 /\ f > 1 => f \div 2 < f /\ f = 2 * (f \div 2) /\ f \div 2 >= 1
OBVIOUS

\* The body yields a result, and looks only at the half.
LEMMA BodyLocal ==
  ASSUME NEW f \in Nat, NEW h \in [Nat -> Results]
  PROVE  /\ Body(h, f) \in Results
         /\ \A g : (f % 2 = 0 /\ f > 1 => g[f \div 2] = h[f \div 2]) => Body(g, f) = Body(h, f)
<1> DEFINE e == f \div 2
<1>1. e \in Nat
  BY HalfSmaller
<1>2. h[e] \in Results
  BY <1>1
<1>3. h[e].frequency \in Nat /\ h[e].power_value + 1 \in Nat
  BY <1>2 DEF Results
<1>4. Body(h, f) \in Results
  BY <1>3 DEF Body, Results
<1>5. \A g : (f % 2 = 0 /\ f > 1 => g[e] = h[e]) => Body(g, f) = Body(h, f)
  BY DEF Body
<1> QED BY <1>4, <1>5

\* The loop can be computed up to any number.
LEMMA UptoExists ==
  ASSUME NEW n \in Nat
  PROVE  \E h \in [Nat -> Results] : Upto(n, h)
<1> DEFINE Bad == {m \in Nat : ~\E h \in [Nat -> Results] : Upto(m, h)}
<1> SUFFICES ASSUME Bad # {} PROVE FALSE
  OBVIOUS
<1>1. PICK m \in Bad : \A y \in Bad : m <= y
  <2>1. Bad \in SUBSET Nat
    OBVIOUS
  <2> HIDE DEF Bad
  <2> QED BY <2>1, Smallest
<1>2. m \in Nat /\ ~\E h \in [Nat -> Results] : Upto(m, h)
  OBVIOUS
<1>3. \E h \in [Nat -> Results] : \A f \in 0 .. m - 1 : h[f] = Body(h, f)
  <2>1. CASE m = 0
    <3> DEFINE b == [f \in Nat |-> [frequency |-> f, power_value |-> 0]]
    <3>1. b \in [Nat -> Results]
      BY DEF Results
    <3>2. \A f \in 0 .. m - 1 : b[f] = Body(b, f)
      BY <2>1
    <3> HIDE DEF b
    <3> QED BY <3>1, <3>2
  <2>2. CASE m # 0
    <3>1. m - 1 \in Nat /\ ~(m <= m - 1)
      BY <1>2, <2>2
    <3>2. m - 1 \notin Bad
      BY <1>1, <3>1
    <3> QED BY <3>1, <3>2 DEF Upto
  <2> QED BY <2>1, <2>2
<1>4. PICK h \in [Nat -> Results] : \A f \in 0 .. m - 1 : h[f] = Body(h, f)
  BY <1>3
<1> DEFINE g == [h EXCEPT ![m] = Body(h, m)]
<1>5. g \in [Nat -> Results] /\ g[m] = Body(h, m) /\ \A f \in Nat : f # m => g[f] = h[f]
  BY <1>2, BodyLocal
<1> HIDE DEF g, Bad
<1>6. \A f \in 0 .. m : g[f] = Body(g, f)
  <2> TAKE f \in 0 .. m
  <2>1. f \in Nat
    BY <1>2
  <2>2. f % 2 = 0 /\ f > 1 => f \div 2 \in Nat /\ f \div 2 # m
    BY <1>2, <2>1, HalfSmaller
  <2>3. f % 2 = 0 /\ f > 1 => g[f \div 2] = h[f \div 2]
    BY <1>5, <2>2
  <2>4. Body(g, f) = Body(h, f)
    BY <2>1, <2>3, BodyLocal
  <2>5. f = m \/ f \in 0 .. m - 1
    BY <1>2
  <2>6. f # m => g[f] = h[f]
    BY <1>5, <2>1
  <2> QED BY <1>4, <1>5, <2>4, <2>5, <2>6
<1> QED BY <1>2, <1>5, <1>6 DEF Upto

\* Two computations agree as far as both go.
LEMMA UptoUnique ==
  ASSUME NEW n \in Nat, NEW m \in Nat, n <= m,
         NEW g \in [Nat -> Results], Upto(n, g),
         NEW h \in [Nat -> Results], Upto(m, h)
  PROVE  \A f \in 0 .. n : g[f] = h[f]
<1> DEFINE Bad == {f \in 0 .. n : g[f] # h[f]}
<1> SUFFICES ASSUME Bad # {} PROVE FALSE
  OBVIOUS
<1>1. PICK f \in Bad : \A y \in Bad : f <= y
  <2>1. Bad \in SUBSET Nat
    OBVIOUS
  <2> HIDE DEF Bad
  <2> QED BY <2>1, Smallest
<1>2. f \in Nat /\ f \in 0 .. n /\ f \in 0 .. m /\ g[f] # h[f]
  OBVIOUS
<1>3. f % 2 = 0 /\ f > 1 => f \div 2 \in 0 .. n /\ ~(f <= f \div 2)
  BY <1>2, HalfSmaller
<1>4. f % 2 = 0 /\ f > 1 => g[f \div 2] = h[f \div 2]
  BY <1>1, <1>3
<1>5. Body(g, f) = Body(h, f)
  BY <1>2, <1>4, BodyLocal
<1>6. g[f] = Body(g, f) /\ h[f] = Body(h, f)
  BY <1>2 DEF Upto
<1> QED BY <1>2, <1>5, <1>6

\* The recursion of Halve has a solution, so Halve is one.
LEMMA HalveRecursion ==
  /\ Halve \in [Nat -> Results]
  /\ \A f \in Nat : Halve[f] = Body(Halve, f)
<1> DEFINE U(n) == CHOOSE h \in [Nat -> Results] : Upto(n, h)
           H == [f \in Nat |-> U(f)[f]]
<1>1. \A n \in Nat : U(n) \in [Nat -> Results] /\ Upto(n, U(n))
  BY UptoExists
<1> HIDE DEF U
<1>2. H \in [Nat -> Results]
  BY <1>1
<1>3. \A f \in Nat : H[f] = Body(H, f)
  <2> TAKE f \in Nat
  <2>1. H[f] = Body(U(f), f)
    BY <1>1 DEF Upto
  <2>2. f % 2 = 0 /\ f > 1 => H[f \div 2] = U(f)[f \div 2]
    <3> SUFFICES ASSUME f % 2 = 0, f > 1 PROVE H[f \div 2] = U(f)[f \div 2]
      OBVIOUS
    <3> DEFINE e == f \div 2
    <3>1. e \in Nat /\ e <= f /\ e \in 0 .. e
      BY HalfSmaller
    <3> HIDE DEF e
    <3>2. U(e)[e] = U(f)[e]
      BY <1>1, <3>1, UptoUnique
    <3>3. H[e] = U(e)[e]
      BY <3>1
    <3>4. H[e] = U(f)[e]
      BY <3>2, <3>3
    <3> QED BY <3>4 DEF e
  <2> HIDE DEF H
  <2>3. Body(H, f) = Body(U(f), f)
    BY <1>1, <2>2, BodyLocal
  <2> QED BY <2>1, <2>3
<1>4. H = [f \in Nat |-> Body(H, f)]
  BY <1>3
<1>5. Halve = CHOOSE h : h = [f \in Nat |-> Body(h, f)]
  BY DEF Halve, Body
<1> HIDE DEF H
<1>6. Halve = [f \in Nat |-> Body(Halve, f)]
  BY <1>4, <1>5
<1>7. \A f \in Nat : Halve[f] = Body(Halve, f)
  BY <1>6
<1>8. \A f \in Nat : Halve[f] \in Results
  <2> SUFFICES ASSUME NEW q \in Nat PROVE Halve[q] \in Results
    OBVIOUS
  <2>1. \A f \in 0 .. q : Halve[f] = H[f]
    <3> DEFINE Bad == {f \in 0 .. q : Halve[f] # H[f]}
    <3> SUFFICES ASSUME Bad # {} PROVE FALSE
      OBVIOUS
    <3>1. PICK f \in Bad : \A y \in Bad : f <= y
      <4>1. Bad \in SUBSET Nat
        OBVIOUS
      <4> HIDE DEF Bad
      <4> QED BY <4>1, Smallest
    <3>2. f \in Nat /\ f \in 0 .. q /\ Halve[f] # H[f]
      OBVIOUS
    <3>3. f % 2 = 0 /\ f > 1 => f \div 2 \in 0 .. q /\ ~(f <= f \div 2)
      BY <3>2, HalfSmaller
    <3>4. f % 2 = 0 /\ f > 1 => Halve[f \div 2] = H[f \div 2]
      BY <3>1, <3>3
    <3>5. Body(Halve, f) = Body(H, f)
      BY <1>2, <3>2, <3>4, BodyLocal
    <3> QED BY <1>3, <1>7, <3>2, <3>5
  <2> QED BY <1>2, <2>1
<1>9. Halve \in [Nat -> Results]
  BY <1>6, <1>8
<1> QED BY <1>7, <1>9

\* The powers of two of an int32_t, as a table.
Powers == [k \in 0 .. 30 |-> 2 ^ k]

\* Their values.
LEMMA PowerValues ==
  /\ Powers[0] = 1 /\ Powers[1] = 2 /\ Powers[2] = 4 /\ Powers[3] = 8
  /\ Powers[4] = 16 /\ Powers[5] = 32 /\ Powers[6] = 64 /\ Powers[7] = 128
  /\ Powers[8] = 256 /\ Powers[9] = 512 /\ Powers[10] = 1024 /\ Powers[11] = 2048
  /\ Powers[12] = 4096 /\ Powers[13] = 8192 /\ Powers[14] = 16384 /\ Powers[15] = 32768
  /\ Powers[16] = 65536 /\ Powers[17] = 131072 /\ Powers[18] = 262144 /\ Powers[19] = 524288
  /\ Powers[20] = 1048576 /\ Powers[21] = 2097152 /\ Powers[22] = 4194304 /\ Powers[23] = 8388608
  /\ Powers[24] = 16777216 /\ Powers[25] = 33554432 /\ Powers[26] = 67108864 /\ Powers[27] = 134217728
  /\ Powers[28] = 268435456 /\ Powers[29] = 536870912 /\ Powers[30] = 1073741824
BY SMT DEF Powers

\* Each is twice the one before it, and the last is the largest that fits.
LEMMA PowersDouble ==
  /\ \A k \in 0 .. 30 : Powers[k] = 2 ^ k
  /\ \A k \in 0 .. 30 : Powers[k] \in Nat /\ Powers[k] >= 1 /\ (k > 10 => Powers[k] > 1024)
  /\ \A k \in 1 .. 30 : k - 1 \in 0 .. 30 /\ Powers[k] = 2 * Powers[k - 1]
  /\ Powers[0] = 1 /\ INT_MAX \in Nat /\ 2 * Powers[30] > INT_MAX
<1>1. \A k \in 0 .. 30 : Powers[k] = 2 ^ k
  BY DEF Powers
<1>2. \A k \in 0 .. 30 : Powers[k] \in Nat /\ Powers[k] >= 1 /\ (k > 10 => Powers[k] > 1024)
  BY SMT, PowerValues
<1>3. \A k \in 1 .. 30 : k - 1 \in 0 .. 30 /\ Powers[k] = 2 * Powers[k - 1]
  BY SMT, PowerValues
<1>4. Powers[0] = 1 /\ INT_MAX \in Nat /\ 2 * Powers[30] > INT_MAX
  BY SMT, PowerValues DEF INT_MAX
<1> QED BY <1>1, <1>2, <1>3, <1>4

\* One round of the loop, and its end.
LEMMA HalveRound ==
  ASSUME NEW f \in Nat
  PROVE  /\ f % 2 = 0 /\ f > 1 =>
              /\ Halve[f].frequency = Halve[f \div 2].frequency
              /\ Halve[f].power_value = Halve[f \div 2].power_value + 1
         /\ ~(f % 2 = 0 /\ f > 1) => Halve[f].frequency = f /\ Halve[f].power_value = 0
BY HalveRecursion DEF Body

\* The loop leaves 1 of the powers of two, and of no other number.
LEMMA LeavesOne ==
  ASSUME NEW q \in 1 .. INT_MAX
  PROVE  Halve[q].frequency = 1 <=> \E k \in 0 .. 30 : q = Powers[k]
<1> DEFINE Right(f) == Halve[f].frequency = 1 <=> \E k \in 0 .. 30 : f = Powers[k]
           Bad == {f \in 1 .. INT_MAX : ~Right(f)}
<1> SUFFICES ASSUME Bad # {} PROVE FALSE
  OBVIOUS
<1>0. INT_MAX \in Nat
  BY PowersDouble
<1>1. PICK f \in Bad : \A y \in Bad : f <= y
  <2>1. Bad \in SUBSET Nat
    OBVIOUS
  <2> HIDE DEF Bad
  <2> QED BY <2>1, Smallest
<1>2. f \in Nat /\ f \in 1 .. INT_MAX /\ ~Right(f)
  OBVIOUS
<1> DEFINE e == f \div 2
<1>3. CASE f % 2 = 0 /\ f > 1
  <2>1. e \in 1 .. INT_MAX /\ ~(f <= e) /\ f = 2 * e
    BY <1>0, <1>2, <1>3, HalfSmaller
  <2>2. Right(e)
    BY <1>1, <2>1
  <2>3. Halve[f].frequency = Halve[e].frequency
    BY <1>2, <1>3, HalveRound
  <2> HIDE DEF e
  <2>4. ASSUME NEW k \in 0 .. 30, e = Powers[k] PROVE k + 1 \in 0 .. 30 /\ f = Powers[k + 1]
    <3>1. k # 30
      BY <1>0, <1>2, <2>1, <2>4, PowersDouble
    <3>2. k + 1 \in 1 .. 30 /\ (k + 1) - 1 = k
      BY <3>1
    <3>3. Powers[k + 1] = 2 * Powers[k]
      BY <3>2, PowersDouble
    <3> QED BY <2>1, <2>4, <3>2, <3>3
  <2>5. ASSUME NEW k \in 0 .. 30, f = Powers[k] PROVE k - 1 \in 0 .. 30 /\ e = Powers[k - 1]
    <3>1. k # 0
      BY <1>3, <2>5, PowersDouble
    <3>2. k \in 1 .. 30
      BY <3>1
    <3>3. k - 1 \in 0 .. 30 /\ Powers[k] = 2 * Powers[k - 1] /\ Powers[k - 1] \in Nat
      BY <3>2, PowersDouble
    <3> QED BY <2>1, <2>5, <3>3
  <2>6. (\E k \in 0 .. 30 : f = Powers[k]) <=> (\E k \in 0 .. 30 : e = Powers[k])
    BY <2>4, <2>5
  <2> QED BY <1>2, <2>2, <2>3, <2>6
<1>4. CASE ~(f % 2 = 0 /\ f > 1)
  <2>1. Halve[f].frequency = f
    BY <1>2, <1>4, HalveRound
  <2>2. ASSUME NEW k \in 0 .. 30, f = Powers[k] PROVE f = 1
    <3>1. CASE k = 0
      BY <2>2, <3>1, PowersDouble
    <3>2. CASE k # 0
      <4>1. k \in 1 .. 30
        BY <3>2
      <4>2. Powers[k] = 2 * Powers[k - 1] /\ Powers[k - 1] \in Nat /\ Powers[k - 1] >= 1
        BY <4>1, PowersDouble
      <4> QED BY <1>4, <2>2, <4>2
    <3> QED BY <3>1, <3>2
  <2>3. f = 1 => \E k \in 0 .. 30 : f = Powers[k]
    BY PowersDouble
  <2> QED BY <1>2, <2>1, <2>2, <2>3
<1> QED BY <1>3, <1>4

\* Of 2^k it is k rounds.
LEMMA RoundsOfPower ==
  ASSUME NEW q \in 0 .. 30
  PROVE  Halve[Powers[q]].power_value = q
<1> DEFINE Bad == {k \in 0 .. 30 : Halve[Powers[k]].power_value # k}
<1> SUFFICES ASSUME Bad # {} PROVE FALSE
  OBVIOUS
<1>1. PICK k \in Bad : \A y \in Bad : k <= y
  <2>1. Bad \in SUBSET Nat
    OBVIOUS
  <2> HIDE DEF Bad
  <2> QED BY <2>1, Smallest
<1>2. k \in 0 .. 30 /\ Halve[Powers[k]].power_value # k
  OBVIOUS
<1>3. CASE k = 0
  BY <1>2, <1>3, PowersDouble, HalveRound
<1>4. CASE k # 0
  <2> DEFINE e == Powers[k - 1]
             f == Powers[k]
  <2>1. k \in 1 .. 30
    BY <1>2, <1>4
  <2>2. k - 1 \in 0 .. 30 /\ f = 2 * e /\ e \in Nat /\ e >= 1
    BY <2>1, PowersDouble
  <2>3. Halve[e].power_value = k - 1
    <3>1. ~(k <= k - 1)
      BY <2>1
    <3> QED BY <1>1, <2>2, <3>1
  <2> HIDE DEF e, f
  <2>4. f \in Nat /\ f % 2 = 0 /\ f > 1 /\ f \div 2 = e
    BY <2>2
  <2>5. Halve[f].power_value = Halve[e].power_value + 1
    BY <2>4, HalveRound
  <2> QED BY <1>2, <2>1, <2>3, <2>5 DEF f
<1> QED BY <1>3, <1>4

\* What rtc_write accepts, and the rate it sets.
LEMMA AcceptsPowers ==
  ASSUME NEW f \in Frequencies
  PROVE  /\ Accepts(f) <=> \E k \in 1 .. 30 : f = 2 ^ k
         /\ Accepts(f) => \E k \in 1 .. 30 : f = Powers[k] /\ rate_of(f) = 16 - k
<1>1. f \in (-INT_MAX - 1) .. INT_MAX /\ INT_MAX \in Nat
  BY RtcAssumption, PowersDouble
<1>2. ASSUME NEW k \in 1 .. 30, f = Powers[k] PROVE Accepts(f) /\ rate_of(f) = 16 - k
  <2>1. k \in 0 .. 30 /\ f = 2 * Powers[k - 1] /\ Powers[k - 1] >= 1 /\ Powers[k - 1] \in Nat
    BY <1>2, PowersDouble
  <2>2. f > 1
    BY <2>1
  <2>3. Halve[f].power_value = k
    BY <1>2, <2>1, RoundsOfPower
  <2>4. f \in 1 .. INT_MAX
    BY <1>1, <2>2
  <2>5. Halve[f].frequency = 1
    BY <1>2, <2>1, <2>4, LeavesOne
  <2>6. Reduce(f) = Halve[f]
    BY <2>2 DEF Reduce
  <2> QED BY <2>3, <2>5, <2>6 DEF Accepts, is_power_of_two, rate_of, MAX_FREQ, MAXIMUM_RATE
<1>3. ASSUME Accepts(f) PROVE \E k \in 1 .. 30 : f = Powers[k]
  <2>1. Reduce(f).power_value > 0 /\ Reduce(f).frequency = 1
    BY <1>3 DEF Accepts, is_power_of_two
  <2>2. f > 1
    BY <1>1, <2>1 DEF Reduce
  <2>3. f \in 1 .. INT_MAX
    BY <1>1, <2>2
  <2>4. Halve[f].frequency = 1
    BY <2>1, <2>2 DEF Reduce
  <2>5. PICK k \in 0 .. 30 : f = Powers[k]
    BY <2>3, <2>4, LeavesOne
  <2>6. k # 0
    BY <2>2, <2>5, PowersDouble
  <2> QED BY <2>5, <2>6
<1>4. \A k \in 1 .. 30 : Powers[k] = 2 ^ k
  <2>1. \A k \in 1 .. 30 : k \in 0 .. 30
    OBVIOUS
  <2> QED BY <2>1, PowersDouble, Zenon
<1> QED BY <1>2, <1>3, <1>4

-----------------------------------------------------------------------------
(* What a write asks for is what the next tick programs *)

\* A frequency asked for, 2^k Hz, is held in rate as 16 - k until the next
\* request: a tick in between masks the rate and does not change it.
RequestHeld ==
  /\ rate \in Int
  /\ result \in [Procs -> {0, -1}]
  /\ request \in 2 .. MAX_FREQ => \E k \in 1 .. 10 : request = Powers[k] /\ rate = 16 - k

\* Nothing is asked for when the kernel starts.
LEMMA InitRequestHeld == Init => RequestHeld
BY DEF Init, RequestHeld, NoRequest, MAX_FREQ

\* rtc_open asks for 2 Hz, rtc_write for what it accepts, and the handler
\* keeps the rate of a frequency the chip has.
LEMMA StepRequestHeld == RequestHeld /\ [Next]_vars => RequestHeld'
<1> SUFFICES ASSUME RequestHeld, [Next]_vars PROVE RequestHeld'
  OBVIOUS
<1>1. ASSUME NEW p \in Procs, rtc_open(p) PROVE RequestHeld'
  <2>1. rate' = 16 - 1 /\ request' = Powers[1] /\ result' = result
    BY <1>1, PowerValues, SMT DEF rtc_open, MAXIMUM_RATE
  <2> QED BY <2>1 DEF RequestHeld
<1>2. ASSUME NEW p \in Procs, NEW f \in Frequencies, rtc_write(p, f) PROVE RequestHeld'
  <2>1. result' \in [Procs -> {0, -1}]
    BY <1>2 DEF rtc_write, RequestHeld
  <2>2. CASE Accepts(f)
    <3>1. PICK k \in 1 .. 30 : f = Powers[k] /\ rate_of(f) = 16 - k
      BY <2>2, AcceptsPowers
    <3>2. rate' = 16 - k /\ request' = Powers[k]
      BY <1>2, <2>2, <3>1 DEF rtc_write
    <3>3. Powers[k] <= 1024 => k \in 1 .. 10
      BY PowersDouble
    <3>4. Powers[k] \in 2 .. MAX_FREQ => k \in 1 .. 10
      BY <3>3 DEF MAX_FREQ
    <3>5. rate' \in Int
      BY <3>2
    <3> QED BY <2>1, <3>2, <3>4, <3>5 DEF RequestHeld
  <2>3. CASE ~Accepts(f)
    BY <1>2, <2>1, <2>3 DEF rtc_write, RequestHeld, NoRequest, MAX_FREQ
  <2> QED BY <2>2, <2>3
<1>3. CASE interrupt_rtc
  <2>1. rate' = rate % 16 /\ request' = request /\ result' = result
    BY <1>3 DEF interrupt_rtc, rate_bits
  <2>2. rate' \in Int
    BY <2>1 DEF RequestHeld
  <2>3. \A k \in 1 .. 10 : (16 - k) % 16 = 16 - k
    OBVIOUS
  <2> QED BY <2>1, <2>2, <2>3 DEF RequestHeld
<1>4. ASSUME NEW p \in Procs, rtc_write_size(p) PROVE RequestHeld'
  BY <1>4 DEF rtc_write_size, RequestHeld
<1>5. ASSUME NEW p \in Procs,
             InitStep(p) \/ rtc_close(p) \/ rtc_read(p) \/ read_return(p)
      PROVE  RequestHeld'
  BY <1>5 DEF InitStep, init_flag, init_select, init_read, init_reselect, init_write,
       rtc_close, rtc_read, read_return, RequestHeld
<1>6. CASE UNCHANGED vars
  BY <1>6 DEF vars, procVars, RequestHeld
<1> QED BY <1>1, <1>2, <1>3, <1>4, <1>5, <1>6 DEF Next

\* It holds of every behaviour.
THEOREM RequestInvariance == Spec => []RequestHeld
BY InitRequestHeld, StepRequestHeld, PTL DEF Spec

\* The chip's frequency at rate 16 - k.
LEMMA FrequencyOfRate ==
  ASSUME NEW k \in 1 .. 10
  PROVE  hw_frequency(16 - k) = Powers[k]
<1>1. 15 - k \in 0 .. 30 /\ (16 - k) - 1 = 15 - k /\ 16 - k > 2
  OBVIOUS
<1>2. Powers[15 - k] = 2 ^ (15 - k)
  BY <1>1, PowersDouble, Zenon
<1>3. hw_frequency(16 - k) = 32768 \div Powers[15 - k]
  BY <1>1, <1>2, SMT DEF hw_frequency
<1>4. 32768 \div Powers[15 - k] = Powers[k]
  BY PowerValues, SMT
<1> QED BY <1>3, <1>4

\* The handler programs the rate that holds the request.
LEMMA StepTick == RequestHeld /\ [Next]_vars => [TickStep]_vars
<1> SUFFICES ASSUME RequestHeld, interrupt_rtc, request \in 2 .. MAX_FREQ
             PROVE  hw_frequency(reg_a') = request
  BY DEF TickStep
<1>1. PICK k \in 1 .. 10 : request = Powers[k] /\ rate = 16 - k
  BY DEF RequestHeld
<1>2. reg_a' = (16 - k) % 16
  BY <1>1 DEF interrupt_rtc, rate_bits
<1>3. (16 - k) % 16 = 16 - k
  OBVIOUS
<1> QED BY <1>1, <1>2, <1>3, FrequencyOfRate

\* The tick after a request for a legal frequency, whichever process made it
\* and whatever the others did meanwhile, leaves the chip at that frequency.
THEOREM TickSafety == Spec => TickProgramsRequest
BY RequestInvariance, StepTick, PTL DEF Spec, TickProgramsRequest

\* The result of rtc_write tells whether the argument was a power of two.
LEMMA StepWrite == RequestHeld /\ [Next]_vars => [WriteStep]_vars
<1> SUFFICES ASSUME RequestHeld, NEW p \in Procs, NEW f \in Frequencies, rtc_write(p, f)
             PROVE  /\ f <= MAX_FREQ => (result'[p] = 0 <=> \E k \in 1 .. 10 : f = 2 ^ k)
                    /\ f > MAX_FREQ => (result'[p] = 0 => \E k \in 11 .. 30 : f = 2 ^ k)
  BY DEF WriteStep
<1>1. result'[p] = IF Accepts(f) THEN 0 ELSE -1
  BY DEF rtc_write, RequestHeld
<1>2. result'[p] = 0 <=> Accepts(f)
  BY <1>1
<1>3. \A k \in 1 .. 30 : /\ Powers[k] = 2 ^ k
                         /\ k \in 1 .. 10 <=> Powers[k] <= MAX_FREQ
                         /\ k \in 11 .. 30 <=> Powers[k] > MAX_FREQ
  <2>1. \A k \in 1 .. 30 : k \in 0 .. 30
    OBVIOUS
  <2>2. \A k \in 1 .. 30 : Powers[k] = 2 ^ k
    BY <2>1, PowersDouble, Zenon
  <2>3. \A k \in 1 .. 30 : /\ k \in 1 .. 10 <=> Powers[k] <= MAX_FREQ
                           /\ k \in 11 .. 30 <=> Powers[k] > MAX_FREQ
    BY PowerValues, SMT DEF MAX_FREQ
  <2> QED BY <2>2, <2>3
<1>4. ASSUME Accepts(f) PROVE \E k \in 1 .. 30 : f = 2 ^ k /\ f = Powers[k]
  BY <1>3, <1>4, AcceptsPowers
<1>5. ASSUME NEW k \in 1 .. 10, f = 2 ^ k PROVE Accepts(f)
  <2>1. k \in 1 .. 30
    OBVIOUS
  <2> QED BY <1>5, <2>1, AcceptsPowers, Zenon
<1>6. f <= MAX_FREQ => (Accepts(f) => \E k \in 1 .. 10 : f = 2 ^ k)
  BY <1>3, <1>4
<1>7. f > MAX_FREQ => (Accepts(f) => \E k \in 11 .. 30 : f = 2 ^ k)
  BY <1>3, <1>4
<1> QED BY <1>2, <1>5, <1>6, <1>7

\* Up to MAX_FREQ rtc_write succeeds for exactly the powers of two from 2 up,
\* and above it for nothing else, for every int32_t: what the halving loop
\* computes, by induction on its argument.
THEOREM WriteSafety == Spec => WriteArithmetic
BY RequestInvariance, StepWrite, PTL DEF Spec, WriteArithmetic
=============================================================================
