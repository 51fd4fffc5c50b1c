-------------------------- MODULE ProgramsProofs --------------------------
(***************************************************************************)
(* Proofs about Getargs and Programs: what a call of getargs answers, with *)
(* any number of processes, any commands and any size of its array, and    *)
(* what the shell learns about a command, for every sound image.           *)
(***************************************************************************)
EXTENDS Programs, FileSystemProofs

-----------------------------------------------------------------------------
(* Commands and their arguments *)

\* A command ends inside its array.
LEMMA CommandFacts ==
  ASSUME NEW s, IsCommand(s)
  PROVE  /\ s \in Seq(Nat) /\ Len(s) = USR_BUF_SIZE /\ DOMAIN s = Cells
         /\ strlen(s) \in 0 .. USR_BUF_SIZE - 1
         /\ \A j \in 1 .. strlen(s) : s[j] # 0
         /\ s[strlen(s) + 1] = 0
<1>1. /\ USR_BUF_SIZE \in Nat \ {0} /\ s \in [Cells -> Nat] /\ s[USR_BUF_SIZE] = 0
  <2>1. s \in [Cells -> Chars \cup {0}] /\ Chars \cup {0} \subseteq Nat
    BY ArgsAssumption DEF IsCommand
  <2> QED BY <2>1, ArgsAssumption DEF IsCommand
<1>2. s \in Seq(Nat) /\ Len(s) = USR_BUF_SIZE /\ DOMAIN s = Cells
  BY <1>1 DEF Cells
<1> DEFINE l == strlen(s)
<1>3. l \in 0 .. USR_BUF_SIZE /\ (\A j \in 1 .. l : s[j] # 0)
      /\ (l < USR_BUF_SIZE => s[l + 1] = 0)
  BY <1>2, StrlenFacts
<1> HIDE DEF l
<1>4. l # USR_BUF_SIZE
  <2> SUFFICES ASSUME l = USR_BUF_SIZE PROVE FALSE
    OBVIOUS
  <2>1. USR_BUF_SIZE \in 1 .. l
    BY <1>1
  <2> QED BY <1>1, <1>3, <2>1
<1>5. l \in 0 .. USR_BUF_SIZE - 1 /\ s[l + 1] = 0
  BY <1>1, <1>3, <1>4
<1> QED BY <1>2, <1>3, <1>5 DEF l

\* The argument begins inside the command or right behind it.
LEMMA ArgStartFacts ==
  ASSUME NEW s, IsCommand(s)
  PROVE  /\ ArgStart(s) \in 1 .. strlen(s) + 1
         /\ \A i \in 1 .. strlen(s) :
              s[i] = Space /\ s[i + 1] # Space => ArgStart(s) <= i + 1
         /\ \/ ArgStart(s) = strlen(s) + 1
            \/ \E i \in 1 .. strlen(s) :
                 s[i] = Space /\ s[i + 1] # Space /\ ArgStart(s) = i + 1
<1> DEFINE ends == {i \in 1 .. strlen(s) : s[i] = Space /\ s[i + 1] # Space}
           S == {i + 1 : i \in ends} \cup {strlen(s) + 1}
<1>1. strlen(s) \in Nat
  BY CommandFacts, ArgsAssumption
<1>2. S \in SUBSET Nat /\ S # {} /\ \A i \in S : i >= 1
  BY <1>1
<1>3. Min(S) \in S /\ \A i \in S : Min(S) <= i
  <2> HIDE DEF S
  <2> QED BY <1>2, MinIsLeast
<1>4. ArgStart(s) = Min(S)
  BY DEF ArgStart
<1> DEFINE m == Min(S)
<1>5. m \in Nat /\ m >= 1 /\ m <= strlen(s) + 1
  BY <1>2, <1>3
<1>6. \A i \in ends : m <= i + 1
  BY <1>3
<1>7. m = strlen(s) + 1 \/ \E i \in ends : m = i + 1
  BY <1>3
<1> HIDE DEF m
<1>8. m \in 1 .. strlen(s) + 1
  BY <1>1, <1>5
<1> QED BY <1>4, <1>6, <1>7, <1>8 DEF m

\* The reference definition starts the argument where getargs does.
LEMMA ArgumentFacts ==
  ASSUME NEW s, IsCommand(s)
  PROVE  /\ ArgumentOf(s) \in Seq(Nat)
         /\ Len(ArgumentOf(s)) = strlen(s) - ArgStart(s) + 1
         /\ \A k \in 1 .. Len(ArgumentOf(s)) : ArgumentOf(s)[k] = s[ArgStart(s) + k - 1]
<1> DEFINE l == strlen(s)
           W == {i \in DOMAIN s : s[i] \in {Space, 0}}
           word == Min(W)
           T == {i \in word .. Len(s) : s[i] # Space}
           start == Min(T)
<1>1. /\ s \in Seq(Nat) /\ Len(s) = USR_BUF_SIZE /\ DOMAIN s = 1 .. USR_BUF_SIZE
      /\ l \in Nat /\ l <= USR_BUF_SIZE - 1 /\ (\A j \in 1 .. l : s[j] # 0) /\ s[l + 1] = 0
      /\ USR_BUF_SIZE \in Nat
  BY CommandFacts, ArgsAssumption DEF Cells
<1>2. 0 # Space
  BY DEF Space
<1> HIDE DEF l
<1>3. l + 1 \in W /\ W \in SUBSET Nat
  BY <1>1
<1>4. word \in W /\ \A i \in W : word <= i
  <2> HIDE DEF W
  <2> QED BY <1>3, MinIsLeast
<1>5. word \in 1 .. l + 1 /\ s[word] \in {Space, 0}
  BY <1>1, <1>3, <1>4
<1>6. \A i \in 1 .. l : s[i] = Space => word <= i
  BY <1>1, <1>4
<1> HIDE DEF word
<1>7. l + 1 \in T /\ T \in SUBSET Nat
  BY <1>1, <1>2, <1>5
<1>8. start \in T /\ \A i \in T : start <= i
  <2> HIDE DEF T
  <2> QED BY <1>7, MinIsLeast
<1>9. start \in word .. l + 1 /\ s[start] # Space
  BY <1>1, <1>5, <1>7, <1>8
<1>10. \A i \in word .. l + 1 : s[i] # Space => start <= i
  BY <1>1, <1>5, <1>8
<1>11. ArgumentOf(s) = SubSeq(s, start, l)
  BY DEF ArgumentOf, l, word
<1> HIDE DEF start
<1>12. start = ArgStart(s)
  <2> DEFINE A == ArgStart(s)
  <2>1. /\ A \in 1 .. l + 1
        /\ \A i \in 1 .. l : s[i] = Space /\ s[i + 1] # Space => A <= i + 1
        /\ A = l + 1 \/ \E i \in 1 .. l : s[i] = Space /\ s[i + 1] # Space /\ A = i + 1
    BY ArgStartFacts DEF l
  <2> HIDE DEF A
  <2>2. A <= start
    <3>1. CASE start = l + 1
      BY <1>1, <2>1, <3>1
    <3>2. CASE start # l + 1
      <4>1. start \in 1 .. l /\ s[start] # 0
        BY <1>1, <1>5, <1>9, <3>2
      <4>2. start # word
        BY <1>5, <1>9, <4>1
      <4>3. start - 1 \in word .. l + 1 /\ start - 1 \in 1 .. l /\ ~(start <= start - 1)
            /\ (start - 1) + 1 = start
        BY <1>1, <1>5, <1>9, <4>1, <4>2
      <4>4. s[start - 1] = Space
        BY <1>10, <4>3
      <4> QED BY <1>9, <2>1, <4>3, <4>4
    <3> QED BY <3>1, <3>2
  <2>3. start <= A
    <3>1. CASE A = l + 1
      BY <1>1, <1>5, <1>9, <3>1
    <3>2. ASSUME NEW i \in 1 .. l, s[i] = Space, s[i + 1] # Space, A = i + 1
          PROVE  start <= A
      <4>1. i + 1 \in word .. l + 1
        BY <1>1, <1>5, <1>6, <3>2
      <4> QED BY <1>10, <3>2, <4>1
    <3> QED BY <2>1, <3>1, <3>2
  <2>4. A \in Nat /\ start \in Nat
    BY <1>1, <1>5, <1>9, <2>1
  <2> QED BY <2>2, <2>3, <2>4 DEF A
<1>13. start \in 1 .. l + 1
  BY <1>1, <1>5, <1>9
<1>14. /\ SubSeq(s, start, l) \in Seq(Nat)
       /\ Len(SubSeq(s, start, l)) = l - start + 1
       /\ \A k \in 1 .. l - start + 1 : SubSeq(s, start, l)[k] = s[start + k - 1]
  BY <1>1, <1>13, SubSeqProperties
<1> QED BY <1>11, <1>12, <1>14 DEF l

-----------------------------------------------------------------------------
(* getargs *)

Places == InCall \cup {"user", "done"}

ArgsTypes ==
  /\ user_buf = [p \in Procs |-> user_buf[p]]
  /\ \A p \in Procs : IsCommand(user_buf[p])
  /\ arg_retrieved \in [Cells -> Nat]
  /\ args_pc \in [Procs -> Places]
  /\ args_i \in [Procs -> Nat \ {0}]
  /\ args_j \in [Procs -> Nat \ {0}]
  /\ args_nbytes \in [Procs -> 0 .. USR_BUF_SIZE]
  /\ args_buf \in [Procs -> [Cells -> Nat]]
  /\ args_ret \in [Procs -> {0, -1}]
  /\ disturbed \in [Procs -> BOOLEAN]

\* The copying loop stays inside the command, disturbed or not.
InCopy(p) ==
  args_pc[p] = "copy" =>
    /\ args_i[p] = ArgStart(user_buf[p]) + args_j[p] - 1
    /\ args_i[p] <= strlen(user_buf[p]) + 1

\* The last cell of the global array is 0 whatever calls are under way, so a
\* strncpy over the full size has not passed it, and has written a 0 when it
\* ends.
LastCell == arg_retrieved[USR_BUF_SIZE] = 0

InStrncpy(p) ==
  args_pc[p] = "strncpy" /\ args_nbytes[p] = USR_BUF_SIZE => args_i[p] <= USR_BUF_SIZE

LastCopied(p) ==
  args_pc[p] = "done" /\ args_ret[p] = 0 /\ args_nbytes[p] = USR_BUF_SIZE
    => args_buf[p][USR_BUF_SIZE] = 0

\* Cell k of the answer to a call with command s, before it is cut off.
ArgCell(s, k) ==
  IF ArgStart(s) + k - 1 <= strlen(s) THEN s[ArgStart(s) + k - 1] ELSE 0

\* How far the loops of a call have come if nobody has disturbed it.
Cleared(p) ==
  args_pc[p] = "clear" => \A k \in Cells : k < args_i[p] => arg_retrieved[k] = 0

Copying(p) ==
  args_pc[p] = "copy" =>
    /\ args_nbytes[p] # 0
    /\ \A k \in Cells :
         arg_retrieved[k] = IF k < args_j[p] THEN ArgCell(user_buf[p], k) ELSE 0

Checking(p) ==
  args_pc[p] \in {"check", "strncpy"} =>
    /\ args_nbytes[p] # 0
    /\ \A k \in Cells : arg_retrieved[k] = ArgCell(user_buf[p], k)

Strncpying(p) ==
  args_pc[p] = "strncpy" =>
    /\ ArgCell(user_buf[p], 1) # 0
    /\ \A k \in Cells : k < args_i[p] => args_buf[p][k] = ArgCell(user_buf[p], k)

Answered(p) ==
  args_pc[p] = "done" =>
    IF args_nbytes[p] = 0 \/ ArgCell(user_buf[p], 1) = 0
      THEN args_ret[p] = -1
      ELSE /\ args_ret[p] = 0
           /\ \A k \in 1 .. args_nbytes[p] : args_buf[p][k] = ArgCell(user_buf[p], k)

Undisturbed(p) ==
  ~disturbed[p] =>
    Cleared(p) /\ Copying(p) /\ Checking(p) /\ Strncpying(p) /\ Answered(p)

CallGood(p) == InCopy(p) /\ InStrncpy(p) /\ LastCopied(p) /\ Undisturbed(p)

ArgsInv == ArgsTypes /\ LastCell /\ \A p \in Procs : CallGood(p)

\* A step of process p in or around getargs.
ArgsStep(p) ==
  (\E nbytes \in 0 .. USR_BUF_SIZE : getargs(p, nbytes)) \/ GetargsStep(p) \/ Used(p)

\* Nothing has been asked for and the array is empty.
LEMMA ArgsStart ==
  ASSUME user_buf = [p \in Procs |-> user_buf[p]], \A p \in Procs : IsCommand(user_buf[p]),
         arg_retrieved = [k \in Cells |-> 0], args_pc = [p \in Procs |-> "user"],
         args_i = [p \in Procs |-> 1], args_j = [p \in Procs |-> 1],
         args_nbytes = [p \in Procs |-> 0],
         args_buf = [p \in Procs |-> [k \in Cells |-> Garbage]],
         args_ret = [p \in Procs |-> 0], disturbed = [p \in Procs |-> FALSE]
  PROVE  ArgsInv
<1>1. USR_BUF_SIZE \in Cells /\ 0 \in 0 .. USR_BUF_SIZE
  BY ArgsAssumption DEF Cells
<1>2. args_buf \in [Procs -> [Cells -> Nat]] /\ arg_retrieved \in [Cells -> Nat]
  BY DEF Garbage
<1>3. disturbed \in [Procs -> BOOLEAN]
  BY Zenon
<1>4. ArgsTypes
  BY <1>1, <1>2, <1>3 DEF ArgsTypes, Places
<1>5. \A p \in Procs : CallGood(p)
  BY DEF CallGood, InCopy, InStrncpy, LastCopied, Undisturbed, Cleared, Copying,
         Checking, Strncpying, Answered
<1> QED BY <1>1, <1>4, <1>5 DEF ArgsInv, LastCell

\* One process takes a step: the others keep their places and what is theirs.
LEMMA Apart ==
  ASSUME ArgsTypes, NEW p \in Procs, ArgsStep(p), NEW q \in Procs, q # p
  PROVE  /\ args_pc'[q] = args_pc[q] /\ args_i'[q] = args_i[q] /\ args_j'[q] = args_j[q]
         /\ args_nbytes'[q] = args_nbytes[q] /\ args_buf'[q] = args_buf[q]
         /\ args_ret'[q] = args_ret[q] /\ user_buf' = user_buf
BY DEF ArgsTypes, ArgsStep, getargs, GetargsStep, ClearCell, FindArg, CopyCell, Copied,
       CheckEmpty, StrncpyCell, StrncpyEnd, Used, Goto, Return, localVars

\* A store to the global array disturbs every other call in progress.
LEMMA Disturbs ==
  ASSUME ArgsTypes, NEW p \in Procs, ArgsStep(p), NEW q \in Procs, q # p, ~disturbed'[q]
  PROVE  /\ ~disturbed[q]
         /\ arg_retrieved' = arg_retrieved \/ args_pc[q] \notin InCall
<1>1. CASE ClearCell(p) \/ CopyCell(p)
  <2>1. disturbed'[q] = (disturbed[q] \/ (q # p /\ args_pc[q] \in InCall))
    BY <1>1 DEF ClearCell, CopyCell, Store
  <2> QED BY <2>1
<1>2. CASE \E nbytes \in 0 .. USR_BUF_SIZE : getargs(p, nbytes)
  BY <1>2 DEF getargs, ArgsTypes
<1>3. CASE Used(p)
  BY <1>3 DEF Used, ArgsTypes
<1>4. CASE FindArg(p) \/ Copied(p) \/ CheckEmpty(p) \/ StrncpyCell(p) \/ StrncpyEnd(p)
  BY <1>4 DEF FindArg, Copied, CheckEmpty, StrncpyCell, StrncpyEnd
<1> QED BY <1>1, <1>2, <1>3, <1>4 DEF ArgsStep, GetargsStep

\* The other calls stay good.
LEMMA OthersGood ==
  ASSUME ArgsTypes, NEW p \in Procs, ArgsStep(p), NEW q \in Procs, q # p, CallGood(q)
  PROVE  CallGood(q)'
<1>1. /\ args_pc'[q] = args_pc[q] /\ args_i'[q] = args_i[q] /\ args_j'[q] = args_j[q]
      /\ args_nbytes'[q] = args_nbytes[q] /\ args_buf'[q] = args_buf[q]
      /\ args_ret'[q] = args_ret[q] /\ user_buf' = user_buf
  BY Apart
<1>2. (InCopy(q) /\ InStrncpy(q) /\ LastCopied(q))'
  BY <1>1 DEF CallGood, InCopy, InStrncpy, LastCopied
<1>3. Undisturbed(q)'
  <2> SUFFICES ASSUME ~disturbed'[q]
               PROVE  (Cleared(q) /\ Copying(q) /\ Checking(q) /\ Strncpying(q) /\ Answered(q))'
    BY DEF Undisturbed
  <2>1. ~disturbed[q] /\ (arg_retrieved' = arg_retrieved \/ args_pc[q] \notin InCall)
    BY Disturbs
  <2>2. Cleared(q) /\ Copying(q) /\ Checking(q) /\ Strncpying(q) /\ Answered(q)
    BY <2>1 DEF CallGood, Undisturbed
  <2>3. CASE arg_retrieved' = arg_retrieved
    BY <1>1, <2>2, <2>3 DEF Cleared, Copying, Checking, Strncpying, Answered
  <2>4. CASE args_pc[q] \notin InCall
    BY <1>1, <2>2, <2>4 DEF Cleared, Copying, Checking, Strncpying, Answered, InCall
  <2> QED BY <2>1, <2>3, <2>4
<1> QED BY <1>2, <1>3 DEF CallGood

\* Types are kept by every step.
LEMMA TypesKept ==
  ASSUME ArgsTypes, NEW p \in Procs, ArgsStep(p), InCopy(p)
  PROVE  ArgsTypes'
<1>1. user_buf' = user_buf
  BY DEF ArgsStep, getargs, GetargsStep, ClearCell, FindArg, CopyCell, Copied,
         CheckEmpty, StrncpyCell, StrncpyEnd, Used
<1>2. arg_retrieved' \in [Cells -> Nat]
  <2>1. CASE ClearCell(p)
    BY <2>1 DEF ArgsTypes, ClearCell, Store
  <2>2. CASE CopyCell(p)
    <3> DEFINE s == user_buf[p]
               i == args_i[p]
    <3>1. s \in Seq(Nat) /\ Len(s) = USR_BUF_SIZE /\ strlen(s) \in 0 .. USR_BUF_SIZE - 1
      BY CommandFacts DEF ArgsTypes
    <3>2. i \in Nat \ {0} /\ i <= strlen(s) + 1 /\ USR_BUF_SIZE \in Nat
      BY <2>2, ArgsAssumption DEF CopyCell, Goto, InCopy, ArgsTypes
    <3> HIDE DEF s, i
    <3>3. s[i] \in Nat
      BY <3>1, <3>2
    <3>4. arg_retrieved' = [arg_retrieved EXCEPT ![args_j[p]] = s[i]]
      BY <2>2 DEF CopyCell, Store, s, i
    <3> QED BY <3>3, <3>4 DEF ArgsTypes
  <2>3. CASE UNCHANGED arg_retrieved
    BY <2>3 DEF ArgsTypes
  <2> QED BY <2>1, <2>2, <2>3 DEF ArgsStep, getargs, GetargsStep, FindArg, Copied,
             CheckEmpty, StrncpyCell, StrncpyEnd, Used
<1>3. args_pc' \in [Procs -> Places]
  BY DEF ArgsTypes, ArgsStep, getargs, GetargsStep, ClearCell, FindArg, CopyCell, Copied,
         CheckEmpty, StrncpyCell, StrncpyEnd, Used, Goto, Return, Places, InCall
<1>4. args_i' \in [Procs -> Nat \ {0}] /\ args_j' \in [Procs -> Nat \ {0}]
  <2>1. ArgStart(user_buf[p]) \in Nat \ {0}
    <3>1. strlen(user_buf[p]) \in 0 .. USR_BUF_SIZE - 1
      BY CommandFacts DEF ArgsTypes
    <3>2. ArgStart(user_buf[p]) \in 1 .. strlen(user_buf[p]) + 1
      BY ArgStartFacts DEF ArgsTypes
    <3> QED BY <3>1, <3>2, ArgsAssumption
  <2>2. CASE (\E nbytes \in 0 .. USR_BUF_SIZE : getargs(p, nbytes)) \/ Used(p)
    <3>1. 1 \in Nat \ {0}
      OBVIOUS
    <3>2. args_i' = [args_i EXCEPT ![p] = 1]
      BY <2>2 DEF getargs, Used
    <3>3. args_j' = args_j \/ args_j' = [args_j EXCEPT ![p] = 1]
      BY <2>2 DEF getargs, Used
    <3> QED BY <3>1, <3>2, <3>3 DEF ArgsTypes
  <2>3. CASE FindArg(p) \/ CheckEmpty(p)
    BY <2>1, <2>3 DEF ArgsTypes, FindArg, CheckEmpty
  <2>4. CASE ClearCell(p) \/ CopyCell(p) \/ StrncpyCell(p)
    <3>1. args_i[p] + 1 \in Nat \ {0} /\ args_j[p] + 1 \in Nat \ {0}
      BY DEF ArgsTypes
    <3>2. args_i' = [args_i EXCEPT ![p] = args_i[p] + 1]
      BY <2>4 DEF ClearCell, CopyCell, StrncpyCell
    <3>3. args_j' = args_j \/ args_j' = [args_j EXCEPT ![p] = args_j[p] + 1]
      BY <2>4 DEF ClearCell, CopyCell, StrncpyCell
    <3> QED BY <3>1, <3>2, <3>3 DEF ArgsTypes
  <2>5. CASE Copied(p) \/ StrncpyEnd(p)
    BY <2>5 DEF ArgsTypes, Copied, StrncpyEnd, localVars
  <2> QED BY <2>2, <2>3, <2>4, <2>5 DEF ArgsStep, GetargsStep
<1>5. args_nbytes' \in [Procs -> 0 .. USR_BUF_SIZE]
  <2>1. CASE \E nbytes \in 0 .. USR_BUF_SIZE : getargs(p, nbytes)
    BY <2>1 DEF ArgsTypes, getargs
  <2>2. CASE Used(p)
    <3>1. 0 \in 0 .. USR_BUF_SIZE
      BY ArgsAssumption
    <3> QED BY <2>2, <3>1 DEF ArgsTypes, Used
  <2>3. CASE UNCHANGED args_nbytes
    BY <2>3 DEF ArgsTypes
  <2> QED BY <2>1, <2>2, <2>3 DEF ArgsStep, GetargsStep, ClearCell, FindArg, CopyCell, Copied,
             CheckEmpty, StrncpyCell, StrncpyEnd, localVars
<1>6. args_buf' \in [Procs -> [Cells -> Nat]]
  <2>1. CASE (\E nbytes \in 0 .. USR_BUF_SIZE : getargs(p, nbytes)) \/ Used(p)
    <3>1. [k \in Cells |-> Garbage] \in [Cells -> Nat]
      BY DEF Garbage
    <3> QED BY <2>1, <3>1 DEF ArgsTypes, getargs, Used
  <2>2. CASE StrncpyCell(p)
    <3>1. args_i[p] \in Cells
      BY <2>2, ArgsAssumption DEF StrncpyCell, ArgsTypes, Cells
    <3>2. arg_retrieved[args_i[p]] \in Nat
      BY <3>1 DEF ArgsTypes
    <3> QED BY <2>2, <3>2 DEF StrncpyCell, ArgsTypes
  <2>3. CASE StrncpyEnd(p)
    <3>1. Padded(p) \in [Cells -> Nat]
      BY DEF Padded, ArgsTypes
    <3> QED BY <2>3, <3>1 DEF StrncpyEnd, ArgsTypes
  <2>4. CASE UNCHANGED args_buf
    BY <2>4 DEF ArgsTypes
  <2> QED BY <2>1, <2>2, <2>3, <2>4 DEF ArgsStep, GetargsStep, ClearCell, FindArg, CopyCell,
             Copied, CheckEmpty, localVars
<1>7. args_ret' \in [Procs -> {0, -1}]
  BY DEF ArgsTypes, ArgsStep, getargs, GetargsStep, ClearCell, FindArg, CopyCell, Copied,
         CheckEmpty, StrncpyCell, StrncpyEnd, Used, Return, localVars
<1>8. disturbed' \in [Procs -> BOOLEAN]
  <2>1. disturbed \in [Procs -> BOOLEAN]
    BY DEF ArgsTypes
  <2>2. CASE ClearCell(p) \/ CopyCell(p)
    <3>1. disturbed' = [q \in Procs |-> disturbed[q] \/ (q # p /\ args_pc[q] \in InCall)]
      BY <2>2 DEF ClearCell, CopyCell, Store
    <3> QED BY <3>1, Zenon
  <2>3. CASE (\E nbytes \in 0 .. USR_BUF_SIZE : getargs(p, nbytes)) \/ Used(p)
    <3>1. disturbed' = [disturbed EXCEPT ![p] = FALSE]
      BY <2>3 DEF getargs, Used
    <3> QED BY <2>1, <3>1, Zenon
  <2>4. CASE UNCHANGED disturbed
    BY <2>1, <2>4
  <2> QED BY <2>2, <2>3, <2>4 DEF ArgsStep, GetargsStep, FindArg, Copied, CheckEmpty,
             StrncpyCell, StrncpyEnd
<1> QED BY <1>1, <1>2, <1>3, <1>4, <1>5, <1>6, <1>7, <1>8 DEF ArgsTypes

\* The last cell stays 0: the clearing loop stores 0, and the copying loop
\* stops before it, as j does not pass the length of the command.
LEMMA LastCellKept ==
  ASSUME ArgsTypes, LastCell, NEW p \in Procs, ArgsStep(p)
  PROVE  LastCell'
<1>1. USR_BUF_SIZE \in Cells /\ USR_BUF_SIZE \in Nat
  BY ArgsAssumption DEF Cells
<1>2. CASE ClearCell(p)
  BY <1>1, <1>2 DEF ClearCell, Store, ArgsTypes, LastCell
<1>3. CASE CopyCell(p)
  <2>1. args_j[p] <= strlen(user_buf[p]) /\ args_j[p] \in Nat
    BY <1>3 DEF CopyCell, MoreToCopy, ArgsTypes
  <2>2. strlen(user_buf[p]) \in 0 .. USR_BUF_SIZE - 1
    BY CommandFacts DEF ArgsTypes
  <2>3. args_j[p] # USR_BUF_SIZE
    BY <1>1, <2>1, <2>2
  <2> QED BY <1>1, <1>3, <2>3 DEF CopyCell, Store, ArgsTypes, LastCell
<1>4. CASE arg_retrieved' = arg_retrieved
  BY <1>4 DEF LastCell
<1> QED BY <1>2, <1>3, <1>4 DEF ArgsStep, getargs, GetargsStep, FindArg, Copied, CheckEmpty,
          StrncpyCell, StrncpyEnd, Used

\* Behind the argument there are only zeros, in it there are none.
LEMMA ArgCellFacts ==
  ASSUME NEW s, IsCommand(s), NEW k \in Nat \ {0}
  PROVE  /\ ArgCell(s, k) \in Nat
         /\ ArgCell(s, k) = 0 <=> ArgStart(s) + k - 1 > strlen(s)
<1> DEFINE l == strlen(s)
           A == ArgStart(s)
<1>1. /\ s \in Seq(Nat) /\ Len(s) = USR_BUF_SIZE /\ l \in 0 .. USR_BUF_SIZE - 1
      /\ (\A j \in 1 .. l : s[j] # 0) /\ USR_BUF_SIZE \in Nat
  BY CommandFacts, ArgsAssumption
<1>2. A \in 1 .. l + 1
  BY ArgStartFacts
<1>3. ArgCell(s, k) = IF A + k - 1 <= l THEN s[A + k - 1] ELSE 0
  BY DEF ArgCell
<1> HIDE DEF A, l
<1>4. CASE A + k - 1 <= l
  <2>1. A + k - 1 \in 1 .. l /\ A + k - 1 \in 1 .. Len(s) /\ ~(A + k - 1 > l)
    BY <1>1, <1>2, <1>4
  <2>2. s[A + k - 1] # 0 /\ s[A + k - 1] \in Nat
    <3> DEFINE i == A + k - 1
    <3>1. i \in 1 .. l /\ i \in 1 .. Len(s)
      BY <2>1
    <3> HIDE DEF i
    <3>2. s[i] # 0 /\ s[i] \in Nat
      BY <1>1, <3>1
    <3> QED BY <3>2 DEF i
  <2> QED BY <1>3, <1>4, <2>1, <2>2 DEF A, l
<1>5. CASE ~(A + k - 1 <= l)
  <2>1. A + k - 1 > l
    BY <1>1, <1>2, <1>5
  <2> QED BY <1>3, <1>5, <2>1 DEF A, l
<1> QED BY <1>4, <1>5

\* The loop that clears the array.
LEMMA ClearGood ==
  ASSUME ArgsInv, NEW p \in Procs, ClearCell(p)
  PROVE  CallGood(p)'
<1> DEFINE i == args_i[p]
<1>1. /\ args_pc[p] = "clear" /\ args_pc'[p] = "clear" /\ args_i'[p] = i + 1
      /\ i <= USR_BUF_SIZE /\ i \in Nat \ {0}
      /\ arg_retrieved' = [arg_retrieved EXCEPT ![i] = 0]
  BY DEF ClearCell, Goto, Store, ArgsInv, ArgsTypes
<1>2. disturbed'[p] = disturbed[p]
  BY DEF ClearCell, Store, ArgsInv, ArgsTypes
<1>3. Cleared(p) => Cleared(p)'
  <2> SUFFICES ASSUME Cleared(p), NEW k \in Cells, k < i + 1
               PROVE  arg_retrieved'[k] = 0
    BY <1>1 DEF Cleared
  <2>1. arg_retrieved \in [Cells -> Nat]
    BY DEF ArgsInv, ArgsTypes
  <2>2. k < i => arg_retrieved[k] = 0
    BY <1>1 DEF Cleared
  <2> HIDE DEF i
  <2>3. k = i \/ k < i
    BY <1>1 DEF Cells
  <2> QED BY <1>1, <2>1, <2>2, <2>3
<1>4. ~disturbed[p] => Cleared(p)
  BY DEF ArgsInv, CallGood, Undisturbed
<1> HIDE DEF i
<1> QED BY <1>1, <1>2, <1>3, <1>4 DEF CallGood, InCopy, InStrncpy, LastCopied, Undisturbed,
           Copying, Checking, Strncpying, Answered

\* The array is clear and the argument is located.
LEMMA FindGood ==
  ASSUME ArgsInv, NEW p \in Procs, FindArg(p)
  PROVE  CallGood(p)'
<1> DEFINE s == user_buf[p]
<1>1. /\ args_pc[p] = "clear" /\ args_i[p] > USR_BUF_SIZE /\ args_i[p] \in Nat
      /\ user_buf' = user_buf /\ arg_retrieved' = arg_retrieved
      /\ args_nbytes' = args_nbytes /\ disturbed' = disturbed
  BY DEF FindArg, Goto, Return, ArgsInv, ArgsTypes
<1>2. ~disturbed[p] => \A k \in Cells : arg_retrieved[k] = 0
  <2>1. ~disturbed[p] => Cleared(p)
    BY DEF ArgsInv, CallGood, Undisturbed
  <2>2. \A k \in Cells : k < args_i[p]
    BY <1>1, ArgsAssumption DEF Cells
  <2> QED BY <1>1, <2>1, <2>2 DEF Cleared
<1>3. CASE args_nbytes[p] = 0
  <2>1. args_pc'[p] = "done" /\ args_ret'[p] = -1
    BY <1>3 DEF FindArg, Return, Goto, ArgsInv, ArgsTypes
  <2> QED BY <1>1, <1>3, <2>1 DEF CallGood, InCopy, InStrncpy, LastCopied, Undisturbed,
             Cleared, Copying, Checking, Strncpying, Answered
<1>4. CASE args_nbytes[p] # 0
  <2>1. args_pc'[p] = "copy" /\ args_i'[p] = ArgStart(s) /\ args_j'[p] = 1
    BY <1>4 DEF FindArg, Goto, ArgsInv, ArgsTypes
  <2>2. ArgStart(s) \in 1 .. strlen(s) + 1 /\ strlen(s) \in 0 .. USR_BUF_SIZE - 1
    BY ArgStartFacts, CommandFacts DEF ArgsInv, ArgsTypes
  <2>3. InCopy(p)'
    <3>1. ArgStart(s) = ArgStart(s) + 1 - 1 /\ ArgStart(s) <= strlen(s) + 1
      BY <2>2, ArgsAssumption
    <3> QED BY <1>1, <2>1, <3>1 DEF InCopy
  <2>4. ~disturbed[p] => Copying(p)'
    <3>1. \A k \in Cells : ~(k < 1)
      BY ArgsAssumption DEF Cells
    <3> QED BY <1>1, <1>2, <1>4, <2>1, <3>1 DEF Copying
  <2> HIDE DEF s
  <2> QED BY <1>1, <2>1, <2>3, <2>4 DEF CallGood, InStrncpy, LastCopied, Undisturbed,
             Cleared, Checking, Strncpying, Answered
<1> QED BY <1>3, <1>4

\* The loop that copies the argument.
LEMMA CopyGood ==
  ASSUME ArgsInv, NEW p \in Procs, CopyCell(p)
  PROVE  CallGood(p)'
<1> DEFINE s == user_buf[p]
           i == args_i[p]
           j == args_j[p]
           A == ArgStart(s)
           l == strlen(s)
<1>1. /\ args_pc[p] = "copy" /\ args_pc'[p] = "copy"
      /\ args_i'[p] = i + 1 /\ args_j'[p] = j + 1
      /\ arg_retrieved' = [arg_retrieved EXCEPT ![j] = s[i]]
      /\ user_buf' = user_buf /\ args_nbytes' = args_nbytes
      /\ s[i] # 0 /\ j <= l
  BY DEF CopyCell, Goto, Store, MoreToCopy, ArgsInv, ArgsTypes
<1>2. disturbed'[p] = disturbed[p]
  BY DEF CopyCell, Store, ArgsInv, ArgsTypes
<1>3. i \in Nat /\ j \in Nat \ {0} /\ i = A + j - 1 /\ i <= l + 1
  BY <1>1 DEF ArgsInv, ArgsTypes, CallGood, InCopy
<1>4. l \in 0 .. USR_BUF_SIZE - 1 /\ s[l + 1] = 0 /\ A \in 1 .. l + 1 /\ USR_BUF_SIZE \in Nat
  BY CommandFacts, ArgStartFacts, ArgsAssumption DEF ArgsInv, ArgsTypes
<1>5. ~disturbed[p] => Copying(p)
  BY DEF ArgsInv, CallGood, Undisturbed
<1>6. arg_retrieved \in [Cells -> Nat]
  BY DEF ArgsInv, ArgsTypes
<1>7. ArgCell(s, j) = IF A + j - 1 <= l THEN s[A + j - 1] ELSE 0
  BY DEF ArgCell
<1>8. Copying(p) /\ args_pc[p] = "copy" =>
        /\ args_nbytes[p] # 0
        /\ \A k \in Cells : arg_retrieved[k] = IF k < j THEN ArgCell(s, k) ELSE 0
  BY DEF Copying
<1>9. InCopy(p)' <=> i + 1 = A + (j + 1) - 1 /\ i + 1 <= l + 1
  BY <1>1 DEF InCopy
<1>10. Copying(p)' <=>
         /\ args_nbytes[p] # 0
         /\ \A k \in Cells : arg_retrieved'[k] = IF k < j + 1 THEN ArgCell(s, k) ELSE 0
  BY <1>1 DEF Copying
<1> HIDE DEF i, j, A, l, s
<1>11. i # l + 1
  BY <1>1, <1>4
<1>12. i <= l
  BY <1>3, <1>4, <1>11
<1>13. InCopy(p)'
  <2>1. i + 1 = A + (j + 1) - 1 /\ i + 1 <= l + 1
    BY <1>3, <1>4, <1>12
  <2> QED BY <1>9, <2>1
<1>14. ~disturbed[p] => Copying(p)'
  <2> SUFFICES ASSUME ~disturbed[p], NEW k \in Cells
               PROVE  arg_retrieved'[k] = IF k < j + 1 THEN ArgCell(s, k) ELSE 0
    BY <1>1, <1>5, <1>8, <1>10
  <2>1. arg_retrieved[k] = IF k < j THEN ArgCell(s, k) ELSE 0
    BY <1>1, <1>5, <1>8
  <2>2. ArgCell(s, j) = s[i]
    BY <1>3, <1>7, <1>12
  <2>3. k \in Nat
    BY ArgsAssumption DEF Cells
  <2>4. CASE k = j
    BY <1>1, <1>3, <1>6, <2>2, <2>4
  <2>5. CASE k # j
    <3>1. k < j <=> k < j + 1
      BY <1>3, <2>3, <2>5
    <3> QED BY <1>1, <1>6, <2>1, <2>5, <3>1
  <2> QED BY <2>4, <2>5
<1> QED BY <1>1, <1>2, <1>13, <1>14 DEF CallGood, InStrncpy, LastCopied, Undisturbed,
           Cleared, Checking, Strncpying, Answered

\* The whole argument has been copied.
LEMMA CopiedGood ==
  ASSUME ArgsInv, NEW p \in Procs, Copied(p)
  PROVE  CallGood(p)'
<1> DEFINE s == user_buf[p]
           i == args_i[p]
           j == args_j[p]
           A == ArgStart(s)
           l == strlen(s)
<1>1. /\ args_pc[p] = "copy" /\ args_pc'[p] = "check"
      /\ arg_retrieved' = arg_retrieved /\ user_buf' = user_buf
      /\ args_nbytes' = args_nbytes /\ disturbed' = disturbed
      /\ ~(j <= l /\ s[i] # 0)
  BY DEF Copied, Goto, MoreToCopy, localVars, ArgsInv, ArgsTypes
<1>2. i \in Nat /\ j \in Nat \ {0} /\ i = A + j - 1 /\ i <= l + 1
  BY <1>1 DEF ArgsInv, ArgsTypes, CallGood, InCopy
<1>3. /\ l \in 0 .. USR_BUF_SIZE - 1 /\ A \in 1 .. l + 1 /\ USR_BUF_SIZE \in Nat
      /\ \A k \in 1 .. l : s[k] # 0
  BY CommandFacts, ArgStartFacts, ArgsAssumption DEF ArgsInv, ArgsTypes
<1>4. ~disturbed[p] =>
        /\ args_nbytes[p] # 0
        /\ \A k \in Cells : arg_retrieved[k] = IF k < j THEN ArgCell(s, k) ELSE 0
  BY <1>1 DEF ArgsInv, CallGood, Undisturbed, Copying
<1>5. \A k \in Cells : ArgCell(s, k) = IF A + k - 1 <= l THEN s[A + k - 1] ELSE 0
  BY DEF ArgCell
<1>6. Checking(p)' <=> /\ args_nbytes[p] # 0
                       /\ \A k \in Cells : arg_retrieved[k] = ArgCell(s, k)
  BY <1>1 DEF Checking
<1> HIDE DEF i, j, A, l, s
<1>7. i > l
  <2> SUFFICES ASSUME i <= l PROVE FALSE
    BY <1>2, <1>3
  <2>1. i \in 1 .. l /\ j <= l
    BY <1>2, <1>3
  <2> QED BY <1>1, <1>3, <2>1
<1>8. ~disturbed[p] => Checking(p)'
  <2> SUFFICES ASSUME ~disturbed[p], NEW k \in Cells
               PROVE  arg_retrieved[k] = ArgCell(s, k)
    BY <1>4, <1>6
  <2>1. arg_retrieved[k] = IF k < j THEN ArgCell(s, k) ELSE 0
    BY <1>4
  <2>2. CASE ~(k < j)
    <3>1. ~(A + k - 1 <= l)
      BY <1>2, <1>3, <1>7, <2>2 DEF Cells
    <3> QED BY <1>5, <2>1, <2>2, <3>1
  <2> QED BY <2>1, <2>2
<1> QED BY <1>1, <1>8 DEF CallGood, InCopy, InStrncpy, LastCopied, Undisturbed,
           Cleared, Copying, Strncpying, Answered

\* No argument, or it is copied to the caller.
LEMMA CheckGood ==
  ASSUME ArgsInv, NEW p \in Procs, CheckEmpty(p)
  PROVE  CallGood(p)'
<1> DEFINE s == user_buf[p]
<1>1. /\ args_pc[p] = "check" /\ arg_retrieved' = arg_retrieved /\ user_buf' = user_buf
      /\ args_nbytes' = args_nbytes /\ disturbed' = disturbed
  BY DEF CheckEmpty, Goto, Return
<1>2. 1 \in Cells /\ args_nbytes[p] \in 0 .. USR_BUF_SIZE /\ USR_BUF_SIZE \in Nat \ {0}
  BY ArgsAssumption DEF Cells, ArgsInv, ArgsTypes
<1>3. ~disturbed[p] =>
        args_nbytes[p] # 0 /\ \A k \in Cells : arg_retrieved[k] = ArgCell(s, k)
  BY <1>1 DEF ArgsInv, CallGood, Undisturbed, Checking
<1>4. CASE arg_retrieved[1] = 0
  <2>1. args_pc'[p] = "done" /\ args_ret'[p] = -1
    BY <1>4 DEF CheckEmpty, Return, Goto, ArgsInv, ArgsTypes
  <2>2. ~disturbed[p] => ArgCell(s, 1) = 0
    BY <1>2, <1>3, <1>4
  <2> QED BY <1>1, <2>1, <2>2 DEF CallGood, InCopy, InStrncpy, LastCopied, Undisturbed,
             Cleared, Copying, Checking, Strncpying, Answered
<1>5. CASE arg_retrieved[1] # 0
  <2>1. args_pc'[p] = "strncpy" /\ args_i'[p] = 1
    BY <1>5 DEF CheckEmpty, Goto, ArgsInv, ArgsTypes
  <2>2. ~disturbed[p] => ArgCell(s, 1) # 0
    BY <1>2, <1>3, <1>5
  <2>3. \A k \in Cells : ~(k < 1)
    BY ArgsAssumption DEF Cells
  <2>4. InStrncpy(p)'
    BY <1>2, <2>1 DEF InStrncpy
  <2>5. ~disturbed[p] => (Checking(p) /\ Strncpying(p))'
    <3> SUFFICES ASSUME ~disturbed[p] PROVE (Checking(p) /\ Strncpying(p))'
      OBVIOUS
    <3>1. Checking(p)'
      BY <1>1, <1>3, <2>1 DEF Checking
    <3>2. Strncpying(p)'
      BY <1>1, <2>1, <2>2, <2>3 DEF Strncpying
    <3> QED BY <3>1, <3>2
  <2> QED BY <1>1, <2>1, <2>4, <2>5 DEF CallGood, InCopy, LastCopied, Undisturbed,
             Cleared, Copying, Answered
<1> QED BY <1>4, <1>5

\* The copy to the caller.
LEMMA StrncpyGood ==
  ASSUME ArgsInv, NEW p \in Procs, StrncpyCell(p)
  PROVE  CallGood(p)'
<1> DEFINE s == user_buf[p]
           i == args_i[p]
<1>1. /\ args_pc[p] = "strncpy" /\ args_pc'[p] = "strncpy"
      /\ arg_retrieved' = arg_retrieved /\ user_buf' = user_buf
      /\ args_nbytes' = args_nbytes /\ disturbed' = disturbed
      /\ args_i'[p] = i + 1 /\ i <= args_nbytes[p] /\ arg_retrieved[i] # 0
      /\ i \in Nat \ {0} /\ args_nbytes[p] \in 0 .. USR_BUF_SIZE
      /\ args_buf'[p] = [args_buf[p] EXCEPT ![i] = arg_retrieved[i]]
      /\ args_buf[p] \in [Cells -> Nat]
  BY DEF StrncpyCell, Goto, ArgsInv, ArgsTypes
<1>2. i \in Cells /\ USR_BUF_SIZE \in Nat
  BY <1>1, ArgsAssumption DEF Cells
<1>3. InStrncpy(p)'
  <2>1. i # USR_BUF_SIZE
    BY <1>1 DEF ArgsInv, LastCell
  <2>2. i + 1 <= USR_BUF_SIZE
    BY <1>1, <1>2, <2>1
  <2> QED BY <1>1, <2>2 DEF InStrncpy
<1>4. ~disturbed[p] =>
        /\ args_nbytes[p] # 0
        /\ \A k \in Cells : arg_retrieved[k] = ArgCell(s, k)
        /\ ArgCell(s, 1) # 0
        /\ \A k \in Cells : k < i => args_buf[p][k] = ArgCell(s, k)
  BY <1>1 DEF ArgsInv, CallGood, Undisturbed, Checking, Strncpying
<1>5. ASSUME ~disturbed[p] PROVE (Checking(p) /\ Strncpying(p))'
  <2>1. Checking(p)'
    BY <1>1, <1>4, <1>5 DEF Checking
  <2>2. \A k \in Cells : k < i + 1 => args_buf'[p][k] = ArgCell(s, k)
    <3> SUFFICES ASSUME NEW k \in Cells, k < i + 1 PROVE args_buf'[p][k] = ArgCell(s, k)
      OBVIOUS
    <3> HIDE DEF i, s
    <3>1. k = i \/ (k # i /\ k < i)
      BY <1>1, <1>2 DEF Cells
    <3>2. CASE k = i
      BY <1>1, <1>2, <1>4, <1>5, <3>2
    <3>3. CASE k # i /\ k < i
      BY <1>1, <1>4, <1>5, <3>3
    <3> QED BY <3>1, <3>2, <3>3
  <2>3. Strncpying(p)'
    BY <1>1, <1>4, <1>5, <2>2 DEF Strncpying
  <2> QED BY <2>1, <2>3
<1> HIDE DEF i, s
<1> QED BY <1>1, <1>3, <1>5 DEF CallGood, InCopy, LastCopied, Undisturbed,
           Cleared, Copying, Answered

\* The copy ends: behind a 0 the argument is over, and the rest is filled up.
LEMMA EndGood ==
  ASSUME ArgsInv, NEW p \in Procs, StrncpyEnd(p)
  PROVE  CallGood(p)'
<1> DEFINE s == user_buf[p]
           i == args_i[p]
           n == args_nbytes[p]
<1>1. /\ args_pc[p] = "strncpy" /\ args_pc'[p] = "done" /\ args_ret'[p] = 0
      /\ arg_retrieved' = arg_retrieved /\ user_buf' = user_buf
      /\ args_nbytes' = args_nbytes /\ disturbed' = disturbed
      /\ (i <= n => arg_retrieved[i] = 0)
      /\ i \in Nat \ {0} /\ n \in 0 .. USR_BUF_SIZE
      /\ args_buf'[p] = Padded(p)
      /\ args_buf[p] \in [Cells -> Nat]
  BY DEF StrncpyEnd, Return, Goto, ArgsInv, ArgsTypes
<1>2. USR_BUF_SIZE \in Nat \ {0} /\ IsCommand(s)
  BY ArgsAssumption DEF ArgsInv, ArgsTypes
<1>3. \A k \in 1 .. n : k \in Cells /\ k \in Nat \ {0}
  BY <1>1, <1>2 DEF Cells
<1>4. \A k \in 1 .. n : args_buf'[p][k] = IF k >= i THEN 0 ELSE args_buf[p][k]
  <2> SUFFICES ASSUME NEW k \in 1 .. n
               PROVE  Padded(p)[k] = IF k >= i THEN 0 ELSE args_buf[p][k]
    BY <1>1
  <2>1. Padded(p)[k] = IF k \in i .. n THEN 0 ELSE args_buf[p][k]
    BY <1>3 DEF Padded
  <2> HIDE DEF i, n
  <2>2. k \in i .. n <=> k >= i
    BY <1>1, <1>3
  <2> QED BY <2>1, <2>2
<1>5. LastCopied(p)'
  <2> SUFFICES ASSUME n = USR_BUF_SIZE PROVE args_buf'[p][USR_BUF_SIZE] = 0
    BY <1>1 DEF LastCopied
  <2>1. i <= USR_BUF_SIZE
    BY <1>1 DEF ArgsInv, CallGood, InStrncpy
  <2>2. USR_BUF_SIZE \in 1 .. n /\ USR_BUF_SIZE >= i
    BY <1>1, <1>2, <2>1
  <2> QED BY <1>4, <2>2
<1>6. ~disturbed[p] =>
        /\ n # 0
        /\ \A k \in Cells : arg_retrieved[k] = ArgCell(s, k)
        /\ ArgCell(s, 1) # 0
        /\ \A k \in Cells : k < i => args_buf[p][k] = ArgCell(s, k)
  BY <1>1 DEF ArgsInv, CallGood, Undisturbed, Checking, Strncpying
<1>7. ~disturbed[p] => Answered(p)'
  <2> SUFFICES ASSUME ~disturbed[p], NEW k \in 1 .. n
               PROVE  args_buf'[p][k] = ArgCell(s, k)
    BY <1>1, <1>6 DEF Answered
  <2>1. CASE k < i
    <3>1. ~(k >= i)
      BY <1>1, <1>3, <2>1
    <3> QED BY <1>3, <1>4, <1>6, <2>1, <3>1
  <2>2. CASE k >= i
    <3>1. i <= n /\ i \in Cells
      BY <1>1, <1>2, <1>3, <2>2 DEF Cells
    <3>2. ArgCell(s, i) = 0
      BY <1>1, <1>6, <3>1
    <3>3. ArgCell(s, k) = 0
      <4>1. /\ ArgCell(s, i) = 0 <=> ArgStart(s) + i - 1 > strlen(s)
            /\ ArgCell(s, k) = 0 <=> ArgStart(s) + k - 1 > strlen(s)
        BY <1>1, <1>2, <1>3, ArgCellFacts
      <4>2. ArgStart(s) \in 1 .. strlen(s) + 1 /\ strlen(s) \in 0 .. USR_BUF_SIZE - 1
        BY <1>2, ArgStartFacts, CommandFacts
      <4> DEFINE A == ArgStart(s)
                 l == strlen(s)
      <4>3. A \in Nat /\ l \in Nat /\ A + i - 1 > l
        BY <1>2, <3>2, <4>1, <4>2
      <4> HIDE DEF A, l, i, n, s
      <4>4. A + k - 1 > l
        BY <1>1, <1>3, <2>2, <4>3
      <4> QED BY <4>1, <4>4 DEF A, l
    <3> QED BY <1>4, <2>2, <3>3
  <2>3. k \in Nat /\ i \in Nat
    BY <1>1, <1>3
  <2> QED BY <2>1, <2>2, <2>3
<1> QED BY <1>1, <1>5, <1>7 DEF CallGood, InCopy, InStrncpy, Undisturbed,
           Cleared, Copying, Checking, Strncpying

\* A call begins, and its answer has been used.
LEMMA AroundGood ==
  ASSUME ArgsInv, NEW p \in Procs,
         (\E nbytes \in 0 .. USR_BUF_SIZE : getargs(p, nbytes)) \/ Used(p)
  PROVE  CallGood(p)'
<1>1. CASE Used(p)
  <2>1. args_pc'[p] = "user"
    BY <1>1 DEF Used, Goto, ArgsInv, ArgsTypes
  <2> QED BY <2>1 DEF CallGood, InCopy, InStrncpy, LastCopied, Undisturbed,
           Cleared, Copying, Checking, Strncpying, Answered
<1>2. CASE \E nbytes \in 0 .. USR_BUF_SIZE : getargs(p, nbytes)
  <2>1. args_pc'[p] = "clear" /\ args_i'[p] = 1
    BY <1>2 DEF getargs, Goto, ArgsInv, ArgsTypes
  <2>2. \A k \in Cells : ~(k < 1)
    BY ArgsAssumption DEF Cells
  <2> QED BY <2>1, <2>2 DEF CallGood, InCopy, InStrncpy, LastCopied, Undisturbed,
           Cleared, Copying, Checking, Strncpying, Answered
<1> QED BY <1>1, <1>2

\* Every step of a process in or around getargs keeps the invariant.
LEMMA ArgsStepInv ==
  ASSUME ArgsInv, NEW p \in Procs, ArgsStep(p)
  PROVE  ArgsInv'
<1>1. ArgsTypes'
  BY TypesKept DEF ArgsInv, CallGood
<1>2. LastCell'
  BY LastCellKept DEF ArgsInv
<1>3. CallGood(p)'
  BY ClearGood, FindGood, CopyGood, CopiedGood, CheckGood, StrncpyGood, EndGood, AroundGood
     DEF ArgsStep, GetargsStep
<1>4. ASSUME NEW q \in Procs, q # p PROVE CallGood(q)'
  BY <1>4, OthersGood DEF ArgsInv
<1> QED BY <1>1, <1>2, <1>3, <1>4 DEF ArgsInv

\* Steps outside of getargs keep the invariant.
LEMMA ArgsSame ==
  ASSUME ArgsInv, UNCHANGED argsVars
  PROVE  ArgsInv'
<1>1. ArgsTypes' /\ LastCell'
  BY DEF argsVars, localVars, ArgsInv, ArgsTypes, LastCell
<1>2. ASSUME NEW p \in Procs PROVE CallGood(p)'
  <2>1. CallGood(p)
    BY <1>2 DEF ArgsInv
  <2> QED BY <2>1 DEF argsVars, localVars, CallGood, InCopy, InStrncpy, LastCopied,
             Undisturbed, Cleared, Copying, Checking, Strncpying, Answered
<1> QED BY <1>1, <1>2 DEF ArgsInv

\* The invariant says what OwnArgument and AnswerTerminated say.
LEMMA ArgsInvImplies ==
  ASSUME ArgsInv
  PROVE  OwnArgument /\ AnswerTerminated
<1>1. AnswerTerminated
  <2>1. USR_BUF_SIZE \in Cells
    BY ArgsAssumption DEF Cells
  <2> QED BY <2>1 DEF ArgsInv, CallGood, LastCopied, AnswerTerminated
<1>2. OwnArgument
  <2> SUFFICES ASSUME NEW p \in Procs, args_pc[p] = "done", ~disturbed[p]
               PROVE  LET argument == ArgumentOf(user_buf[p])
                      IN  IF args_nbytes[p] = 0 \/ argument = <<>>
                            THEN args_ret[p] = -1
                            ELSE /\ args_ret[p] = 0
                                 /\ \A k \in 1 .. args_nbytes[p] :
                                      args_buf[p][k] =
                                        IF k <= Len(argument) THEN argument[k] ELSE 0
    BY DEF OwnArgument
  <2> DEFINE s == user_buf[p]
             argument == ArgumentOf(s)
             A == ArgStart(s)
             l == strlen(s)
  <2>1. Answered(p) /\ IsCommand(s) /\ args_nbytes[p] \in 0 .. USR_BUF_SIZE
    BY DEF ArgsInv, CallGood, Undisturbed, ArgsTypes
  <2>2. /\ argument \in Seq(Nat) /\ Len(argument) = l - A + 1
        /\ \A k \in 1 .. Len(argument) : argument[k] = s[A + k - 1]
    BY <2>1, ArgumentFacts
  <2>3. A \in 1 .. l + 1 /\ l \in 0 .. USR_BUF_SIZE - 1 /\ USR_BUF_SIZE \in Nat
    BY <2>1, ArgStartFacts, CommandFacts, ArgsAssumption
  <2>4. \A k \in Nat \ {0} : ArgCell(s, k) = IF A + k - 1 <= l THEN s[A + k - 1] ELSE 0
    BY DEF ArgCell
  <2>5. ArgCell(s, 1) = 0 <=> A + 1 - 1 > l
    BY <2>1, ArgCellFacts
  <2>6. IF args_nbytes[p] = 0 \/ ArgCell(s, 1) = 0
          THEN args_ret[p] = -1
          ELSE /\ args_ret[p] = 0
               /\ \A k \in 1 .. args_nbytes[p] : args_buf[p][k] = ArgCell(s, k)
    BY <2>1 DEF Answered
  <2> HIDE DEF s, argument, A, l
  <2>7. argument = <<>> <=> ArgCell(s, 1) = 0
    <3>1. argument = <<>> <=> Len(argument) = 0
      BY <2>2
    <3> QED BY <2>2, <2>3, <2>5, <3>1
  <2>8. \A k \in 1 .. args_nbytes[p] :
          ArgCell(s, k) = IF k <= Len(argument) THEN argument[k] ELSE 0
    <3> TAKE k \in 1 .. args_nbytes[p]
    <3>1. k \in Nat \ {0}
      BY <2>1, <2>3
    <3>2. k <= Len(argument) <=> A + k - 1 <= l
      BY <2>2, <2>3, <3>1
    <3>3. k <= Len(argument) => k \in 1 .. Len(argument)
      BY <2>2, <3>1
    <3> QED BY <2>2, <2>4, <3>1, <3>2, <3>3
  <2> QED BY <2>6, <2>7, <2>8 DEF s, argument
<1> QED BY <1>1, <1>2

\* The invariant holds in every reachable state.
LEMMA ArgsInvariant == ArgsSpec => []ArgsInv
<1>1. ArgsInit => ArgsInv
  <2> SUFFICES ASSUME ArgsInit PROVE ArgsInv
    OBVIOUS
  <2>1. /\ user_buf = [p \in Procs |-> user_buf[p]]
        /\ \A p \in Procs : IsCommand(user_buf[p])
    BY DEF ArgsInit
  <2> QED BY <2>1, ArgsStart DEF ArgsInit
<1>2. ArgsInv /\ [ArgsNext]_argsVars => ArgsInv'
  <2> SUFFICES ASSUME ArgsInv, [ArgsNext]_argsVars PROVE ArgsInv'
    OBVIOUS
  <2>1. CASE UNCHANGED argsVars
    BY <2>1, ArgsSame
  <2>2. CASE ArgsNext
    <3>1. PICK p \in Procs :
            (\E nbytes \in ArgSizes : getargs(p, nbytes)) \/ GetargsStep(p) \/ Used(p)
      BY <2>2 DEF ArgsNext
    <3>2. ArgsStep(p)
      BY <3>1, ArgsAssumption DEF ArgsStep
    <3> QED BY <3>2, ArgsStepInv
  <2> QED BY <2>1, <2>2
<1> QED BY <1>1, <1>2, PTL DEF ArgsSpec

\* Whatever getargs calls of other processes do to the global array meanwhile,
\* an answer in a buffer of full size ends with a 0 inside it (syscall.c:328),
\* for any number of processes, any commands and any size.
THEOREM AnswerSafety == ArgsSpec => []AnswerTerminated
BY ArgsInvariant, ArgsInvImplies, PTL

\* A call of getargs that no other call disturbs gives its caller the argument
\* of the caller's own command, cut off at the caller's length, or -1 if there
\* is none (syscall.c:284), for any commands, lengths and size of the array.
THEOREM ArgumentSafety == ArgsSpec => []OwnArgument
BY ArgsInvariant, ArgsInvImplies, PTL

-----------------------------------------------------------------------------
(* Strings that programs pass on *)

\* A string copied into an array that is long enough.
LEMMA StrncpyFacts ==
  ASSUME NEW src \in Seq(Nat), NEW n \in Nat
  PROVE  /\ strncpy(src, n) \in Seq(Nat) /\ Len(strncpy(src, n)) = n
         /\ DOMAIN strncpy(src, n) = 1 .. n
         /\ \A k \in 1 .. n : strncpy(src, n)[k] = IF k <= strlen(src) THEN src[k] ELSE 0
         /\ strlen(src) <= n => strlen(strncpy(src, n)) = strlen(src)
         /\ strlen(src) <= n => CString(strncpy(src, n)) = CString(src)
<1> DEFINE t == strncpy(src, n)
           l == strlen(src)
<1>1. l \in 0 .. Len(src) /\ (\A j \in 1 .. l : src[j] # 0) /\ Len(src) \in Nat
  BY StrlenFacts
<1>2. t = [k \in 1 .. n |-> IF k <= l THEN src[k] ELSE 0]
  BY DEF strncpy
<1>3. \A k \in 1 .. n : k <= l => src[k] \in Nat
  <2> HIDE DEF l
  <2> SUFFICES ASSUME NEW k \in 1 .. n, k <= l PROVE src[k] \in Nat
    OBVIOUS
  <2>1. k \in 1 .. Len(src)
    BY <1>1
  <2> QED BY <2>1
<1>4. t \in Seq(Nat) /\ Len(t) = n /\ DOMAIN t = 1 .. n
  <2> HIDE DEF l
  <2>1. \A k \in 1 .. n : (IF k <= l THEN src[k] ELSE 0) \in Nat
    BY <1>3
  <2> HIDE DEF t
  <2> QED BY <1>2, <2>1
<1>5. \A k \in 1 .. n : t[k] = IF k <= l THEN src[k] ELSE 0
  BY <1>2
<1> HIDE DEF t, l
<1>6. ASSUME l <= n PROVE strlen(t) = l
  <2>1. l \in 0 .. Len(t)
    BY <1>1, <1>4, <1>6
  <2>2. \A j \in 1 .. l : t[j] # 0
    <3> TAKE j \in 1 .. l
    <3>1. j \in 1 .. n /\ j <= l
      BY <1>1, <1>6
    <3> QED BY <1>1, <1>5, <3>1
  <2>3. l < Len(t) => t[l + 1] = 0
    <3>1. l < n => l + 1 \in 1 .. n /\ ~(l + 1 <= l)
      BY <1>1
    <3> QED BY <1>4, <1>5, <3>1
  <2> QED BY <1>4, <2>1, <2>2, <2>3, StrlenUnique
<1>7. ASSUME l <= n PROVE CString(t) = CString(src)
  <2>1. \A j \in 1 .. l : t[j] = src[j]
    BY <1>1, <1>5, <1>7
  <2> QED BY <1>4, <1>6, <1>7, <2>1, CStringEqual DEF l
<1> QED BY <1>4, <1>5, <1>6, <1>7 DEF t, l

\* A sequence without a 0 is a string.
LEMMA NoZero ==
  ASSUME NEW s \in Seq(Nat), \A j \in 1 .. Len(s) : s[j] # 0
  PROVE  strlen(s) = Len(s) /\ CString(s) = s
<1>1. Len(s) \in Nat /\ Len(s) \in 0 .. Len(s)
  OBVIOUS
<1>2. strlen(s) = Len(s)
  BY <1>1, StrlenUnique
<1> QED BY <1>1, <1>2 DEF CString

\* To copy a copy changes nothing.
LEMMA StrncpyTwice ==
  ASSUME NEW src \in Seq(Nat), NEW n \in Nat, strlen(src) <= n
  PROVE  strncpy(strncpy(src, n), n) = strncpy(src, n)
<1> DEFINE t == strncpy(src, n)
           u == strncpy(t, n)
<1>1. /\ t \in Seq(Nat) /\ Len(t) = n /\ strlen(t) = strlen(src)
      /\ \A k \in 1 .. n : t[k] = IF k <= strlen(src) THEN src[k] ELSE 0
  BY StrncpyFacts
<1> HIDE DEF t
<1>2. /\ u \in Seq(Nat) /\ Len(u) = n
      /\ \A k \in 1 .. n : u[k] = IF k <= strlen(t) THEN t[k] ELSE 0
  BY <1>1, StrncpyFacts
<1>3. \A k \in 1 .. n : u[k] = t[k]
  BY <1>1, <1>2
<1> HIDE DEF u
<1>4. u = t
  BY <1>1, <1>2, <1>3, SeqEqual
<1> QED BY <1>4 DEF u, t

\* The names that programs open.
LEMMA OpenNames ==
  /\ IsFname(ThisDirectory) /\ CString(ThisDirectory) = <<Dot>>
  /\ \A i \in DOMAIN Dentries :
       /\ IsFname(strncpy(Dentries[i].name, USR_BUF_SIZE))
       /\ CString(strncpy(Dentries[i].name, USR_BUF_SIZE)) = EntryName[i]
<1>1. USR_BUF_SIZE \in Nat /\ NAMELEN \in Nat \ {0} /\ USR_BUF_SIZE > NAMELEN
  BY ArgsAssumption, ProgramsAssumption, ImageAssumption
<1>2. IsFname(ThisDirectory) /\ CString(ThisDirectory) = <<Dot>>
  <2> DEFINE d == <<Dot>>
  <2>1. d \in Seq(Nat) /\ Len(d) = 1 /\ \A j \in 1 .. Len(d) : d[j] # 0
    BY DEF Dot
  <2> HIDE DEF d
  <2>2. strlen(d) = 1 /\ CString(d) = d
    BY <2>1, NoZero
  <2>3. strlen(d) <= USR_BUF_SIZE
    BY <1>1, <2>2
  <2> QED BY <1>1, <2>1, <2>2, <2>3, StrncpyFacts DEF ThisDirectory, IsFname, d
<1>3. ASSUME NEW i \in DOMAIN Dentries
      PROVE  /\ IsFname(strncpy(Dentries[i].name, USR_BUF_SIZE))
             /\ CString(strncpy(Dentries[i].name, USR_BUF_SIZE)) = EntryName[i]
  <2> DEFINE name == Dentries[i].name
  <2>1. name \in Seq(Nat) /\ Len(name) = NAMELEN /\ EntryName[i] = CString(name)
    BY EntryType DEF EntryName
  <2> HIDE DEF name
  <2>2. strlen(name) <= USR_BUF_SIZE
    <3>1. strlen(name) \in 0 .. NAMELEN
      BY <2>1, StrlenFacts
    <3> QED BY <1>1, <3>1
  <2>3. IsFname(strncpy(name, USR_BUF_SIZE)) /\ CString(strncpy(name, USR_BUF_SIZE)) = EntryName[i]
    BY <1>1, <2>1, <2>2, StrncpyFacts DEF IsFname
  <2> QED BY <2>3 DEF name
<1> QED BY <1>2, <1>3

\* Names are different, so an entry is found if and only if it has the name.
LEMMA FoundByName ==
  ASSUME NEW fname, IsFname(fname), NEW i \in DOMAIN Dentries
  PROVE  read_dentry_by_name(fname, i) <=> EntryName[i] = CString(fname)
<1>1. ASSUME EntryName[i] = CString(fname) PROVE read_dentry_by_name(fname, i)
  <2>1. PICK j \in DOMAIN Dentries : read_dentry_by_name(fname, j)
    BY <1>1, NamedIsFound
  <2>2. EntryName[j] = CString(fname)
    BY <2>1, FoundIsNamed
  <2>3. i = j
    BY <1>1, <2>2, DirectoryAssumption
  <2> QED BY <2>1, <2>3
<1> QED BY <1>1, FoundIsNamed

\* What the shell passes to execute is a command, and execute's copy of it is
\* the same.
LEMMA ShellCommand ==
  ASSUME NEW line \in Lines
  PROVE  LET s == strncpy(WithoutNewline(line), USR_BUF_SIZE)
         IN  IsCommand(s) /\ strncpy(s, USR_BUF_SIZE) = s
<1> DEFINE w == WithoutNewline(line)
           s == strncpy(w, USR_BUF_SIZE)
           U == USR_BUF_SIZE
<1>1. /\ line \in Seq(Chars) /\ Len(line) < U /\ U \in Nat \ {0} /\ Chars \subseteq Nat \ {0}
  BY ProgramsAssumption, ArgsAssumption
<1>2. w \in Seq(Chars) /\ Len(w) < U
  <2>1. CASE w = line
    BY <1>1, <2>1
  <2>2. CASE line # <<>> /\ w = SubSeq(line, 1, Len(line) - 1)
    <3>1. Len(line) \in Nat /\ Len(line) > 0
      BY <1>1, <2>2
    <3> DEFINE v == SubSeq(line, 1, Len(line) - 1)
    <3> DEFINE n == Len(line)
    <3>2. v \in Seq(Chars) /\ Len(v) <= n
      <4>1. \A k \in 1 .. n - 1 : line[k] \in Chars
        BY <1>1, <3>1
      <4>2. n \in Nat /\ n - 1 \in Int /\ 1 \in Int
        BY <3>1
      <4>3. v \in Seq(Chars) /\ Len(v) = IF 1 <= n - 1 THEN (n - 1) - 1 + 1 ELSE 0
        BY <4>1, <4>2, SubSeqProperties
      <4> HIDE DEF v, n
      <4> QED BY <4>2, <4>3
    <3> HIDE DEF v
    <3>3. Len(v) < U
      BY <1>1, <3>1, <3>2
    <3> QED BY <2>2, <3>2, <3>3 DEF v
  <2> QED BY <2>1, <2>2 DEF WithoutNewline
<1> HIDE DEF w
<1>3. w \in Seq(Nat) /\ Len(w) \in Nat /\ \A j \in 1 .. Len(w) : w[j] # 0 /\ w[j] \in Chars
  <2>1. Len(w) \in Nat /\ w = [k \in 1 .. Len(w) |-> w[k]] /\ \A k \in 1 .. Len(w) : w[k] \in Chars
    BY <1>2
  <2>2. \A j \in 1 .. Len(w) : w[j] # 0 /\ w[j] \in Nat
    BY <1>1, <2>1
  <2> QED BY <2>1, <2>2
<1>4. strlen(w) = Len(w)
  BY <1>3, NoZero
<1>5. /\ s \in Seq(Nat) /\ DOMAIN s = 1 .. U
      /\ \A k \in 1 .. U : s[k] = IF k <= Len(w) THEN w[k] ELSE 0
  BY <1>1, <1>3, <1>4, StrncpyFacts
<1>6. strncpy(s, U) = s
  <2>1. strlen(w) <= U
    BY <1>1, <1>2, <1>3, <1>4
  <2> QED BY <1>1, <1>3, <2>1, StrncpyTwice
<1> HIDE DEF s
<1>7. \A k \in 1 .. U : s[k] \in Chars \cup {0}
  BY <1>3, <1>5
<1>8. s[U] = 0
  <2>1. U \in 1 .. U /\ ~(U <= Len(w))
    BY <1>1, <1>2, <1>3
  <2> QED BY <1>5, <2>1
<1>9. s \in [Cells -> Chars \cup {0}]
  <2>1. s = [k \in 1 .. U |-> s[k]]
    BY <1>5
  <2> QED BY <1>7, <2>1 DEF Cells
<1>10. IsCommand(s)
  BY <1>8, <1>9 DEF IsCommand
<1> QED BY <1>6, <1>10 DEF s, w

\* The file that execute looks up is the one the first word names.
LEMMA CommandWord ==
  ASSUME NEW s, IsCommand(s)
  PROVE  /\ IsFname(CommandName(s))
         /\ NoNewLine(CString(s)) => CString(CommandName(s)) = FirstWord(CString(s))
<1> DEFINE l == strlen(s)
           W == {i \in DOMAIN s : s[i] \in {Space, NewLine, 0}}
           m == Min(W)
           x == SubSeq(s, 1, m - 1)
<1>1. /\ s \in Seq(Nat) /\ Len(s) = USR_BUF_SIZE /\ DOMAIN s = 1 .. USR_BUF_SIZE
      /\ l \in Nat /\ l <= USR_BUF_SIZE - 1 /\ (\A j \in 1 .. l : s[j] # 0) /\ s[l + 1] = 0
      /\ USR_BUF_SIZE \in Nat
  BY CommandFacts, ArgsAssumption DEF Cells
<1>2. CString(s) = SubSeq(s, 1, l)
  BY DEF CString
<1> HIDE DEF l
<1>3. W \in SUBSET Nat /\ l + 1 \in W
  BY <1>1
<1>4. m \in W /\ \A i \in W : m <= i
  <2> HIDE DEF W
  <2> QED BY <1>3, MinIsLeast
<1>5. m \in Nat \ {0} /\ m <= l + 1 /\ s[m] \in {Space, NewLine, 0}
  BY <1>1, <1>3, <1>4
<1>6. CommandName(s) = strncpy(x, USR_BUF_SIZE)
  BY DEF CommandName
<1> HIDE DEF m
<1>7. \A k \in 1 .. m - 1 : s[k] \in Nat /\ s[k] # 0
  <2> TAKE k \in 1 .. m - 1
  <2>1. k \in 1 .. l /\ k \in 1 .. Len(s)
    BY <1>1, <1>5
  <2> QED BY <1>1, <2>1
<1>8. /\ x \in Seq(Nat) /\ Len(x) = m - 1
      /\ \A k \in 1 .. m - 1 : x[k] = s[k]
  <2>1. /\ x \in Seq(Nat) /\ Len(x) = IF 1 <= m - 1 THEN (m - 1) - 1 + 1 ELSE 0
        /\ \A k \in 1 .. (m - 1) - 1 + 1 : x[k] = s[1 + k - 1]
    BY <1>5, <1>7, SubSeqProperties
  <2>2. (m - 1) - 1 + 1 = m - 1 /\ \A k \in 1 .. m - 1 : 1 + k - 1 = k
    BY <1>5
  <2>3. Len(x) = m - 1
    <3> HIDE DEF x
    <3> QED BY <1>5, <2>1
  <2> HIDE DEF x
  <2>4. \A k \in 1 .. m - 1 : x[k] = s[k]
    BY <2>1, <2>2
  <2> QED BY <2>1, <2>3, <2>4
<1> HIDE DEF x
<1>9. strlen(x) = m - 1 /\ CString(x) = x
  BY <1>7, <1>8, NoZero
<1>10. strlen(x) <= USR_BUF_SIZE
  BY <1>1, <1>5, <1>9
<1>11. /\ strncpy(x, USR_BUF_SIZE) \in Seq(Nat) /\ Len(strncpy(x, USR_BUF_SIZE)) = USR_BUF_SIZE
       /\ CString(strncpy(x, USR_BUF_SIZE)) = x
  BY <1>1, <1>8, <1>9, <1>10, StrncpyFacts
<1>12. IsFname(CommandName(s))
  BY <1>6, <1>11, ProgramsAssumption DEF IsFname
<1>13. ASSUME NoNewLine(CString(s)) PROVE x = FirstWord(CString(s))
  <2> DEFINE cs == CString(s)
             V == {i \in DOMAIN cs : cs[i] = Space} \cup {Len(cs) + 1}
             v == Min(V)
  <2>1. \A k \in 1 .. l : s[k] \in Nat
    BY <1>1
  <2>2. cs \in Seq(Nat) /\ Len(cs) = l /\ \A k \in 1 .. l : cs[k] = s[k]
    <3> DEFINE y == SubSeq(s, 1, l)
    <3>1. /\ y \in Seq(Nat) /\ Len(y) = IF 1 <= l THEN l - 1 + 1 ELSE 0
          /\ \A k \in 1 .. l - 1 + 1 : y[k] = s[1 + k - 1]
      BY <1>1, <2>1, SubSeqProperties
    <3> HIDE DEF y
    <3>2. l - 1 + 1 = l /\ \A k \in 1 .. l : 1 + k - 1 = k
      BY <1>1
    <3>3. Len(y) = l
      BY <1>1, <3>1
    <3>4. \A k \in 1 .. l : y[k] = s[k]
      BY <3>1, <3>2
    <3> QED BY <1>2, <3>1, <3>3, <3>4 DEF y
  <2>3. FirstWord(cs) = SubSeq(cs, 1, v - 1)
    BY DEF FirstWord
  <2>4. NoNewLine(cs)
    BY <1>13
  <2> HIDE DEF cs
  <2>5. DOMAIN cs = 1 .. l
    BY <2>2
  <2>6. V \in SUBSET Nat /\ l + 1 \in V
    BY <1>1, <2>2, <2>5
  <2>7. v \in V /\ \A i \in V : v <= i
    <3> HIDE DEF V
    <3> QED BY <2>6, MinIsLeast
  <2>8. v \in W
    <3>1. CASE v = l + 1
      BY <1>3, <3>1
    <3>2. CASE v \in 1 .. l /\ cs[v] = Space
      <4>1. s[v] = Space
        BY <2>2, <3>2
      <4>2. v \in DOMAIN s
        BY <1>1, <3>2
      <4> QED BY <4>1, <4>2
    <3> QED BY <2>2, <2>5, <2>7, <3>1, <3>2
  <2>9. m \in V
    <3>1. CASE m = l + 1
      BY <2>6, <3>1
    <3>2. CASE m # l + 1
      <4>1. m \in 1 .. l
        BY <1>1, <1>5, <3>2
      <4>2. s[m] = Space
        BY <1>1, <1>5, <2>2, <2>4, <2>5, <4>1 DEF NoNewLine
      <4> QED BY <2>2, <2>5, <4>1, <4>2
    <3> QED BY <3>1, <3>2
  <2>10. m = v
    <3>1. m <= v /\ v <= m /\ v \in Nat
      BY <1>3, <1>4, <2>7, <2>8, <2>9 DEF m
    <3> HIDE DEF v
    <3> QED BY <1>5, <3>1
  <2>11. \A k \in 1 .. m - 1 : cs[k] = s[k] /\ cs[k] \in Nat
    <3> TAKE k \in 1 .. m - 1
    <3>1. k \in 1 .. l
      BY <1>1, <1>5
    <3> QED BY <1>7, <2>2, <3>1
  <2> DEFINE z == SubSeq(cs, 1, m - 1)
  <2>12. z \in Seq(Nat) /\ Len(z) = m - 1 /\ \A k \in 1 .. m - 1 : z[k] = cs[k]
    <3>1. /\ z \in Seq(Nat) /\ Len(z) = IF 1 <= m - 1 THEN (m - 1) - 1 + 1 ELSE 0
          /\ \A k \in 1 .. (m - 1) - 1 + 1 : z[k] = cs[1 + k - 1]
      BY <1>5, <2>11, SubSeqProperties
    <3>2. (m - 1) - 1 + 1 = m - 1 /\ \A k \in 1 .. m - 1 : 1 + k - 1 = k
      BY <1>5
    <3> HIDE DEF z
    <3>3. Len(z) = m - 1
      BY <1>5, <3>1
    <3>4. \A k \in 1 .. m - 1 : z[k] = cs[k]
      BY <3>1, <3>2
    <3> QED BY <3>1, <3>3, <3>4
  <2> HIDE DEF z, v
  <2>13. \A k \in 1 .. Len(x) : x[k] = z[k]
    BY <1>8, <2>11, <2>12
  <2>14. x = z
    BY <1>8, <2>12, <2>13, SeqEqual
  <2> QED BY <2>3, <2>10, <2>14 DEF z, cs
<1> QED BY <1>6, <1>11, <1>12, <1>13

\* execute finds the entries that the first word names.
LEMMA CommandFinds ==
  ASSUME NEW s, IsCommand(s), NoNewLine(CString(s)), NEW i \in DOMAIN Dentries
  PROVE  read_dentry_by_name(CommandName(s), i) <=> i \in Named(FirstWord(CString(s)))
<1>1. read_dentry_by_name(CommandName(s), i) <=> EntryName[i] = FirstWord(CString(s))
  BY CommandWord, FoundByName
<1> QED BY <1>1 DEF Named, EntryName

\* A command runs at most one program.
LEMMA OneProgram ==
  ASSUME NEW string, NEW i \in Named(FirstWord(string)), NEW n \in ProgramsNamed(string)
  PROVE  n = Dentries[i].inode
<1>1. PICK j \in Named(FirstWord(string)) : n = Dentries[j].inode
  BY DEF ProgramsNamed
<1>2. i = j
  BY DirectoryAssumption DEF Named, EntryName
<1> QED BY <1>1, <1>2

-----------------------------------------------------------------------------
(* The programs *)

\* The command in question runs a program of this kind.
Runs(kind) ==
  NoNewLine(CString(command)) =>
    /\ ProgramsNamed(CString(command)) # {}
    /\ \A n \in ProgramsNamed(CString(command)) : ProgramOf[n] = kind

HasCommand == user_buf[Me] = command

Asked == args_pc[Me] # "user" => args_nbytes[Me] = USR_BUF_SIZE

GotArgument == HasCommand /\ HasArguments /\ args_nbytes[Me] = USR_BUF_SIZE

NothingOpen == \A fd \in Fds : fd_table[fd].flags = 0

Grepping == Runs("grep") /\ GotArgument /\ IsOpen(2, "directory")

\* grep has searched the plain ones of the first n entries.
SearchedTo(n) == searched \in Seq(Nat) /\ Lists(searched, {i \in Plain : i <= n})

Kinds == {"cat", "ls", "grep", "other"}

\* What holds at each step of the terminal.
ProgramGood ==
  /\ ppc = "shell" => NothingOpen /\ args_pc[Me] = "user" /\ searched = <<>>
  /\ ppc \in Kinds => Runs(ppc) /\ (ppc # "other" => NothingOpen)
  /\ ppc \in {"cat", "grep"} => HasCommand /\ Asked /\ (ppc = "grep" => searched = <<>>)
  /\ ppc = "cat_read" =>
       /\ Runs("cat") /\ GotArgument
       /\ fd_table[2].flags = 1 /\ opened_as[2] = CString(args_buf[Me])
  /\ ppc = "ls_read" => Runs("ls") /\ IsOpen(2, "directory")
  /\ ppc = "grep_dir" => Grepping /\ fd_table[3].flags = 0 /\ SearchedTo(Len(got[2]))
  /\ ppc \in {"grep_open", "grep_read", "grep_close"} =>
       /\ Grepping /\ Len(got[2]) \in Plain /\ SearchedTo(Len(got[2]) - 1)
       /\ ppc = "grep_open" => fd_table[3].flags = 0

\* The status is the truth on its way from the program to the shell, and only
\* a command that has ended was refused.
Truth(st) == NoNewLine(CString(command)) => TellsTheTruth(st)

StatusGood ==
  /\ refused => ppc = "exited"
  /\ ppc = "halt" => Truth(exit_status)
  /\ ppc = "exec_ret" /\ ~overwritten => Truth(ret_status)
  /\ ExitTellsTheTruth

ProgInv == FsInv /\ ArgsInv /\ ProgramGood /\ StatusGood

\* The descriptors that programs use.
LEMMA Descriptors == 2 \in Fds /\ 3 \in Fds /\ Me \in Procs
BY DirectoryAssumption, ProgramsAssumption, ImageAssumption DEF Fds

\* With nothing open, open takes descriptor 2.
LEMMA FirstOpen ==
  ASSUME FsInv, NothingOpen, NEW fname, IsFname(fname), open(fname)
  PROVE  /\ opened_as'[2] = CString(fname) /\ got'[2] = <<>>
         /\ fd_table'[3].flags = 0
         /\ \E i \in DOMAIN Dentries :
              EntryName[i] = CString(fname) /\ IsOpen(2, Dentries[i].type)'
<1>1. PICK fd \in Fds, i \in DOMAIN Dentries :
        /\ get_avail_fd(fd)
        /\ read_dentry_by_name(fname, i)
        /\ fd_table' = [fd_table EXCEPT ![fd] = Opened(Dentries[i])]
        /\ opened_as' = [opened_as EXCEPT ![fd] = CString(fname)]
        /\ got' = [got EXCEPT ![fd] = <<>>]
  BY DEF open
<1>2. fd = 2
  <2>1. ~(2 < fd)
    BY <1>1, Descriptors DEF get_avail_fd, NothingOpen
  <2> QED BY <2>1, ImageAssumption DEF Fds
<1>3. EntryName[i] = CString(fname)
  BY <1>1, FoundIsNamed
<1>4. opened_as'[2] = CString(fname) /\ got'[2] = <<>> /\ fd_table'[2] = Opened(Dentries[i])
      /\ fd_table'[3] = fd_table[3]
  BY <1>1, <1>2, Descriptors DEF FsInv, FsTypes
<1>5. IsOpen(2, Dentries[i].type)'
  BY <1>4 DEF Opened, IsOpen
<1> QED BY <1>3, <1>4, <1>5, Descriptors DEF NothingOpen

\* With nothing open, open fails only if there is no entry of the name.
LEMMA FirstOpenFails ==
  ASSUME NothingOpen, NEW fname, IsFname(fname), open_fails(fname)
  PROVE  Named(CString(fname)) = {}
<1>1. get_avail_fd(2)
  BY Descriptors, ImageAssumption DEF get_avail_fd, NothingOpen, Fds
<1>2. ~ \E i \in DOMAIN Dentries : read_dentry_by_name(fname, i)
  BY <1>1, Descriptors DEF open_fails
<1> QED BY <1>2, NamedIsFound DEF Named, EntryName

\* The directory can be opened.
LEMMA DirectoryOpens ==
  ASSUME NothingOpen
  PROVE  ~open_fails(ThisDirectory)
<1>1. Named(<<Dot>>) # {}
  BY DirectoryAssumption DEF Named, EntryName
<1> QED BY <1>1, FirstOpenFails, OpenNames

\* And what is opened then is the directory.
LEMMA DirectoryOpened ==
  ASSUME FsInv, NothingOpen, open(ThisDirectory)
  PROVE  IsOpen(2, "directory")' /\ got'[2] = <<>> /\ fd_table'[3].flags = 0
<1>1. PICK i \in DOMAIN Dentries : EntryName[i] = <<Dot>> /\ IsOpen(2, Dentries[i].type)'
  BY FirstOpen, OpenNames
<1>2. Dentries[i].type = "directory"
  BY <1>1, DirectoryAssumption
<1> QED BY <1>1, <1>2, FirstOpen, OpenNames

\* With the directory open as 2, a file becomes 3.
LEMMA SecondOpen ==
  ASSUME FsInv, fd_table[2].flags = 1, fd_table[3].flags = 0, NEW fname, open(fname)
  PROVE  fd_table'[2] = fd_table[2] /\ got'[2] = got[2]
<1>1. PICK fd \in Fds, i \in DOMAIN Dentries :
        /\ get_avail_fd(fd)
        /\ fd_table' = [fd_table EXCEPT ![fd] = Opened(Dentries[i])]
        /\ got' = [got EXCEPT ![fd] = <<>>]
  BY DEF open
<1>2. fd # 2
  BY <1>1 DEF get_avail_fd
<1> QED BY <1>1, <1>2, Descriptors DEF FsInv, FsTypes

\* Every entry that grep finds can be opened.
LEMMA SecondOpens ==
  ASSUME fd_table[2].flags = 1, fd_table[3].flags = 0, NEW i \in DOMAIN Dentries
  PROVE  ~open_fails(strncpy(Dentries[i].name, USR_BUF_SIZE))
<1>1. get_avail_fd(3)
  <2>1. \A g \in Fds : g < 3 => g = 2
    BY ImageAssumption DEF Fds
  <2> QED BY <2>1 DEF get_avail_fd
<1> DEFINE fname == strncpy(Dentries[i].name, USR_BUF_SIZE)
<1>2. IsFname(fname) /\ CString(fname) = EntryName[i]
  BY OpenNames
<1> HIDE DEF fname
<1>3. \E j \in DOMAIN Dentries : read_dentry_by_name(fname, j)
  BY <1>2, NamedIsFound
<1> QED BY <1>1, <1>3, Descriptors DEF open_fails, fname

\* What getargs gave to a program: a string, and its own argument unless
\* another call came between.
LEMMA ArgumentAtHand ==
  ASSUME ArgsInv, GotArgument
  PROVE  /\ IsFname(args_buf[Me])
         /\ ~disturbed[Me] => /\ ArgumentOf(command) # <<>>
                              /\ CString(args_buf[Me]) = ArgumentOf(command)
<1> DEFINE s == command
           argument == ArgumentOf(s)
           buf == args_buf[Me]
           l == strlen(s)
           A == ArgStart(s)
<1>1. /\ IsCommand(s) /\ buf \in [Cells -> Nat] /\ args_nbytes[Me] = USR_BUF_SIZE
      /\ USR_BUF_SIZE \in Nat \ {0} /\ s = user_buf[Me]
  BY Descriptors, ArgsAssumption DEF ArgsInv, ArgsTypes, GotArgument, HasCommand
<1>2. buf \in Seq(Nat) /\ Len(buf) = USR_BUF_SIZE
  BY <1>1 DEF Cells
<1>3. IsFname(buf)
  BY <1>2, ProgramsAssumption DEF IsFname
<1>4. ASSUME ~disturbed[Me]
      PROVE  argument # <<>> /\ CString(buf) = argument
  <2>1. /\ argument # <<>>
        /\ \A k \in 1 .. USR_BUF_SIZE : buf[k] = IF k <= Len(argument) THEN argument[k] ELSE 0
    <3>1. OwnArgument /\ args_pc[Me] = "done" /\ args_ret[Me] = 0
      BY ArgsInvImplies DEF GotArgument, HasArguments
    <3> QED BY <1>1, <1>4, <3>1, Descriptors DEF OwnArgument
  <2>2. /\ argument \in Seq(Nat) /\ Len(argument) = l - A + 1
        /\ \A k \in 1 .. Len(argument) : argument[k] = s[A + k - 1]
    BY <1>1, ArgumentFacts
  <2>3. /\ A \in 1 .. l + 1 /\ l \in 0 .. USR_BUF_SIZE - 1
        /\ \A j \in 1 .. l : s[j] # 0
    BY <1>1, ArgStartFacts, CommandFacts
  <2> HIDE DEF argument, buf, l, A, s
  <2> DEFINE n == Len(argument)
  <2>4. n \in Nat /\ n < USR_BUF_SIZE
    BY <1>1, <2>2, <2>3
  <2>5. \A k \in 1 .. n : argument[k] # 0
    <3> TAKE k \in 1 .. n
    <3>1. A + k - 1 \in 1 .. l
      BY <1>1, <2>2, <2>3
    <3> QED BY <2>2, <2>3, <3>1
  <2> HIDE DEF n
  <2>6. \A k \in 1 .. n : buf[k] = argument[k] /\ buf[k] # 0
    <3> TAKE k \in 1 .. n
    <3>1. k \in 1 .. USR_BUF_SIZE /\ k <= n
      BY <1>1, <2>4
    <3> QED BY <2>1, <2>5, <3>1 DEF n
  <2>7. buf[n + 1] = 0
    <3>1. n + 1 \in 1 .. USR_BUF_SIZE /\ ~(n + 1 <= n)
      BY <1>1, <2>4
    <3> QED BY <2>1, <3>1 DEF n
  <2>8. strlen(buf) = n
    <3>1. n \in 0 .. Len(buf)
      BY <1>1, <1>2, <2>4
    <3> QED BY <1>2, <2>6, <2>7, <3>1, StrlenUnique
  <2>9. strlen(argument) = n /\ CString(argument) = argument
    BY <2>2, <2>5, NoZero DEF n
  <2>10. CString(buf) = CString(argument)
    BY <1>2, <2>2, <2>6, <2>8, <2>9, CStringEqual
  <2> QED BY <2>1, <2>9, <2>10
<1> QED BY <1>3, <1>4

-----------------------------------------------------------------------------
(* Each step of the terminal *)

\* A command that has not ended was not refused.
LEMMA Unrefused ==
  ASSUME ProgInv, ppc # "exited", UNCHANGED refused
  PROVE  ~refused'
BY DEF ProgInv, StatusGood

\* As long as the program runs there is no status.
LEMMA NoStatus ==
  ASSUME ~refused', ppc' \notin {"halt", "exec_ret", "exited"}
  PROVE  StatusGood'
BY DEF StatusGood, ExitTellsTheTruth

\* A program that finishes has its status.
LEMMA FinishGood ==
  ASSUME ~refused', ppc' = "halt", Truth(exit_status)'
  PROVE  StatusGood'
BY DEF StatusGood, ExitTellsTheTruth

\* execute finds no program, or no PCB.
LEMMA NoProgram ==
  ASSUME NEW s, IsCommand(s), command' = s, NEW no_pcb \in BOOLEAN, Reject(no_pcb),
         ~no_pcb => \/ ~ \E i \in DOMAIN Dentries : read_dentry_by_name(CommandName(s), i)
                    \/ \E i \in DOMAIN Dentries :
                         read_dentry_by_name(CommandName(s), i) /\ ~IsExecutable(i)
  PROVE  StatusGood'
<1>1. ASSUME NoNewLine(CString(s)), ~no_pcb PROVE ProgramsNamed(CString(s)) = {}
  <2>1. CASE ~ \E i \in DOMAIN Dentries : read_dentry_by_name(CommandName(s), i)
    <3>1. Named(FirstWord(CString(s))) = {}
      BY <1>1, <2>1, CommandFinds DEF Named
    <3> QED BY <3>1 DEF ProgramsNamed
  <2>2. ASSUME NEW i \in DOMAIN Dentries, read_dentry_by_name(CommandName(s), i),
               ~IsExecutable(i)
        PROVE  ProgramsNamed(CString(s)) = {}
    <3>1. i \in Named(FirstWord(CString(s)))
      BY <1>1, <2>2, CommandFinds
    <3>2. \A n \in ProgramsNamed(CString(s)) : n = Dentries[i].inode
      BY <3>1, OneProgram
    <3>3. ProgramsNamed(CString(s)) \subseteq DOMAIN ProgramOf
      BY DEF ProgramsNamed
    <3> QED BY <2>2, <3>2, <3>3 DEF IsExecutable
  <2> QED BY <1>1, <2>1, <2>2
<1>2. ppc' = "exited" /\ status' = -1 /\ refused' = no_pcb
  BY DEF Reject
<1>3. ASSUME NoNewLine(CString(s)) PROVE TellsTheTruth(status)'
  BY <1>1, <1>2, <1>3 DEF TellsTheTruth
<1> QED BY <1>2, <1>3 DEF StatusGood, ExitTellsTheTruth

\* Only the read of an empty file, as in filesys.c:161, overruns the array for
\* the magic bytes.
LEMMA MagicFits ==
  ASSUME NEW i \in DOMAIN Dentries, MagicOverruns(i)
  PROVE  Inodes[Dentries[i].inode].length = 0
<1> DEFINE n == Dentries[i].inode
<1>1. n \in DOMAIN Inodes
  BY DirectoryAssumption
<1>2. MAGIC_SIZE \in Nat /\ 0 + MAGIC_SIZE < WORD /\ 0 + MAGIC_SIZE > 0 /\ 0 \in Nat
  <2>1. MAGIC_SIZE \in 1 .. BLOCKSIZE /\ BLOCKSIZE \in Nat /\ WORD \in Nat
    BY ProgramsAssumption, ImageAssumption
  <2>2. BLOCKSIZE + LastStart(Inodes[n]) + 2 * Max(Chunks) < WORD
        /\ LastStart(Inodes[n]) \in Nat /\ Max(Chunks) \in Nat
    BY <1>1, FileSizes, LargestChunk
  <2> QED BY <2>1, <2>2
<1>3. Inodes[n].length \in Nat
  BY <1>1, FileSizes
<1>4. read_data(Inodes[n], 0, MAGIC_SIZE) \in Seq(Int)
  BY <1>1, <1>2, ReadType
<1>5. Len(read_data(Inodes[n], 0, MAGIC_SIZE)) > MAGIC_SIZE
  BY DEF MagicOverruns
<1> HIDE DEF n
<1>6. ASSUME Inodes[n].length > 0 PROVE FALSE
  <2>1. Len(read_data(Inodes[n], 0, MAGIC_SIZE)) <= MAGIC_SIZE
    BY <1>1, <1>2, <1>6, ReadFits
  <2>2. Len(read_data(Inodes[n], 0, MAGIC_SIZE)) \in Nat
    BY <1>4
  <2> QED BY <1>2, <1>5, <2>1, <2>2
<1>7. Inodes[n].length = 0
  BY <1>3, <1>6
<1> QED BY <1>7 DEF n

\* That read is one of those that ReadFitsBuffer allows for.
LEMMA MagicInv ==
  ASSUME FsInv, NEW i \in DOMAIN Dentries, MagicOverruns(i),
         overrun' = <<Dentries[i].inode, 0, MAGIC_SIZE>>,
         UNCHANGED <<fd_table, historyVars>>
  PROVE  FsInv'
<1>1. Inodes[overrun'[1]].length = 0
  BY MagicFits
<1>2. ReadFitsBuffer'
  BY <1>1 DEF ReadFitsBuffer
<1> QED BY <1>2 DEF FsInv, FsTypes, FdGood, FileGood, DirectoryGood, NamedGood, IsOpen, NodeOf,
                    historyVars

\* execute finds a program.
LEMMA ProgramStarts ==
  ASSUME NEW s, IsCommand(s), command' = s, NEW i \in DOMAIN Dentries,
         read_dentry_by_name(CommandName(s), i), IsExecutable(i),
         ppc' = ProgramOf[Dentries[i].inode]
  PROVE  ppc' \in Kinds /\ Runs(ppc)'
<1> DEFINE n == Dentries[i].inode
<1>1. ppc' \in Kinds
  BY ProgramsAssumption DEF IsExecutable, Kinds
<1>2. ASSUME NoNewLine(CString(s))
      PROVE  /\ ProgramsNamed(CString(s)) # {}
             /\ \A k \in ProgramsNamed(CString(s)) : ProgramOf[k] = ProgramOf[n]
  <2>1. i \in Named(FirstWord(CString(s)))
    BY <1>2, CommandFinds
  <2>2. n \in ProgramsNamed(CString(s))
    BY <2>1 DEF ProgramsNamed, IsExecutable
  <2>3. \A k \in ProgramsNamed(CString(s)) : k = n
    BY <2>1, OneProgram
  <2> QED BY <2>2, <2>3
<1> QED BY <1>1, <1>2 DEF Runs

\* execute puts a new command into the PCB, outside of getargs.
LEMMA NewCommand ==
  ASSUME ArgsInv, NEW s, IsCommand(s), args_pc[Me] = "user",
         user_buf' = [user_buf EXCEPT ![Me] = s],
         UNCHANGED <<arg_retrieved, args_pc, localVars, disturbed>>
  PROVE  ArgsInv' /\ user_buf'[Me] = s
<1>1. user_buf'[Me] = s /\ \A p \in Procs \ {Me} : user_buf'[p] = user_buf[p]
  BY Descriptors DEF ArgsInv, ArgsTypes
<1>2. ArgsTypes' /\ LastCell'
  BY <1>1 DEF ArgsInv, ArgsTypes, LastCell, localVars
<1>3. ASSUME NEW p \in Procs PROVE CallGood(p)'
  <2>1. CASE p = Me
    BY <2>1 DEF CallGood, InCopy, InStrncpy, LastCopied, Undisturbed, Cleared, Copying,
                Checking, Strncpying, Answered
  <2>2. CASE p # Me
    <3>1. user_buf'[p] = user_buf[p] /\ CallGood(p)
      BY <1>1, <1>3, <2>2 DEF ArgsInv
    <3> QED BY <3>1 DEF CallGood, InCopy, InStrncpy, LastCopied, Undisturbed, Cleared,
               Copying, Checking, Strncpying, Answered, localVars
  <2> QED BY <2>1, <2>2
<1> QED BY <1>1, <1>2, <1>3 DEF ArgsInv

\* A line of the shell.
LEMMA ShellInv ==
  ASSUME ProgInv, NEW line \in Lines, Shell(line)
  PROVE  ProgInv'
<1> DEFINE s == strncpy(WithoutNewline(line), USR_BUF_SIZE)
           found == {i \in DOMAIN Dentries : read_dentry_by_name(CommandName(s), i)}
<1>1. ppc = "shell" /\ UNCHANGED searched /\ command' = s /\ execute(s)
  BY DEF Shell, execute
<1>2. IsCommand(s) /\ strncpy(s, USR_BUF_SIZE) = s
  BY ShellCommand
<1>3. NothingOpen /\ args_pc[Me] = "user" /\ searched = <<>>
  BY <1>1 DEF ProgInv, ProgramGood
<1>4. \/ found = {} /\ Reject(FALSE)
      \/ \E i \in found : /\ MagicOverruns(i)
                          /\ overrun' = <<Dentries[i].inode, 0, MAGIC_SIZE>>
                          /\ UNCHANGED <<fd_table, historyVars, argsVars, ppc, refused>>
      \/ \E i \in found : ~IsExecutable(i) /\ Reject(FALSE)
      \/ Reject(TRUE)
      \/ \E i \in found : IsExecutable(i) /\ Start(s, i)
  BY <1>1 DEF execute
<1> HIDE DEF s
<1>5. ASSUME NEW no_pcb \in BOOLEAN, Reject(no_pcb),
             no_pcb \/ found = {} \/ \E i \in found : ~IsExecutable(i)
      PROVE  ProgInv'
  <2>1. FsInv' /\ ArgsInv' /\ ppc' = "exited"
    BY <1>5, SameInv, ArgsSame DEF ProgInv, Reject
  <2>2. StatusGood'
    BY <1>1, <1>2, <1>5, NoProgram
  <2>3. ProgramGood'
    BY <2>1 DEF ProgramGood, Kinds
  <2> QED BY <2>1, <2>2, <2>3 DEF ProgInv
<1>6. ASSUME NEW i \in found, MagicOverruns(i),
             overrun' = <<Dentries[i].inode, 0, MAGIC_SIZE>>,
             UNCHANGED <<fd_table, historyVars, argsVars, ppc, refused>>
      PROVE  ProgInv'
  <2>1. FsInv' /\ ArgsInv'
    BY <1>6, MagicInv, ArgsSame DEF ProgInv
  <2>2. ppc' = "shell" /\ NothingOpen' /\ args_pc'[Me] = "user" /\ searched' = <<>>
    BY <1>1, <1>3, <1>6 DEF NothingOpen, argsVars
  <2>3. ProgramGood'
    BY <2>2 DEF ProgramGood, Kinds
  <2>4. StatusGood'
    BY <1>1, <1>6, <2>2, Unrefused, NoStatus
  <2> QED BY <2>1, <2>3, <2>4 DEF ProgInv
<1>7. ASSUME NEW i \in found, IsExecutable(i), Start(s, i)
      PROVE  ProgInv'
  <2>1. /\ user_buf' = [user_buf EXCEPT ![Me] = s]
        /\ ppc' = ProgramOf[Dentries[i].inode] /\ UNCHANGED fsVars
        /\ UNCHANGED <<arg_retrieved, args_pc, localVars, disturbed>> /\ UNCHANGED refused
    BY <1>2, <1>7 DEF Start
  <2>2. ppc' \in Kinds /\ Runs(ppc)'
    BY <1>1, <1>2, <1>7, <2>1, ProgramStarts
  <2> HIDE DEF found
  <2>3. FsInv' /\ ArgsInv' /\ HasCommand'
    BY <1>1, <1>2, <1>3, <2>1, NewCommand, SameInv DEF ProgInv, HasCommand
  <2>4. NothingOpen' /\ args_pc'[Me] = "user" /\ searched' = <<>>
    BY <1>1, <1>3, <2>1 DEF NothingOpen, fsVars
  <2>5. Asked'
    BY <2>4 DEF Asked
  <2>6. ProgramGood'
    BY <2>2, <2>3, <2>4, <2>5 DEF ProgramGood, Kinds
  <2>7. StatusGood'
    BY <1>1, <2>1, <2>2, Unrefused, NoStatus DEF Kinds
  <2> QED BY <2>3, <2>6, <2>7 DEF ProgInv
<1> QED BY <1>4, <1>5, <1>6, <1>7

\* The shell ends.
LEMMA ShellExitInv ==
  ASSUME ProgInv, ShellExit
  PROVE  ProgInv'
<1>1. FsInv' /\ ArgsInv' /\ ppc' = "shell_exited" /\ ~refused'
  BY SameInv, ArgsSame, Unrefused DEF ProgInv, ShellExit, statusVars
<1> QED BY <1>1, NoStatus DEF ProgInv, ProgramGood, Kinds

\* cat or grep asks for its arguments.
LEMMA AskInv ==
  ASSUME ProgInv, AskArguments
  PROVE  ProgInv'
<1>1. /\ ppc \in {"cat", "grep"} /\ getargs(Me, USR_BUF_SIZE)
      /\ UNCHANGED fsVars /\ UNCHANGED progVars
  BY DEF AskArguments
<1>2. FsInv'
  BY <1>1, SameInv DEF ProgInv
<1>3. ArgsInv'
  <2>1. USR_BUF_SIZE \in 0 .. USR_BUF_SIZE
    BY ArgsAssumption
  <2> QED BY <1>1, <2>1, ArgsStepInv, Descriptors DEF ProgInv, ArgsStep
<1>4. args_nbytes'[Me] = USR_BUF_SIZE /\ user_buf' = user_buf
  BY <1>1, Descriptors DEF getargs, ProgInv, ArgsInv, ArgsTypes
<1>5. /\ ppc' = ppc /\ command' = command /\ searched' = searched /\ fd_table' = fd_table
      /\ refused' = refused
  BY <1>1 DEF progVars, statusVars, fsVars
<1>6. HasCommand /\ NothingOpen /\ Runs(ppc) /\ (ppc = "grep" => searched = <<>>)
  BY <1>1 DEF ProgInv, ProgramGood, Kinds
<1>7. HasCommand' /\ NothingOpen' /\ Runs(ppc)' /\ Asked'
  BY <1>4, <1>5, <1>6 DEF HasCommand, NothingOpen, Runs, Asked
<1>8. ProgramGood'
  BY <1>1, <1>5, <1>6, <1>7 DEF ProgramGood, Kinds
<1> QED BY <1>1, <1>2, <1>3, <1>5, <1>8, Unrefused, NoStatus DEF ProgInv

\* cat or grep has got no argument.
LEMMA FailInv ==
  ASSUME ProgInv, ArgumentsFail
  PROVE  ProgInv'
<1>1. /\ ppc \in {"cat", "grep"} /\ command' = command /\ args_pc[Me] = "done"
      /\ args_ret[Me] = -1 /\ ppc' = "halt" /\ exit_status' = 3
      /\ UNCHANGED fsVars /\ UNCHANGED argsVars /\ refused' = refused
  BY DEF ArgumentsFail, At, ExitWith, Finish, statusVars
<1>2. FsInv' /\ ArgsInv'
  BY <1>1, SameInv, ArgsSame DEF ProgInv
<1>3. Runs(ppc) /\ HasCommand /\ Asked
  BY <1>1 DEF ProgInv, ProgramGood, Kinds
<1>4. ~disturbed[Me] => ArgumentOf(command) = <<>>
  <2>1. OwnArgument
    BY ArgsInvImplies DEF ProgInv
  <2>2. user_buf[Me] = command /\ args_nbytes[Me] = USR_BUF_SIZE /\ USR_BUF_SIZE # 0
    BY <1>1, <1>3, ArgsAssumption DEF HasCommand, Asked
  <2>3. ASSUME ~disturbed[Me], ArgumentOf(command) # <<>> PROVE FALSE
    <3>1. args_ret[Me] = 0
      BY <1>1, <2>1, <2>2, <2>3, Descriptors DEF OwnArgument
    <3> QED BY <1>1, <3>1
  <2> QED BY <2>3
<1>5. disturbed' = disturbed
  BY <1>1 DEF argsVars
<1>6. Truth(exit_status)'
  <2> DEFINE P == ProgramsNamed(CString(command))
  <2>1. NoNewLine(CString(command)) => P # {} /\ \A n \in P : ProgramOf[n] \in {"cat", "grep"}
    BY <1>1, <1>3 DEF Runs
  <2> HIDE DEF P
  <2>2. P = ProgramsNamed(CString(command))
    BY DEF P
  <2>3. ~refused'
    BY <1>1, Unrefused
  <2> QED BY <1>1, <1>4, <1>5, <2>1, <2>2, <2>3 DEF Truth, TellsTheTruth
<1>7. ProgramGood'
  BY <1>1 DEF ProgramGood, Kinds
<1> QED BY <1>1, <1>2, <1>6, <1>7, Unrefused, FinishGood DEF ProgInv

\* The length that cat and grep ask for.
LEMMA BufferSize ==
  /\ BUFSIZE \in Nat \ {0} /\ BUFSIZE \in 0 .. Max(Chunks)
  /\ \A nbytes \in 1 .. BUFSIZE : nbytes \in 0 .. Max(Chunks)
<1>1. BUFSIZE \in Chunks /\ BUFSIZE # 0 /\ BUFSIZE \in Nat
  BY ProgramsAssumption, ImageAssumption
<1>2. BUFSIZE <= Max(Chunks) /\ Max(Chunks) \in Nat
  BY <1>1, LargestChunk
<1> QED BY <1>1, <1>2

\* A read leaves open what is open, and other descriptors alone.
LEMMA ReadEffect ==
  ASSUME FsInv, NEW fd \in Fds, NEW nbytes, read(fd, nbytes)
  PROVE  /\ opened_as' = opened_as
         /\ \A g \in Fds : /\ fd_table'[g].flags = fd_table[g].flags
                           /\ fd_table'[g].table_pointer = fd_table[g].table_pointer
                           /\ g # fd => got'[g] = got[g]
<1>1. ASSUME NEW items, NEW position, Read(fd, nbytes, items, position)
      PROVE  /\ opened_as' = opened_as
             /\ \A g \in Fds : /\ fd_table'[g].flags = fd_table[g].flags
                               /\ fd_table'[g].table_pointer = fd_table[g].table_pointer
                               /\ g # fd => got'[g] = got[g]
  BY <1>1 DEF Read, FsInv, FsTypes, FdRecord
<1>2. ASSUME UNCHANGED <<fd_table, historyVars>>
      PROVE  opened_as' = opened_as /\ fd_table' = fd_table /\ got' = got
  BY <1>2 DEF historyVars
<1>3. CASE file_read(fd, nbytes)
  BY <1>1, <1>2, <1>3 DEF file_read
<1>4. CASE directory_read(fd, nbytes)
  BY <1>1, <1>4 DEF directory_read
<1>5. CASE rtc_read(fd, nbytes)
  BY <1>1, <1>5 DEF rtc_read
<1> QED BY <1>3, <1>4, <1>5 DEF read

\* A descriptor of the directory holds the first entries, up to the last read.
LEMMA DirectoryRead ==
  ASSUME FsInv, NEW fd \in Fds, IsOpen(fd, "directory")
  PROVE  /\ Len(got[fd]) = fd_table[fd].file_position
         /\ Len(got[fd]) \in 0 .. Len(Dentries)
         /\ \A k \in 1 .. Len(got[fd]) : got[fd][k] = k
<1> DEFINE pos == fd_table[fd].file_position
<1>1. /\ pos \in Nat /\ pos <= Len(Dentries) /\ got[fd] = [k \in 1 .. pos |-> k]
      /\ Len(Dentries) \in Nat
  BY EntryType DEF FsInv, FsTypes, FdRecord, FdGood, DirectoryGood
<1> HIDE DEF pos
<1>2. Len(got[fd]) = pos /\ \A k \in 1 .. pos : got[fd][k] = k
  BY <1>1
<1> QED BY <1>1, <1>2 DEF pos

\* The next entry of the directory, or the end after the last one.
LEMMA NextEntry ==
  ASSUME FsInv, NEW fd \in Fds, IsOpen(fd, "directory"), read(fd, BUFSIZE)
  PROVE  \/ /\ ended'[fd] /\ got'[fd] = got[fd]
            /\ Len(got[fd]) = Len(Dentries)
         \/ /\ ~ended'[fd] /\ Len(got'[fd]) = Len(got[fd]) + 1
            /\ got'[fd][Len(got'[fd])] = Len(got'[fd])
            /\ Len(got'[fd]) \in DOMAIN Dentries
<1> DEFINE index == fd_table[fd].file_position
<1>1. /\ Len(got[fd]) = index /\ index \in 0 .. Len(Dentries) /\ Len(Dentries) \in Nat
      /\ got[fd] \in Seq(Int) /\ DOMAIN Dentries = 1 .. Len(Dentries)
  BY DirectoryRead, EntryType DEF FsInv, FsTypes
<1>2. directory_read(fd, BUFSIZE)
  BY DEF read, file_read, rtc_read, IsOpen
<1>3. CASE IndexPastEnd(index)
  <2>1. Read(fd, BUFSIZE, <<>>, index)
    BY <1>2, <1>3 DEF directory_read
  <2>2. ended'[fd] = (<<>> = <<>> /\ BUFSIZE # 0) /\ got'[fd] = got[fd] \o <<>>
    BY <2>1 DEF Read, FsInv, FsTypes
  <2>3. got[fd] \o <<>> = got[fd]
    BY <1>1
  <2>4. index = Len(Dentries)
    <3> DEFINE n == Len(Dentries)
    <3>1. index \in 0 .. n /\ n \in Nat /\ index > n - 1
      BY <1>1, <1>3 DEF IndexPastEnd
    <3> HIDE DEF index, n
    <3>2. index = n
      BY <3>1
    <3> QED BY <3>2 DEF n
  <2> QED BY <1>1, <2>2, <2>3, <2>4, BufferSize
<1>4. CASE ~IndexPastEnd(index)
  <2> DEFINE new == <<index + 1>>
  <2>1. Read(fd, BUFSIZE, new, index + 1)
    BY <1>2, <1>4 DEF directory_read
  <2>2. new # <<>> /\ new \in Seq(Int) /\ Len(new) = 1 /\ index + 1 \in Int
    BY <1>1
  <2>3. ended'[fd] = (new = <<>> /\ BUFSIZE # 0) /\ got'[fd] = got[fd] \o new
    <3> HIDE DEF new
    <3> QED BY <2>1 DEF Read, FsInv, FsTypes
  <2>4. Len(got[fd] \o new) = index + 1
    <3> HIDE DEF new
    <3>1. Len(got[fd] \o new) = Len(got[fd]) + Len(new)
      BY <1>1, <2>2, ConcatProperties
    <3> QED BY <1>1, <2>2, <3>1
  <2>5. (got[fd] \o new)[Len(got[fd]) + 1] = index + 1
    BY <1>1, <2>2, LastOfConcat
  <2>6. index + 1 \in DOMAIN Dentries
    <3> HIDE DEF index
    <3> QED BY <1>1, <1>4 DEF IndexPastEnd
  <2> HIDE DEF new
  <2> QED BY <1>1, <2>2, <2>3, <2>4, <2>5, <2>6
<1> QED BY <1>3, <1>4

\* A program opens its first file: what stays the same.
LEMMA OpenStep ==
  ASSUME ProgInv, NEW fname, NEW to, NEW st, IsFname(fname), OpenThen(fname, to, st)
  PROVE  /\ FsInv' /\ ArgsInv' /\ UNCHANGED argsVars
         /\ \/ open(fname) /\ ppc' = to
            \/ open_fails(fname) /\ ppc' = "halt" /\ exit_status' = st /\ UNCHANGED fsVars
<1>1. UNCHANGED argsVars
  BY DEF OpenThen, Continue
<1>2. ArgsInv'
  BY <1>1, ArgsSame DEF ProgInv
<1>3. CASE open(fname) /\ Continue(to)
  BY <1>1, <1>2, <1>3, OpenInv DEF ProgInv, Continue
<1>4. CASE open_fails(fname) /\ Finish(st)
  BY <1>1, <1>2, <1>4, SameInv DEF ProgInv, Finish, open_fails
<1> QED BY <1>3, <1>4 DEF OpenThen

\* cat opens its argument.
LEMMA CatOpenInv ==
  ASSUME ProgInv, CatOpen
  PROVE  ProgInv'
<1> DEFINE fname == args_buf[Me]
<1>1. /\ ppc = "cat" /\ command' = command /\ HasArguments
      /\ OpenThen(fname, "cat_read", 2) /\ refused' = refused
  BY DEF CatOpen, At, statusVars
<1>2. Runs("cat") /\ NothingOpen /\ GotArgument
  BY <1>1 DEF ProgInv, ProgramGood, Kinds, Asked, GotArgument, HasArguments
<1>3. /\ IsFname(fname)
      /\ ~disturbed[Me] => ArgumentOf(command) # <<>> /\ CString(fname) = ArgumentOf(command)
  BY <1>2, ArgumentAtHand DEF ProgInv
<1>4. /\ FsInv' /\ ArgsInv' /\ UNCHANGED argsVars
      /\ \/ open(fname) /\ ppc' = "cat_read"
         \/ open_fails(fname) /\ ppc' = "halt" /\ exit_status' = 2
  BY <1>1, <1>3, OpenStep
<1>5. Runs("cat")' /\ GotArgument' /\ disturbed' = disturbed /\ args_buf' = args_buf
  BY <1>1, <1>2, <1>4 DEF Runs, GotArgument, HasCommand, HasArguments, argsVars, localVars
<1>6. CASE open(fname) /\ ppc' = "cat_read"
  <2>1. fd_table'[2].flags = 1 /\ opened_as'[2] = CString(fname)
    BY <1>2, <1>3, <1>6, FirstOpen DEF ProgInv, IsOpen
  <2>2. ProgramGood'
    BY <1>5, <1>6, <2>1 DEF ProgramGood, Kinds
  <2> QED BY <1>1, <1>4, <1>6, <2>2, Unrefused, NoStatus DEF ProgInv
<1>7. CASE open_fails(fname) /\ ppc' = "halt" /\ exit_status' = 2
  <2>1. Named(CString(fname)) = {}
    BY <1>2, <1>3, <1>7, FirstOpenFails
  <2>2. ~refused'
    BY <1>1, Unrefused
  <2>3. Truth(exit_status)'
    BY <1>1, <1>2, <1>3, <1>5, <1>7, <2>1, <2>2 DEF Truth, TellsTheTruth, Runs
  <2>4. ProgramGood'
    BY <1>7 DEF ProgramGood, Kinds
  <2> QED BY <1>4, <1>7, <2>2, <2>3, <2>4, FinishGood DEF ProgInv
<1> QED BY <1>4, <1>6, <1>7

\* ls opens the directory.
LEMMA LsOpenInv ==
  ASSUME ProgInv, LsOpen
  PROVE  ProgInv'
<1>1. /\ ppc = "ls" /\ command' = command /\ OpenThen(ThisDirectory, "ls_read", 2)
      /\ refused' = refused
  BY DEF LsOpen, At, statusVars
<1>2. Runs("ls") /\ NothingOpen
  BY <1>1 DEF ProgInv, ProgramGood, Kinds
<1>3. FsInv' /\ ArgsInv' /\ open(ThisDirectory) /\ ppc' = "ls_read"
  BY <1>1, <1>2, OpenNames, OpenStep, DirectoryOpens
<1>4. IsOpen(2, "directory")'
  BY <1>2, <1>3, DirectoryOpened DEF ProgInv
<1>5. Runs("ls")'
  BY <1>1, <1>2 DEF Runs
<1>6. ProgramGood'
  BY <1>3, <1>4, <1>5 DEF ProgramGood, Kinds
<1> QED BY <1>1, <1>3, <1>6, Unrefused, NoStatus DEF ProgInv

\* Nothing has been searched when grep begins.
LEMMA NothingSearched ==
  ASSUME searched' = <<>>
  PROVE  SearchedTo(0)'
<1>1. {i \in Plain : i <= 0} = {}
  BY EntryType DEF Plain
<1>2. Lists(<<>>, {})
  BY DEF Lists
<1>3. <<>> \in Seq(Nat)
  OBVIOUS
<1>4. searched' \in Seq(Nat) /\ Lists(searched', {i \in Plain : i <= 0})
  BY <1>1, <1>2, <1>3
<1> QED BY <1>4 DEF SearchedTo, Lists

\* grep opens the directory.
LEMMA GrepOpenInv ==
  ASSUME ProgInv, GrepOpen
  PROVE  ProgInv'
<1>1. /\ ppc = "grep" /\ command' = command /\ searched' = searched /\ HasArguments
      /\ OpenThen(ThisDirectory, "grep_dir", 2) /\ refused' = refused
  BY DEF GrepOpen, At, statusVars
<1>2. Runs("grep") /\ NothingOpen /\ GotArgument /\ searched = <<>>
  BY <1>1 DEF ProgInv, ProgramGood, Kinds, Asked, GotArgument, HasArguments
<1>3. FsInv' /\ ArgsInv' /\ open(ThisDirectory) /\ ppc' = "grep_dir" /\ UNCHANGED argsVars
  BY <1>1, <1>2, OpenNames, OpenStep, DirectoryOpens
<1>4. IsOpen(2, "directory")' /\ got'[2] = <<>> /\ fd_table'[3].flags = 0
  BY <1>2, <1>3, DirectoryOpened DEF ProgInv
<1>5. Runs("grep")' /\ GotArgument'
  BY <1>1, <1>2, <1>3 DEF Runs, GotArgument, HasCommand, HasArguments, argsVars, localVars
<1>6. SearchedTo(Len(got[2]))'
  <2>1. Len(got'[2]) = 0
    BY <1>4
  <2>2. SearchedTo(0)'
    BY <1>1, <1>2, NothingSearched
  <2> QED BY <2>1, <2>2 DEF SearchedTo
<1>7. ProgramGood'
  BY <1>3, <1>4, <1>5, <1>6 DEF ProgramGood, Kinds, Grepping
<1> QED BY <1>1, <1>3, <1>7, Unrefused, NoStatus DEF ProgInv

\* The read loops of cat and ls.
LEMMA ReadLoopInv ==
  ASSUME ProgInv, ReadLoop
  PROVE  ProgInv'
<1>1. /\ ppc \in {"cat_read", "ls_read"} /\ command' = command
      /\ read(2, BUFSIZE) /\ UNCHANGED argsVars
      /\ IF ended'[2] THEN ppc' = "halt" /\ exit_status' = 0 ELSE ppc' = ppc
      /\ refused' = refused
  BY DEF ReadLoop, At, Finish, statusVars
<1>2. FsInv' /\ ArgsInv'
  BY <1>1, ReadInv, BufferSize, Descriptors, ArgsSame DEF ProgInv
<1>3. /\ opened_as' = opened_as /\ fd_table'[2].flags = fd_table[2].flags
      /\ fd_table'[2].table_pointer = fd_table[2].table_pointer
  BY <1>1, ReadEffect, Descriptors DEF ProgInv
<1>4. disturbed' = disturbed /\ args_buf' = args_buf
  BY <1>1 DEF argsVars, localVars
<1>5. CASE ppc = "cat_read"
  <2>1. /\ Runs("cat") /\ GotArgument
        /\ fd_table[2].flags = 1 /\ opened_as[2] = CString(args_buf[Me])
    BY <1>5 DEF ProgInv, ProgramGood
  <2>2. Runs("cat")' /\ GotArgument'
    BY <1>1, <2>1 DEF Runs, GotArgument, HasCommand, HasArguments, argsVars, localVars
  <2>3. CASE ~ended'[2]
    <3>1. ppc' = "cat_read"
      BY <1>1, <1>5, <2>3
    <3>2. ProgramGood'
      BY <1>3, <1>4, <2>1, <2>2, <3>1 DEF ProgramGood, Kinds
    <3> QED BY <1>1, <1>2, <3>1, <3>2, Unrefused, NoStatus DEF ProgInv
  <2>4. CASE ended'[2]
    <3>1. ppc' = "halt" /\ exit_status' = 0 /\ ~refused'
      BY <1>1, <2>4, Unrefused
    <3>2. ~disturbed[Me] => ArgumentOf(command) # <<>> /\ opened_as[2] = ArgumentOf(command)
      BY <2>1, ArgumentAtHand DEF ProgInv
    <3>3. Named(opened_as[2]) # {}
      <4>1. NamedGood(2)
        BY Descriptors DEF ProgInv, FsInv, FdGood
      <4> QED BY <2>1, <4>1 DEF NamedGood, Named, EntryName
    <3>4. Truth(exit_status)'
      BY <1>1, <1>3, <1>4, <2>1, <2>4, <3>1, <3>2, <3>3 DEF Truth, TellsTheTruth, Runs
    <3>5. ProgramGood'
      BY <3>1 DEF ProgramGood, Kinds
    <3> QED BY <1>2, <3>1, <3>4, <3>5, FinishGood DEF ProgInv
  <2> QED BY <2>3, <2>4
<1>6. CASE ppc = "ls_read"
  <2>1. Runs("ls") /\ IsOpen(2, "directory")
    BY <1>6 DEF ProgInv, ProgramGood
  <2>2. Runs("ls")' /\ IsOpen(2, "directory")'
    BY <1>1, <1>3, <2>1 DEF Runs, IsOpen
  <2>3. CASE ~ended'[2]
    <3>1. ppc' = "ls_read"
      BY <1>1, <1>6, <2>3
    <3>2. ProgramGood'
      BY <2>2, <3>1 DEF ProgramGood, Kinds
    <3> QED BY <1>1, <1>2, <3>1, <3>2, Unrefused, NoStatus DEF ProgInv
  <2>4. CASE ended'[2]
    <3>1. ppc' = "halt" /\ exit_status' = 0 /\ ~refused'
      BY <1>1, <2>4, Unrefused
    <3>2. got'[2] = [k \in 1 .. Len(Dentries) |-> k]
      <4>1. DirectoryGood(2)'
        BY <1>2, Descriptors DEF FsInv, FdGood
      <4> QED BY <2>2, <2>4, <4>1 DEF DirectoryGood
    <3>3. Truth(exit_status)'
      BY <1>1, <2>1, <3>1, <3>2 DEF Truth, TellsTheTruth, Runs
    <3>4. ProgramGood'
      BY <3>1 DEF ProgramGood, Kinds
    <3> QED BY <1>2, <3>1, <3>3, <3>4, FinishGood DEF ProgInv
  <2> QED BY <2>3, <2>4
<1> QED BY <1>1, <1>5, <1>6

\* An entry whose name begins with a dot is passed by.
LEMMA PassedBy ==
  ASSUME NEW n \in Nat, SearchedTo(n), n + 1 \notin Plain
  PROVE  SearchedTo(n + 1)
<1>1. \A i \in Plain : i <= n + 1 <=> i <= n
  BY EntryType DEF Plain
<1>2. {i \in Plain : i <= n + 1} = {i \in Plain : i <= n}
  BY <1>1
<1> QED BY <1>2 DEF SearchedTo

\* An entry has been searched.
LEMMA SearchedOne ==
  ASSUME NEW n \in Nat, SearchedTo(n - 1), n \in Plain, searched' = Append(searched, n)
  PROVE  SearchedTo(n)'
<1> DEFINE old == searched
           new == searched'
           S == {i \in Plain : i <= n - 1}
<1>1. old \in Seq(Nat) /\ Lists(old, S)
  BY DEF SearchedTo
<1>2. /\ {old[k] : k \in DOMAIN old} = S
      /\ \A j, k \in DOMAIN old : j < k => old[j] < old[k]
  BY <1>1 DEF Lists
<1> HIDE DEF S
<1>3. /\ new \in Seq(Nat) /\ Len(old) \in Nat /\ DOMAIN old = 1 .. Len(old)
      /\ DOMAIN new = 1 .. Len(old) + 1 /\ new[Len(old) + 1] = n
      /\ \A k \in 1 .. Len(old) : new[k] = old[k]
  BY <1>1
<1>4. \A k \in DOMAIN old : old[k] \in Plain /\ old[k] \in Nat /\ old[k] < n
  <2> TAKE k \in DOMAIN old
  <2>1. old[k] \in S
    BY <1>2
  <2>2. old[k] \in Plain /\ old[k] <= n - 1
    BY <2>1 DEF S
  <2>3. old[k] \in Nat
    BY <2>2, EntryType DEF Plain
  <2> QED BY <2>2, <2>3
<1>5. {new[k] : k \in DOMAIN new} = {i \in Plain : i <= n}
  <2>1. ASSUME NEW k \in DOMAIN new PROVE new[k] \in Plain /\ new[k] <= n
    <3>1. CASE k = Len(old) + 1
      BY <1>3, <3>1
    <3>2. CASE k # Len(old) + 1
      <4>1. k \in DOMAIN old /\ new[k] = old[k]
        BY <1>3, <2>1, <3>2
      <4> QED BY <1>4, <4>1
    <3> QED BY <3>1, <3>2
  <2>2. ASSUME NEW i \in Plain, i <= n PROVE \E k \in DOMAIN new : new[k] = i
    <3>1. i \in Nat
      BY EntryType DEF Plain
    <3>2. CASE i = n
      <4>1. Len(old) + 1 \in DOMAIN new
        BY <1>3
      <4> QED BY <1>3, <3>2, <4>1
    <3>3. CASE i # n
      <4>1. i \in S
        BY <2>2, <3>1, <3>3 DEF S
      <4>2. PICK k \in DOMAIN old : old[k] = i
        BY <1>2, <4>1
      <4>3. k \in DOMAIN new /\ new[k] = i
        BY <1>3, <4>2
      <4> QED BY <4>3
    <3> QED BY <3>2, <3>3
  <2> QED BY <2>1, <2>2
<1>6. \A j, k \in DOMAIN new : j < k => new[j] < new[k]
  <2> SUFFICES ASSUME NEW j \in DOMAIN new, NEW k \in DOMAIN new, j < k PROVE new[j] < new[k]
    OBVIOUS
  <2>1. j \in DOMAIN old /\ new[j] = old[j]
    BY <1>3
  <2>2. CASE k = Len(old) + 1
    BY <1>3, <1>4, <2>1, <2>2
  <2>3. CASE k # Len(old) + 1
    <3>1. k \in DOMAIN old /\ new[k] = old[k]
      BY <1>3, <2>3
    <3> QED BY <1>2, <2>1, <3>1
  <2> QED BY <2>2, <2>3
<1> QED BY <1>3, <1>5, <1>6 DEF SearchedTo, Lists

\* grep comes to the next entry, or to the end of the directory.
LEMMA GrepNextInv ==
  ASSUME ProgInv, GrepNext
  PROVE  ProgInv'
<1> DEFINE n == Len(got[2])
<1>1. /\ ppc = "grep_dir" /\ command' = command /\ searched' = searched
      /\ read(2, BUFSIZE) /\ UNCHANGED argsVars
      /\ refused' = refused
      /\ IF ended'[2] THEN ppc' = "halt" /\ exit_status' = 0
         ELSE ppc' = IF Dentries[got'[2][Len(got'[2])]].name[1] = Dot
                       THEN "grep_dir" ELSE "grep_open"
  BY DEF GrepNext, At, Finish, statusVars
<1>2. FsInv' /\ ArgsInv'
  BY <1>1, ReadInv, BufferSize, Descriptors, ArgsSame DEF ProgInv
<1>3. /\ Runs("grep") /\ GotArgument /\ IsOpen(2, "directory")
      /\ fd_table[3].flags = 0 /\ SearchedTo(n)
  BY <1>1 DEF ProgInv, ProgramGood, Grepping
<1>4. IsOpen(2, "directory")' /\ fd_table'[3].flags = 0
  BY <1>1, <1>3, ReadEffect, Descriptors DEF ProgInv, IsOpen
<1>5. Grepping'
  BY <1>1, <1>3, <1>4 DEF Runs, GotArgument, HasCommand, HasArguments, argsVars, localVars,
                          Grepping
<1>6. n \in Nat
  BY <1>3, Descriptors DEF ProgInv, FsInv, FsTypes
<1>7. \/ ended'[2] /\ got'[2] = got[2] /\ n = Len(Dentries)
      \/ /\ ~ended'[2] /\ Len(got'[2]) = n + 1 /\ got'[2][Len(got'[2])] = Len(got'[2])
         /\ Len(got'[2]) \in DOMAIN Dentries
  BY <1>1, <1>3, NextEntry, Descriptors DEF ProgInv
<1> HIDE DEF n
<1>8. CASE ended'[2]
  <2>1. ppc' = "halt" /\ exit_status' = 0 /\ n = Len(Dentries) /\ ~refused'
    BY <1>1, <1>7, <1>8, Unrefused
  <2>2. {i \in Plain : i <= n} = Plain
    BY <2>1, EntryType DEF Plain
  <2>3. Lists(searched', Plain)
    BY <1>1, <1>3, <2>2 DEF SearchedTo
  <2>4. ~disturbed[Me] => ArgumentOf(command) # <<>>
    BY <1>3, ArgumentAtHand DEF ProgInv
  <2>5. disturbed' = disturbed
    BY <1>1 DEF argsVars
  <2>6. Truth(exit_status)'
    BY <1>1, <1>3, <2>1, <2>3, <2>4, <2>5 DEF Truth, TellsTheTruth, Runs
  <2>7. ProgramGood'
    BY <2>1 DEF ProgramGood, Kinds
  <2> QED BY <1>2, <2>1, <2>6, <2>7, FinishGood DEF ProgInv
<1>9. CASE ~ended'[2]
  <2>1. Len(got'[2]) = n + 1 /\ n + 1 \in DOMAIN Dentries
        /\ got'[2][Len(got'[2])] = n + 1
    BY <1>7, <1>9
  <2>2. CASE Dentries[n + 1].name[1] = Dot
    <3>1. ppc' = "grep_dir"
      BY <1>1, <1>9, <2>1, <2>2
    <3>2. SearchedTo(n + 1)
      BY <1>3, <1>6, <2>2, PassedBy DEF Plain
    <3>3. SearchedTo(Len(got[2]))'
      BY <1>1, <2>1, <3>2 DEF SearchedTo
    <3>4. ProgramGood'
      BY <1>4, <1>5, <3>1, <3>3 DEF ProgramGood, Kinds
    <3> QED BY <1>1, <1>2, <3>1, <3>4, Unrefused, NoStatus DEF ProgInv
  <2>3. CASE Dentries[n + 1].name[1] # Dot
    <3>1. ppc' = "grep_open"
      BY <1>1, <1>9, <2>1, <2>3
    <3>2. n + 1 \in Plain /\ (n + 1) - 1 = n
      BY <1>6, <2>1, <2>3 DEF Plain
    <3>3. Len(got'[2]) \in Plain /\ SearchedTo(Len(got[2]) - 1)'
      BY <1>1, <1>3, <2>1, <3>2 DEF SearchedTo
    <3>4. ProgramGood'
      BY <1>4, <1>5, <3>1, <3>3 DEF ProgramGood, Kinds
    <3> QED BY <1>1, <1>2, <3>1, <3>4, Unrefused, NoStatus DEF ProgInv
  <2> QED BY <2>2, <2>3
<1> QED BY <1>8, <1>9

\* The entry that grep has read last.
LEMMA AtHand ==
  ASSUME FsInv, IsOpen(2, "directory"), Len(got[2]) \in Plain
  PROVE  EntryAtHand = Len(got[2]) /\ Len(got[2]) \in DOMAIN Dentries /\ Len(got[2]) \in Nat
<1>1. Len(got[2]) \in DOMAIN Dentries /\ Len(got[2]) \in Nat
  BY EntryType DEF Plain
<1>2. Len(got[2]) \in 1 .. Len(got[2])
  BY <1>1, EntryType
<1> QED BY <1>1, <1>2, DirectoryRead, Descriptors DEF EntryAtHand

\* grep opens the file.
LEMMA GrepOpenFileInv ==
  ASSUME ProgInv, GrepOpenFile
  PROVE  ProgInv'
<1> DEFINE fname == strncpy(Dentries[EntryAtHand].name, USR_BUF_SIZE)
<1>1. /\ ppc = "grep_open" /\ command' = command /\ searched' = searched
      /\ OpenThen(fname, "grep_read", 3) /\ refused' = refused
  BY DEF GrepOpenFile, At, statusVars
<1>2. /\ Runs("grep") /\ GotArgument /\ IsOpen(2, "directory") /\ fd_table[3].flags = 0
      /\ Len(got[2]) \in Plain /\ SearchedTo(Len(got[2]) - 1)
  BY <1>1 DEF ProgInv, ProgramGood, Grepping
<1>3. EntryAtHand \in DOMAIN Dentries /\ fd_table[2].flags = 1
  BY <1>2, AtHand DEF ProgInv, IsOpen
<1>4. IsFname(fname) /\ ~open_fails(fname)
  BY <1>2, <1>3, OpenNames, SecondOpens
<1>5. FsInv' /\ ArgsInv' /\ UNCHANGED argsVars /\ open(fname) /\ ppc' = "grep_read"
  <2> HIDE DEF fname
  <2> QED BY <1>1, <1>4, OpenStep
<1>6. fd_table'[2] = fd_table[2] /\ got'[2] = got[2]
  BY <1>2, <1>3, <1>5, SecondOpen DEF ProgInv
<1> HIDE DEF fname
<1>7. Grepping' /\ Len(got'[2]) \in Plain /\ SearchedTo(Len(got[2]) - 1)'
  BY <1>1, <1>2, <1>5, <1>6 DEF Runs, GotArgument, HasCommand, HasArguments, argsVars,
                                localVars, Grepping, IsOpen, SearchedTo
<1>8. ProgramGood'
  BY <1>5, <1>7 DEF ProgramGood, Kinds
<1> QED BY <1>1, <1>5, <1>8, Unrefused, NoStatus DEF ProgInv

\* grep reads the file.
LEMMA GrepReadInv ==
  ASSUME ProgInv, GrepRead
  PROVE  ProgInv'
<1>1. PICK nbytes \in 1 .. BUFSIZE : read(3, nbytes)
  BY DEF GrepRead
<1>2. /\ ppc = "grep_read" /\ command' = command /\ searched' = searched
      /\ UNCHANGED argsVars /\ ppc' \in {"grep_close", "grep_read"} /\ refused' = refused
  BY DEF GrepRead, At, Continue, statusVars
<1>3. FsInv' /\ ArgsInv'
  BY <1>1, <1>2, ReadInv, BufferSize, Descriptors, ArgsSame DEF ProgInv
<1>4. /\ Runs("grep") /\ GotArgument /\ IsOpen(2, "directory")
      /\ Len(got[2]) \in Plain /\ SearchedTo(Len(got[2]) - 1)
  BY <1>2 DEF ProgInv, ProgramGood, Grepping
<1>5. /\ fd_table'[2].flags = fd_table[2].flags
      /\ fd_table'[2].table_pointer = fd_table[2].table_pointer /\ got'[2] = got[2]
  <2>1. 2 # 3
    OBVIOUS
  <2> QED BY <1>1, <2>1, ReadEffect, Descriptors DEF ProgInv
<1>6. Grepping' /\ Len(got'[2]) \in Plain /\ SearchedTo(Len(got[2]) - 1)'
  BY <1>2, <1>4, <1>5 DEF Runs, GotArgument, HasCommand, HasArguments, argsVars,
                          localVars, Grepping, IsOpen, SearchedTo
<1>7. ProgramGood'
  BY <1>2, <1>6 DEF ProgramGood, Kinds
<1> QED BY <1>2, <1>3, <1>7, Unrefused, NoStatus DEF ProgInv

\* grep closes the file and goes on.
LEMMA GrepCloseInv ==
  ASSUME ProgInv, GrepClose
  PROVE  ProgInv'
<1> DEFINE n == Len(got[2])
<1>1. /\ ppc = "grep_close" /\ command' = command /\ close(3)
      /\ searched' = Append(searched, EntryAtHand)
      /\ UNCHANGED argsVars /\ ppc' = "grep_dir" /\ refused' = refused
  BY DEF GrepClose, Continue, statusVars
<1>2. FsInv' /\ ArgsInv'
  BY <1>1, CloseInv, Descriptors, ArgsSame DEF ProgInv
<1>3. /\ Runs("grep") /\ GotArgument /\ IsOpen(2, "directory")
      /\ n \in Plain /\ SearchedTo(n - 1)
  BY <1>1 DEF ProgInv, ProgramGood, Grepping
<1>4. EntryAtHand = n /\ n \in Nat
  BY <1>3, AtHand DEF ProgInv
<1>5. fd_table'[2] = fd_table[2] /\ got'[2] = got[2] /\ fd_table'[3].flags = 0
  BY <1>1, Descriptors DEF close, Closing, Closed, ProgInv, FsInv, FsTypes
<1>6. PICK m \in Nat : m = n
  BY <1>4
<1> HIDE DEF n
<1>7. SearchedTo(m)'
  BY <1>1, <1>3, <1>4, <1>6, SearchedOne
<1>8. SearchedTo(Len(got[2]))'
  BY <1>5, <1>6, <1>7 DEF n, SearchedTo
<1>9. Grepping'
  BY <1>1, <1>3, <1>5 DEF Runs, GotArgument, HasCommand, HasArguments, argsVars,
                          localVars, Grepping, IsOpen
<1>10. ProgramGood'
  BY <1>1, <1>5, <1>8, <1>9 DEF ProgramGood, Kinds
<1> QED BY <1>1, <1>2, <1>10, Unrefused, NoStatus DEF ProgInv

\* Any other program.
LEMMA OtherInv ==
  ASSUME ProgInv, OtherProgram
  PROVE  ProgInv'
<1>1. /\ ppc = "other" /\ command' = command /\ UNCHANGED argsVars /\ refused' = refused
      /\ (FsNext /\ UNCHANGED ppc) \/ (ppc' = "halt" /\ UNCHANGED fsVars)
  BY DEF OtherProgram, At, Finish, statusVars
<1>2. FsInv' /\ ArgsInv'
  BY <1>1, FsNextInv, ArgsSame DEF ProgInv
<1>3. Runs("other") /\ ~refused'
  BY <1>1, Unrefused DEF ProgInv, ProgramGood, Kinds
<1>4. CASE ppc' = ppc
  <2>1. Runs("other")' /\ ppc' = "other"
    BY <1>1, <1>3, <1>4 DEF Runs
  <2>2. ProgramGood'
    BY <2>1 DEF ProgramGood, Kinds
  <2> QED BY <1>2, <1>3, <2>1, <2>2, NoStatus DEF ProgInv
<1>5. CASE ppc' = "halt"
  <2>1. Truth(exit_status)'
    BY <1>1, <1>3 DEF Truth, Runs, TellsTheTruth
  <2>2. ProgramGood'
    BY <1>5 DEF ProgramGood, Kinds
  <2> QED BY <1>2, <1>3, <1>5, <2>1, <2>2, FinishGood DEF ProgInv
<1> QED BY <1>1, <1>4, <1>5

\* The loop over the descriptors in halt keeps the invariants of files and of
\* arguments.
LEMMA CloseAllInv ==
  ASSUME ProgInv, CloseAll
  PROVE  FsInv' /\ ArgsInv' /\ ProgramGood'
<1>1. /\ fd_table' = [fd \in Fds |-> IF fd_table[fd].flags = 1 THEN Closing(fd) ELSE fd_table[fd]]
      /\ opened_as' = opened_as /\ got' = got /\ ended' = ended /\ overrun' = overrun
      /\ ppc' = "exec_ret" /\ UNCHANGED argsVars
  BY DEF CloseAll, historyVars
<1>2. ASSUME NEW fd \in Fds PROVE fd_table'[fd] \in FdRecord /\ fd_table'[fd].flags = 0
  <2>1. fd_table[fd] \in FdRecord /\ fd_table[fd].flags \in {0, 1}
    BY DEF ProgInv, FsInv, FsTypes, FdRecord
  <2>2. Closing(fd) \in FdRecord /\ Closing(fd).flags = 0
    BY DEF Closing, Closed, FdRecord, NoTable
  <2> QED BY <1>1, <2>1, <2>2
<1>3. FsTypes'
  BY <1>1, <1>2 DEF ProgInv, FsInv, FsTypes
<1>4. \A fd \in Fds : FdGood(fd)'
  BY <1>2 DEF FdGood, FileGood, DirectoryGood, NamedGood, IsOpen
<1>5. FsInv'
  BY <1>1, <1>3, <1>4 DEF ProgInv, FsInv, ReadFitsBuffer
<1>6. ArgsInv'
  BY <1>1, ArgsSame DEF ProgInv
<1>7. ProgramGood'
  BY <1>1 DEF ProgramGood, Kinds
<1> QED BY <1>5, <1>6, <1>7

\* halt hands the status over.
LEMMA HaltInv ==
  ASSUME ProgInv, halt
  PROVE  ProgInv'
<1>1. FsInv' /\ ArgsInv' /\ ProgramGood'
  BY CloseAllInv DEF halt
<1>2. /\ ppc = "halt" /\ ppc' = "exec_ret" /\ ret_status' = SignExtend8(exit_status)
      /\ opened_as' = opened_as /\ got' = got /\ ended' = ended /\ disturbed' = disturbed
      /\ command' = command /\ searched' = searched /\ refused' = refused
  BY DEF halt, CloseAll, historyVars, argsVars
<1>3. Truth(exit_status)
  BY <1>2 DEF ProgInv, StatusGood
<1>4. exit_status \in {-1, 0, 2, 3} => ret_status' = exit_status
  BY <1>2 DEF SignExtend8
<1>5. Truth(ret_status)'
  <2>1. CASE exit_status \in {-1, 0, 2, 3}
    BY <1>2, <1>3, <1>4, <2>1 DEF Truth, TellsTheTruth
  <2>2. CASE exit_status \notin {-1, 0, 2, 3}
    <3>1. ~refused'
      BY <1>2, Unrefused
    <3>2. NoNewLine(CString(command)) =>
            /\ ProgramsNamed(CString(command)) # {}
            /\ \A n \in ProgramsNamed(CString(command)) : ProgramOf[n] = "other"
      BY <1>3, <2>2 DEF Truth, TellsTheTruth
    <3> QED BY <1>2, <3>1, <3>2 DEF Truth, TellsTheTruth
  <2> QED BY <2>1, <2>2
<1>6. StatusGood'
  <2>1. ~refused'
    BY <1>2, Unrefused
  <2> QED BY <1>2, <1>5, <2>1 DEF StatusGood, ExitTellsTheTruth
<1> QED BY <1>1, <1>6 DEF ProgInv

\* An exception leaves a status behind that is not the program's.
LEMMA ExceptionInv ==
  ASSUME ProgInv, halt_exception
  PROVE  ProgInv'
<1>1. FsInv' /\ ArgsInv' /\ ProgramGood'
  BY CloseAllInv DEF halt_exception
<1>2. ppc = "other" /\ ppc' = "exec_ret" /\ command' = command /\ refused' = refused
  BY DEF halt_exception, CloseAll
<1>3. Runs("other") /\ ~refused'
  BY <1>2, Unrefused DEF ProgInv, ProgramGood, Kinds
<1>4. Truth(ret_status)'
  BY <1>2, <1>3 DEF Truth, Runs, TellsTheTruth
<1> QED BY <1>1, <1>2, <1>3, <1>4 DEF ProgInv, StatusGood, ExitTellsTheTruth

\* execute returns to the shell.
LEMMA ReturnInv ==
  ASSUME ProgInv, exec_ret
  PROVE  ProgInv'
<1>1. FsInv' /\ ArgsInv'
  BY SameInv, ArgsSame DEF ProgInv, exec_ret
<1>2. /\ ppc = "exec_ret" /\ ppc' = "exited" /\ status' = ret_status
      /\ opened_as' = opened_as /\ got' = got /\ ended' = ended /\ disturbed' = disturbed
      /\ command' = command /\ searched' = searched /\ refused' = refused
      /\ overwritten' = overwritten
  BY DEF exec_ret, fsVars, historyVars, argsVars, statusVars
<1>3. ~overwritten => Truth(ret_status)
  BY <1>2 DEF ProgInv, StatusGood
<1>4. StatusGood'
  BY <1>2, <1>3 DEF StatusGood, ExitTellsTheTruth, Truth, TellsTheTruth
<1>5. ProgramGood'
  BY <1>2 DEF ProgramGood, Kinds
<1> QED BY <1>1, <1>4, <1>5 DEF ProgInv

\* What a step that leaves the terminal alone keeps.
LEMMA TerminalSame ==
  ASSUME ProgInv, UNCHANGED <<fsVars, argsVars, ppc, command, searched>>
  PROVE  FsInv' /\ ArgsInv' /\ ProgramGood'
<1>1. FsInv' /\ ArgsInv'
  BY SameInv, ArgsSame DEF ProgInv
<1>2. /\ UNCHANGED <<fd_table, opened_as, got, ended, ppc, command, searched>>
      /\ UNCHANGED <<user_buf, args_pc, args_nbytes, args_buf, args_ret>>
  BY DEF fsVars, historyVars, argsVars, localVars
<1>3. ProgramGood
  BY DEF ProgInv
<1>4. ProgramGood'
  BY <1>2, <1>3 DEF ProgramGood, NothingOpen, HasCommand, Asked, GotArgument,
                    HasArguments, Grepping, Runs, IsOpen, SearchedTo
<1> QED BY <1>1, <1>4

\* A program of another terminal halts.
LEMMA OtherHaltsInv ==
  ASSUME ProgInv, OtherHalts
  PROVE  ProgInv'
<1>1. FsInv' /\ ArgsInv' /\ ProgramGood'
  BY TerminalSame DEF OtherHalts
<1>2. /\ overwritten' = (overwritten \/ ppc = "exec_ret")
      /\ opened_as' = opened_as /\ got' = got /\ ended' = ended /\ disturbed' = disturbed
      /\ command' = command /\ searched' = searched /\ refused' = refused
      /\ ppc' = ppc /\ exit_status' = exit_status /\ status' = status
  BY DEF OtherHalts, fsVars, historyVars, argsVars
<1>3. StatusGood
  BY DEF ProgInv
<1>4. StatusGood'
  BY <1>2, <1>3 DEF StatusGood, ExitTellsTheTruth, Truth, TellsTheTruth
<1> QED BY <1>1, <1>4 DEF ProgInv

\* getargs calls, the terminal's own and those of others.
LEMMA ArgumentsInv ==
  ASSUME ProgInv, Arguments
  PROVE  ProgInv'
<1>1. UNCHANGED fsVars /\ UNCHANGED progVars
  BY DEF Arguments
<1>2. PICK p \in Procs : ArgsStep(p) /\ (p = Me => GetargsStep(Me))
  BY Descriptors, ArgsAssumption DEF Arguments, ArgsStep
<1>3. FsInv' /\ ArgsInv'
  BY <1>1, <1>2, SameInv, ArgsStepInv DEF ProgInv
<1>4. /\ user_buf' = user_buf
      /\ args_pc[Me] \in {"user", "done"} =>
           /\ args_pc'[Me] = args_pc[Me] /\ args_ret'[Me] = args_ret[Me]
           /\ args_buf'[Me] = args_buf[Me]
      /\ args_nbytes'[Me] = args_nbytes[Me]
      /\ args_pc'[Me] = "user" => args_pc[Me] = "user"
      /\ ~disturbed'[Me] => ~disturbed[Me]
  <2>1. CASE p # Me
    BY <1>2, <2>1, Apart, Disturbs, Descriptors DEF ProgInv, ArgsInv
  <2>2. CASE p = Me
    <3>1. GetargsStep(Me)
      BY <1>2, <2>2
    <3>2. /\ user_buf' = user_buf /\ args_nbytes' = args_nbytes
          /\ args_pc[Me] \in InCall /\ args_pc'[Me] # "user"
      BY <3>1, Descriptors
         DEF GetargsStep, ClearCell, FindArg, CopyCell, Copied, CheckEmpty, StrncpyCell,
             StrncpyEnd, Goto, Return, InCall, localVars, ProgInv, ArgsInv, ArgsTypes
    <3>3. disturbed'[Me] = disturbed[Me]
      BY <3>1, Descriptors
         DEF GetargsStep, ClearCell, FindArg, CopyCell, Copied, CheckEmpty, StrncpyCell,
             StrncpyEnd, Store, ProgInv, ArgsInv, ArgsTypes
    <3> QED BY <3>2, <3>3 DEF InCall
  <2> QED BY <2>1, <2>2
<1>5. /\ fd_table' = fd_table /\ opened_as' = opened_as /\ got' = got /\ ended' = ended
      /\ ppc' = ppc /\ command' = command /\ status' = status /\ searched' = searched
      /\ exit_status' = exit_status /\ UNCHANGED <<ret_status, refused, overwritten>>
  BY <1>1 DEF fsVars, historyVars, progVars, statusVars
<1>6. StatusGood'
  <2>1. StatusGood
    BY DEF ProgInv
  <2>2. \A st : Truth(st) => Truth(st)'
    BY <1>4, <1>5 DEF Truth, TellsTheTruth
  <2> QED BY <1>5, <2>1, <2>2 DEF StatusGood, ExitTellsTheTruth, Truth
<1>7. /\ \A kind \in Kinds : Runs(kind) => Runs(kind)'
      /\ NothingOpen => NothingOpen'
      /\ HasCommand => HasCommand'
      /\ Asked => Asked'
      /\ GotArgument => GotArgument' /\ args_buf'[Me] = args_buf[Me]
      /\ \A n : SearchedTo(n) => SearchedTo(n)'
  BY <1>4, <1>5 DEF Runs, NothingOpen, HasCommand, Asked, GotArgument, HasArguments, SearchedTo
<1>8. ProgramGood'
  <2>1. ProgramGood
    BY DEF ProgInv
  <2>2. IsOpen(2, "directory") => IsOpen(2, "directory")'
    BY <1>5 DEF IsOpen
  <2>3. Grepping => Grepping'
    BY <1>7, <2>2 DEF Grepping, Kinds
  <2> QED BY <1>4, <1>5, <1>7, <2>1, <2>2, <2>3 DEF ProgramGood, Kinds
<1> QED BY <1>3, <1>6, <1>8 DEF ProgInv

-----------------------------------------------------------------------------
(* The theorems *)

\* The shell waits, nothing is open and nothing has been asked for.
LEMMA ProgInit == Init => ProgInv
<1> SUFFICES ASSUME Init PROVE ProgInv
  OBVIOUS
<1>1. FsInv /\ ppc = "shell" /\ searched = <<>> /\ args_pc[Me] = "user" /\ NothingOpen
  BY FsInitInv, Descriptors DEF Init, FsInit, Closed, NothingOpen
<1>2. IsCommand(strncpy(<<>>, USR_BUF_SIZE))
  <2>1. USR_BUF_SIZE \in Cells
    BY ArgsAssumption DEF Cells
  <2>2. \A k \in Cells : ~(k <= strlen(<<>>))
    <3>1. strlen(<<>>) = 0
      <4> DEFINE e == <<>>
      <4>1. e \in Seq(Nat) /\ Len(e) = 0 /\ \A j \in 1 .. Len(e) : e[j] # 0
        OBVIOUS
      <4> HIDE DEF e
      <4> QED BY <4>1, NoZero DEF e
    <3> QED BY <3>1 DEF Cells
  <2>3. strncpy(<<>>, USR_BUF_SIZE) = [k \in Cells |-> 0]
    BY <2>2 DEF strncpy, Cells
  <2> QED BY <2>1, <2>3 DEF IsCommand
<1>3. ArgsInv
  <2>1. PICK s \in [Procs \ {Me} -> Commands] :
          user_buf = [p \in Procs |-> IF p = Me THEN strncpy(<<>>, USR_BUF_SIZE) ELSE s[p]]
    BY DEF Init
  <2>2. \A p \in Procs : IsCommand(user_buf[p])
    BY <1>2, <2>1, ProgramsAssumption
  <2>3. user_buf = [p \in Procs |-> user_buf[p]]
    BY <2>1
  <2> QED BY <2>2, <2>3, ArgsStart DEF Init
<1>4. ProgramGood /\ StatusGood
  BY <1>1 DEF ProgramGood, Kinds, StatusGood, ExitTellsTheTruth, Init
<1> QED BY <1>1, <1>3, <1>4 DEF ProgInv

\* Every step of the terminal, and of the others, keeps the invariant.
LEMMA ProgNextInv == ProgInv /\ [Next]_vars => ProgInv'
<1> SUFFICES ASSUME ProgInv, [Next]_vars PROVE ProgInv'
  OBVIOUS
<1>1. ASSUME NEW line \in Lines, Shell(line) PROVE ProgInv'
  BY <1>1, ShellInv
<1>2. CASE ShellExit
  BY <1>2, ShellExitInv
<1>3. CASE Program
  BY <1>3, AskInv, FailInv, CatOpenInv, LsOpenInv, GrepOpenInv, ReadLoopInv, GrepNextInv,
     GrepOpenFileInv, GrepReadInv, GrepCloseInv, OtherInv, HaltInv, ExceptionInv, ReturnInv
     DEF Program
<1>4. CASE Arguments
  BY <1>4, ArgumentsInv
<1>5. CASE OtherHalts
  BY <1>5, OtherHaltsInv
<1>6. CASE UNCHANGED vars
  <2>1. FsInv' /\ ArgsInv' /\ ProgramGood'
    BY <1>6, TerminalSame DEF vars, progVars
  <2>2. StatusGood
    BY DEF ProgInv
  <2>3. /\ UNCHANGED <<opened_as, got, ended, disturbed, ppc, command, exit_status, status>>
        /\ UNCHANGED <<searched, ret_status, refused, overwritten>>
    BY <1>6 DEF vars, fsVars, historyVars, argsVars, progVars, statusVars
  <2>4. StatusGood'
    BY <2>2, <2>3 DEF StatusGood, ExitTellsTheTruth, Truth, TellsTheTruth
  <2> QED BY <2>1, <2>4 DEF ProgInv
<1> QED BY <1>1, <1>2, <1>3, <1>4, <1>5, <1>6 DEF Next

\* The invariant of the terminal holds in every reachable state.
LEMMA ProgInvariance == Spec => []ProgInv
BY ProgInit, ProgNextInv, PTL DEF Spec

\* Unless a program of another terminal halts between this one's halt and the
\* return of execute (syscall.c:275), the status that the shell gets tells the
\* truth about the command, or -1 if there was no PCB (syscall.c:226): the
\* parsing in execute (syscall.c:202), the lookup, getargs, the read loops of
\* cat, ls and grep and halt together, for any directory, files, commands,
\* sizes and statuses and any number of terminals that ask for arguments and
\* halt meanwhile.
THEOREM ExitSafety == Spec => []ExitTellsTheTruth
<1>1. ProgInv => ExitTellsTheTruth
  BY DEF ProgInv, StatusGood
<1> QED BY <1>1, ProgInvariance, PTL

\* In the whole terminal, too, an undisturbed call of getargs (syscall.c:284)
\* answers with the caller's own argument, and every answer in a buffer of full
\* size is terminated.
THEOREM ProgramArgumentSafety == Spec => [](OwnArgument /\ AnswerTerminated)
<1>1. ProgInv => ArgsInv
  BY DEF ProgInv
<1> QED BY <1>1, ProgInvariance, ArgsInvImplies, PTL

\* In the whole terminal, too: whether cat, ls and grep call open, read and
\* close (syscall.c:23 to 104) in their loops or another program in any order,
\* reads fit their buffers but for the two cases of ReadFitsBuffer, return the
\* bytes of the file from the first one on, return 0 only when all of it has
\* been read and then do; and a descriptor is of the entry it was opened by.
THEOREM ProgramFilesSafety ==
  Spec => [](ReadFitsBuffer /\ ReadsAreTheFile /\ EndOnlyAfterAll /\ ReadsStop /\ FindsByName)
<1>1. ProgInv => FsInv
  BY DEF ProgInv
<1> QED BY <1>1, ProgInvariance, FsInvImplies, PTL
=============================================================================
