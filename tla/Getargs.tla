------------------------------ MODULE Getargs ------------------------------
(***************************************************************************)
(* getargs (syscall.c), called by the processes of several terminals.      *)
(*                                                                         *)
(* Every call builds its answer in the one global array arg_retrieved, in  *)
(* loops that run with interrupts enabled: each access to a cell of it is  *)
(* a step.  What a call does to its own PCB and to its caller's buffer is  *)
(* seen by nobody else and is part of the step before it.                  *)
(*                                                                         *)
(* Definitions whose name adds a word to the one below them are wrong on   *)
(* purpose: each stands for a bug that a property here must detect.        *)
(***************************************************************************)
EXTENDS CStrings

CONSTANTS
  Procs,          \* the processes that call getargs
  USR_BUF_SIZE,   \* cells of user_buf and of arg_retrieved (1024)
  Chars,          \* characters other than 0
  ArgSizes        \* lengths that programs pass to getargs

ASSUME ArgsAssumption ==
  /\ USR_BUF_SIZE \in Nat \ {0}
  /\ ArgSizes \subseteq 0 .. USR_BUF_SIZE
  /\ Chars \subseteq Nat \ {0}

Cells == 1 .. USR_BUF_SIZE
Garbage == 255            \* what a caller's buffer holds before the call

VARIABLES
  user_buf,       \* per process: the command it was executed with
  arg_retrieved,  \* the global array
  args_pc,        \* where the process is in getargs
  args_i,         \* the locals i ...
  args_j,         \* ... and j, and the parameter ...
  args_nbytes,    \* ... nbytes
  args_buf,       \* the caller's buffer
  args_ret,       \* what getargs returned
  disturbed       \* history: another call wrote arg_retrieved during this one

localVars == <<args_i, args_j, args_nbytes, args_buf, args_ret>>
argsVars == <<user_buf, arg_retrieved, args_pc, localVars, disturbed>>

InCall == {"clear", "copy", "check", "strncpy"}

\* A command as execute leaves it in a PCB: terminated inside the array.
IsCommand(s) == s \in [Cells -> Chars \cup {0}] /\ s[USR_BUF_SIZE] = 0

ArgsInit ==
  /\ user_buf \in [Procs -> {s \in [Cells -> Chars \cup {0}] : IsCommand(s)}]
  /\ arg_retrieved = [k \in Cells |-> 0]
  /\ args_pc = [p \in Procs |-> "user"]
  /\ args_i = [p \in Procs |-> 1]
  /\ args_j = [p \in Procs |-> 1]
  /\ args_nbytes = [p \in Procs |-> 0]
  /\ args_buf = [p \in Procs |-> [k \in Cells |-> Garbage]]
  /\ args_ret = [p \in Procs |-> 0]
  /\ disturbed = [p \in Procs |-> FALSE]

-----------------------------------------------------------------------------

Goto(p, from, to) == args_pc[p] = from /\ args_pc' = [args_pc EXCEPT ![p] = to]

\* A store to the global array, seen by every other call in progress.
Store(p, k, c) ==
  /\ arg_retrieved' = [arg_retrieved EXCEPT ![k] = c]
  /\ disturbed' = [q \in Procs |-> disturbed[q] \/ (q # p /\ args_pc[q] \in InCall)]

getargs(p, nbytes) ==
  /\ Goto(p, "user", "clear")
  /\ args_i' = [args_i EXCEPT ![p] = 1]
  /\ args_nbytes' = [args_nbytes EXCEPT ![p] = nbytes]
  /\ args_buf' = [args_buf EXCEPT ![p] = [k \in Cells |-> Garbage]]
  /\ disturbed' = [disturbed EXCEPT ![p] = FALSE]
  /\ UNCHANGED <<user_buf, arg_retrieved, args_j, args_ret>>

ClearCell(p) ==
  /\ Goto(p, "clear", "clear")
  /\ args_i[p] <= USR_BUF_SIZE
  /\ Store(p, args_i[p], 0)
  /\ args_i' = [args_i EXCEPT ![p] = args_i[p] + 1]
  /\ UNCHANGED <<user_buf, args_j, args_nbytes, args_buf, args_ret>>

\* Behind the first space.
ArgStart_first(s) ==
  LET ends == {i \in 1 .. strlen(s) : s[i] = Space}
  IN  Min({i + 1 : i \in ends} \cup {strlen(s) + 1})

\* Behind the first space that no other space follows, or at the end.
ArgStart(s) ==
  LET ends == {i \in 1 .. strlen(s) : s[i] = Space /\ s[i + 1] # Space}
  IN  Min({i + 1 : i \in ends} \cup {strlen(s) + 1})

Return(p, from, ret) ==
  /\ Goto(p, from, "done")
  /\ args_ret' = [args_ret EXCEPT ![p] = ret]

\* Cleared: the caller's buffer is tested and the argument located.
FindArg(p) ==
  /\ args_i[p] > USR_BUF_SIZE
  /\ IF args_nbytes[p] = 0
       THEN Return(p, "clear", -1) /\ UNCHANGED <<args_i, args_j>>
       ELSE /\ Goto(p, "clear", "copy")
            /\ args_i' = [args_i EXCEPT ![p] = ArgStart(user_buf[p])]
            /\ args_j' = [args_j EXCEPT ![p] = 1]
            /\ UNCHANGED args_ret
  /\ UNCHANGED <<user_buf, arg_retrieved, args_nbytes, args_buf, disturbed>>

MoreToCopy(p) == args_j[p] <= strlen(user_buf[p]) /\ user_buf[p][args_i[p]] # 0

CopyCell(p) ==
  /\ Goto(p, "copy", "copy")
  /\ MoreToCopy(p)
  /\ Store(p, args_j[p], user_buf[p][args_i[p]])
  /\ args_i' = [args_i EXCEPT ![p] = args_i[p] + 1]
  /\ args_j' = [args_j EXCEPT ![p] = args_j[p] + 1]
  /\ UNCHANGED <<user_buf, args_nbytes, args_buf, args_ret>>

Copied(p) ==
  /\ Goto(p, "copy", "check")
  /\ ~MoreToCopy(p)
  /\ UNCHANGED <<user_buf, arg_retrieved, localVars, disturbed>>

CheckEmpty(p) ==
  /\ IF arg_retrieved[1] = 0
       THEN Return(p, "check", -1) /\ UNCHANGED args_i
       ELSE /\ Goto(p, "check", "strncpy")
            /\ args_i' = [args_i EXCEPT ![p] = 1]
            /\ UNCHANGED args_ret
  /\ UNCHANGED <<user_buf, arg_retrieved, args_j, args_nbytes, args_buf, disturbed>>

StrncpyCell(p) ==
  /\ Goto(p, "strncpy", "strncpy")
  /\ args_i[p] <= args_nbytes[p]
  /\ arg_retrieved[args_i[p]] # 0
  /\ args_buf' = [args_buf EXCEPT ![p][args_i[p]] = arg_retrieved[args_i[p]]]
  /\ args_i' = [args_i EXCEPT ![p] = args_i[p] + 1]
  /\ UNCHANGED <<user_buf, arg_retrieved, args_j, args_nbytes, args_ret, disturbed>>

\* The copy ends without writing the 0.
Padded_never(p) == args_buf[p]

\* The second loop of strncpy.
Padded(p) ==
  [k \in Cells |-> IF k \in args_i[p] .. args_nbytes[p] THEN 0 ELSE args_buf[p][k]]

StrncpyEnd(p) ==
  /\ Return(p, "strncpy", 0)
  /\ args_i[p] <= args_nbytes[p] => arg_retrieved[args_i[p]] = 0
  /\ args_buf' = [args_buf EXCEPT ![p] = Padded(p)]
  /\ UNCHANGED <<user_buf, arg_retrieved, args_i, args_j, args_nbytes, disturbed>>

GetargsStep(p) ==
  \/ ClearCell(p) \/ FindArg(p) \/ CopyCell(p) \/ Copied(p)
  \/ CheckEmpty(p) \/ StrncpyCell(p) \/ StrncpyEnd(p)

\* The caller has used the answer.
Used(p) ==
  /\ Goto(p, "done", "user")
  /\ args_i' = [args_i EXCEPT ![p] = 1]
  /\ args_j' = [args_j EXCEPT ![p] = 1]
  /\ args_nbytes' = [args_nbytes EXCEPT ![p] = 0]
  /\ args_buf' = [args_buf EXCEPT ![p] = [k \in Cells |-> Garbage]]
  /\ args_ret' = [args_ret EXCEPT ![p] = 0]
  /\ disturbed' = [disturbed EXCEPT ![p] = FALSE]
  /\ UNCHANGED <<user_buf, arg_retrieved>>

ArgsNext ==
  \E p \in Procs :
    (\E nbytes \in ArgSizes : getargs(p, nbytes)) \/ GetargsStep(p) \/ Used(p)

ArgsSpec == ArgsInit /\ [][ArgsNext]_argsVars

-----------------------------------------------------------------------------
(* Properties *)

\* Reference: what follows the first word of a command and the spaces behind
\* that word.
ArgumentOf(s) ==
  LET word == Min({i \in DOMAIN s : s[i] \in {Space, 0}})
      start == Min({i \in word .. Len(s) : s[i] # Space})
  IN  SubSeq(s, start, strlen(s))

\* A call that no other call has disturbed returns -1 exactly when it was
\* given no room or there is no argument, and otherwise puts the argument,
\* cut off at nbytes, into the caller's buffer: the loops of getargs agree
\* with the definition above for every command.
OwnArgument ==
  \A p \in Procs : args_pc[p] = "done" /\ ~disturbed[p] =>
    LET argument == ArgumentOf(user_buf[p])
    IN  IF args_nbytes[p] = 0 \/ argument = <<>>
          THEN args_ret[p] = -1
          ELSE /\ args_ret[p] = 0
               /\ \A k \in 1 .. args_nbytes[p] :
                    args_buf[p][k] = IF k <= Len(argument) THEN argument[k] ELSE 0

\* However calls disturb each other, an answer in a buffer of full size ends
\* with a 0 inside that buffer: the last cell of the global array stays 0, as
\* every argument is shorter than the command it is part of.
AnswerTerminated ==
  \A p \in Procs :
    args_pc[p] = "done" /\ args_ret[p] = 0 /\ args_nbytes[p] = USR_BUF_SIZE
      => \E k \in Cells : args_buf[p][k] = 0
=============================================================================
