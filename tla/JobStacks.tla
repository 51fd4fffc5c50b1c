----------------------------- MODULE JobStacks -----------------------------
(***************************************************************************)
(* What the process core promises.  Each terminal has a stack of jobs; the *)
(* topmost job of the running terminal may start a program, which becomes  *)
(* the new top with no descriptor open, or exit, which gives the terminal  *)
(* back to the job below with the descriptors it had.  The running terminal*)
(* changes in round-robin order.  There are no PCBs, stacks, pages or      *)
(* saved registers here; Processes is shown to implement this module in    *)
(* ProcessesRefine.                                                        *)
(***************************************************************************)
EXTENDS Integers, Sequences, SequencesExt

CONSTANTS
  Ids,        \* identities of jobs
  N,          \* terminals are 0 .. N-1
  FdNumbers   \* descriptors a job can have open

VARIABLES
  jobs,       \* jobs[t]: sequence of [id, open], the last one is in control
  running     \* the terminal that has the CPU

vars == <<jobs, running>>

Terminals == 0 .. N - 1

\* Identities on any stack.
Busy == UNION {{jobs[t][k].id : k \in DOMAIN jobs[t]} : t \in Terminals}

Init ==
  /\ jobs = [t \in Terminals |-> <<>>]
  /\ running = 0

\* A new job gets an identity nobody else has.
Start(i) ==
  /\ i \in Ids \ Busy
  /\ jobs' = [jobs EXCEPT ![running] = Append(@, [id |-> i, open |-> {}])]
  /\ UNCHANGED running

Exit ==
  /\ jobs[running] # <<>>
  /\ jobs' = [jobs EXCEPT ![running] = Front(@)]
  /\ UNCHANGED running

\* The job in control opens or closes one descriptor.
UseFd(fd) ==
  /\ jobs[running] # <<>>
  /\ LET top == Len(jobs[running])
         now == jobs[running][top].open
     IN  jobs' = [jobs EXCEPT ![running][top].open =
                    IF fd \in now THEN now \ {fd} ELSE now \cup {fd}]
  /\ UNCHANGED running

Switch ==
  /\ running' = (running + 1) % N
  /\ UNCHANGED jobs

Next ==
  \/ \E i \in Ids : Start(i)
  \/ Exit
  \/ \E fd \in FdNumbers : UseFd(fd)
  \/ Switch

Spec == Init /\ [][Next]_vars
=============================================================================
