-------------------------- MODULE ProcessesRefine --------------------------
(***************************************************************************)
(* Processes implements JobStacks: the stack of terminal t is read off the *)
(* PCBs by following parent_pid from cur_pid[t].                           *)
(***************************************************************************)
EXTENDS Processes, Sequences

\* The n-th ancestor of the current process of terminal t; a chain longer
\* than the pool would be a cycle and ends in a job JobStacks cannot have.
Ancestor(t) ==
  LET anc[n \in 0 .. NumPcb] ==
        IF n = 0 THEN cur_pid[t]
        ELSE IF anc[n - 1] = None THEN None ELSE parent_pid[anc[n - 1]]
  IN  anc

JobsOf(t) ==
  LET anc == Ancestor(t)
      depth == Cardinality({n \in 0 .. NumPcb : anc[n] # None})
  IN  [k \in 1 .. depth |-> [id |-> anc[depth - k], open |-> fdt[anc[depth - k]]]]

Abstract == INSTANCE JobStacks WITH
  Ids <- Pids,
  N <- NumTerm,
  FdNumbers <- Fds,
  jobs <- [t \in Terms |-> JobsOf(t)],
  running <- schedule_index

\* Seen through the PCBs, the terminals behave as independent stacks of jobs:
\* whatever execute, halt, halt_exception and the timer interleave, a program
\* starts on top of its caller with an identity of its own, ends by giving
\* control back to that caller, and changes no other job's descriptors.
ImplementsJobStacks == Abstract!Spec
=============================================================================
