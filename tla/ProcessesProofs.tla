-------------------------- MODULE ProcessesProofs --------------------------
(***************************************************************************)
(* Proofs about Processes, for every number of PCBs, terminals and         *)
(* descriptors.                                                            *)
(***************************************************************************)
EXTENDS ProcessesRefine, TLAPS, WellFoundedInduction, FiniteSetTheorems, SequenceTheorems

\* Sets and addresses of the model are sets of integers.
LEMMA Constants ==
  /\ NumPcb \in Nat /\ NumPcb >= 1
  /\ NumTerm \in Nat /\ NumTerm >= 2
  /\ Pids \subseteq Nat /\ Terms \subseteq Nat /\ Fds \subseteq Nat
  /\ None = -1 /\ KernelFdt = -1 /\ None \notin Pids /\ 0 \in Terms
  /\ Tables = Pids \cup {None}
BY ConstantsAssumption DEF Pids, Terms, Fds, None, KernelFdt, Tables

\* exec_frame maps processes, and "no process", to frames.
LEMMA FrameType ==
  /\ \A p \in Pids \cup {None} : exec_frame(p) \in Frames
  /\ \A p, q \in Pids \cup {None} : exec_frame(p) = exec_frame(q) => p = q
BY ConstantsAssumption DEF Pids, None, exec_frame, Frames

\* Stack tops are integers.
LEMMA StackType ==
  /\ \A p \in Pids \cup {None} : get_esp0(p) \in Int
  /\ \A t \in Terms : base_esp(t) \in Int
  /\ STACK_POINTER \in Int
BY ConstantsAssumption
   DEF Pids, None, Terms, get_esp0, base_esp, STACK_POINTER, ESP_MEM, EIGHTK,
       MEMORY_SPACE

\* The status byte, sign-extended, fits a signed byte.
LEMMA SignExtendType == \A s \in Statuses : SignExtend8(s) \in -128..127
BY ConstantsAssumption DEF SignExtend8

\* The round robin stays on the terminals.
LEMMA NextScheduleType ==
  schedule_index \in Terms => next_schedule \in Terms /\ next_schedule # schedule_index
BY ConstantsAssumption DEF next_schedule, Terms

-----------------------------------------------------------------------------
(* Type correctness *)

\* kernel.c leaves every variable in its type.
LEMMA InitTypeOK == Init => TypeOK
BY Constants, FrameType, StackType
   DEF Init, TypeOK, NothingDue, Terms, Frames, exec_frame, Pids, None, Tables

\* execute keeps the types.
LEMMA ExecuteTypeOK ==
  ASSUME TypeOK, NEW i \in Pids, execute(i)
  PROVE  TypeOK'
<1> USE Constants, FrameType, StackType
<1>1. kernel_esp \in Int
  BY DEF TypeOK, kernel_esp
<1>2. /\ use' \in [Pids -> {0, 1}]
      /\ parent_pid' \in [Pids -> Pids \cup {None}]
      /\ parent_esp0' \in [Pids -> Int]
      /\ parent_esp' \in [Pids -> Int]
      /\ parent_fd' \in [Pids -> Tables]
      /\ screen_idx' \in [Pids -> Terms]
  BY <1>1 DEF TypeOK, execute, load_image
<1>3. /\ cur_pid' \in [Terms -> Pids \cup {None}]
      /\ cur_esp0' \in [Terms -> Int]
      /\ cur_esp' \in [Terms -> Int]
      /\ cur_fd_ptr' \in [Terms -> Tables]
      /\ schedule_index' \in Terms
      /\ tss_esp0' \in Int
      /\ esp' \in Int
      /\ pdt_exec' \in Frames
      /\ eflags_if' \in BOOLEAN
  BY DEF TypeOK, execute, load_image
<1>4. image' \in [Frames -> Pids \cup {None}]
  BY <1>3 DEF TypeOK, execute, load_image
<1>5. /\ fdt' \in [Tables -> SUBSET Fds]
      /\ ret_status' \in -128..127
      /\ pc' \in [Terms -> {"boot", "user", "ret"}]
      /\ due' \in [Terms -> -128..127 \cup {EXCEPTION_RET, NothingDue}]
  BY DEF TypeOK, execute, load_image
<1> QED BY <1>2, <1>3, <1>4, <1>5 DEF TypeOK

\* Both ways to halt keep the types.
LEMMA RestoreTypeOK ==
  ASSUME TypeOK, pc[schedule_index] = "user",
         cur_pid[schedule_index] \in Pids,
         RestoreParent(cur_pid[schedule_index]),
         NEW v \in -128..127 \cup {EXCEPTION_RET},
         Owe(cur_pid[schedule_index], v),
         ret_status' \in -128..127
  PROVE  TypeOK'
<1> USE Constants, FrameType, StackType
<1> DEFINE p == cur_pid[schedule_index]
<1>1. /\ use' \in [Pids -> {0, 1}]
      /\ cur_pid' \in [Terms -> Pids \cup {None}]
      /\ cur_fd_ptr' \in [Terms -> Tables]
      /\ tss_esp0' \in Int
      /\ esp' \in Int
  BY ZenonT(40) DEF TypeOK, RestoreParent, close_all, free_pcb
<1>0. pdt_exec' \in Frames /\ eflags_if' \in BOOLEAN
  <2>1. parent_pid[p] \in Pids \cup {None} /\ pdt_exec' = exec_frame(parent_pid[p])
    BY DEF TypeOK, RestoreParent, close_all, free_pcb
  <2>2. eflags_if' \in BOOLEAN
    BY DEF RestoreParent, close_all, free_pcb
  <2> HIDE DEF p
  <2> QED BY <2>1, <2>2
<1>2. /\ fdt' \in [Tables -> SUBSET Fds]
      /\ pc' \in [Terms -> {"boot", "user", "ret"}]
      /\ due' \in [Terms -> -128..127 \cup {EXCEPTION_RET, NothingDue}]
  BY DEF TypeOK, RestoreParent, close_all, free_pcb, Owe
<1>3. /\ parent_pid' = parent_pid /\ parent_esp0' = parent_esp0
      /\ parent_esp' = parent_esp /\ parent_fd' = parent_fd
      /\ screen_idx' = screen_idx /\ cur_esp0' = cur_esp0
      /\ cur_esp' = cur_esp /\ schedule_index' = schedule_index
      /\ image' = image
  BY DEF RestoreParent, close_all, free_pcb
<1> QED BY <1>0, <1>1, <1>2, <1>3 DEF TypeOK

\* The timer interrupt keeps the types.
LEMMA SwitchTypeOK ==
  ASSUME TypeOK, context_switch
  PROVE  TypeOK'
<1> USE Constants, FrameType, StackType, NextScheduleType
<1>1. kernel_esp \in Int /\ schedule_index \in Terms /\ next_schedule \in Terms
  BY DEF TypeOK, kernel_esp
<1>2. cur_esp' \in [Terms -> Int] /\ cur_esp0' \in [Terms -> Int]
  BY <1>1 DEF TypeOK, context_switch, save_context
<1>3. /\ tss_esp0' \in Int
      /\ esp' \in Int
      /\ schedule_index' \in Terms
  BY <1>1, <1>2 DEF TypeOK, context_switch, save_context
<1>5. pdt_exec' \in Frames
  <2>1. pdt_exec' = exec_frame(cur_pid[next_schedule]) \/ pdt_exec' = pdt_exec
    BY DEF context_switch, save_context
  <2>2. cur_pid[next_schedule] \in Pids \cup {None} /\ pdt_exec \in Frames
    BY <1>1 DEF TypeOK
  <2>3. exec_frame(cur_pid[next_schedule]) \in Frames
    BY <2>2, Zenon
  <2> QED BY <2>1, <2>2, <2>3
<1>6. eflags_if' \in BOOLEAN
  BY Zenon DEF context_switch, save_context
<1>4. /\ use' = use /\ parent_pid' = parent_pid /\ parent_esp0' = parent_esp0
      /\ parent_esp' = parent_esp /\ parent_fd' = parent_fd
      /\ screen_idx' = screen_idx /\ cur_pid' = cur_pid
      /\ cur_fd_ptr' = cur_fd_ptr /\ image' = image /\ fdt' = fdt
      /\ ret_status' = ret_status /\ pc' = pc /\ due' = due
  BY DEF context_switch, save_context, pcbVars
<1> QED BY <1>2, <1>3, <1>4, <1>5, <1>6 DEF TypeOK

\* open and close keep the types.
LEMMA SetFlagsTypeOK ==
  ASSUME TypeOK, NEW S \in SUBSET Fds, SetFlags(S)
  PROVE  TypeOK'
BY Constants DEF TypeOK, SetFlags, pcbVars, procArrayVars, cpuVars

-----------------------------------------------------------------------------
(* The inductive invariant *)

IInv ==
  /\ TypeOK
  /\ BootOnlyWithoutProcess
  /\ ProcessTree
  /\ RunsInOwnContext
  /\ SavedContexts
  /\ ImagesIntact
  /\ NoDescriptorLeak

\* At boot there are no processes and every terminal is on its boot stack.
LEMMA InitIInv == Init => IInv
<1> SUFFICES ASSUME Init PROVE IInv OBVIOUS
<1> USE Constants
<1>1. TypeOK
  BY InitTypeOK
<1>2. BootOnlyWithoutProcess /\ ProcessTree /\ ImagesIntact
  BY DEF Init, BootOnlyWithoutProcess, ProcessTree, Programs, ImagesIntact
<1>3. RunsInOwnContext
  BY DEF Init, RunsInOwnContext, StackOf
<1>4. SavedContexts
  BY DEF Init, SavedContexts, StackOf
<1>5. NoDescriptorLeak
  BY DEF Init, NoDescriptorLeak
<1> QED BY <1>1, <1>2, <1>3, <1>4, <1>5 DEF IInv

\* A process that runs user code is a process of the pool, in use.
LEMMA UserHasProcess ==
  ASSUME IInv, pc[schedule_index] = "user"
  PROVE  /\ schedule_index \in Terms
         /\ cur_pid[schedule_index] \in Pids
         /\ use[cur_pid[schedule_index]] = 1
         /\ screen_idx[cur_pid[schedule_index]] = schedule_index
BY Constants DEF IInv, TypeOK, BootOnlyWithoutProcess, ProcessTree, Programs

\* Outside user mode the kernel is on the stack RunsInOwnContext names; in
\* user mode it would enter on the same stack.
LEMMA KernelStack ==
  ASSUME IInv
  PROVE  kernel_esp = StackOf(cur_pid[schedule_index], schedule_index)
BY DEF IInv, RunsInOwnContext, kernel_esp

\* execute, of a user program or of boot_shell, preserves the invariant.
LEMMA ExecuteIInv ==
  ASSUME IInv, NEW i \in Pids, execute(i)
  PROVE  IInv'
<1> USE Constants
<1> DEFINE t == schedule_index
<1>1. TypeOK /\ TypeOK'
  BY ExecuteTypeOK DEF IInv
<1>2. use[i] = 0 /\ t \in Terms
  BY <1>1 DEF execute, load_image, get_avail_pcb, TypeOK
<1>3. /\ use' = [use EXCEPT ![i] = 1]
      /\ parent_pid' = [parent_pid EXCEPT ![i] = cur_pid[t]]
      /\ cur_pid' = [cur_pid EXCEPT ![t] = i]
      /\ screen_idx' = [screen_idx EXCEPT ![i] = t]
      /\ schedule_index' = t
  BY DEF execute, load_image
<1>4. BootOnlyWithoutProcess'
  BY <1>1, <1>2 DEF IInv, TypeOK, BootOnlyWithoutProcess, execute, load_image
<1>5. ProcessTree'
  <2>1. ProcessTree
    BY DEF IInv
  <2>2. \A u \in Terms : Programs(u)' =
            IF u = t THEN Programs(u) \cup {i} ELSE Programs(u)
    BY <1>1, <1>2, <1>3 DEF Programs, TypeOK
  <2>3. \A u \in Terms : i \notin Programs(u) /\ cur_pid[u] # i
    BY <1>2, <2>1 DEF Programs, ProcessTree
  <2>4. ASSUME NEW u \in Terms
        PROVE  /\ cur_pid'[u] # None => cur_pid'[u] \in Programs(u)'
               /\ \A p \in Programs(u)' :
                    /\ parent_pid'[p] # None => parent_pid'[p] \in Programs(u)'
                    /\ parent_pid'[p] \notin {p, cur_pid'[u]}
                    /\ \/ p = cur_pid'[u]
                       \/ \E c \in Programs(u)' : parent_pid'[c] = p
               /\ \A p, q \in Programs(u)' :
                    parent_pid'[p] = parent_pid'[q] => p = q
    <3>1. \A r \in Programs(u) :
             r \in Pids /\ r # i /\ parent_pid'[r] = parent_pid[r]
                /\ parent_pid[r] # i
      BY <1>1, <1>3, <2>1, <2>3 DEF Programs, TypeOK, ProcessTree
    <3>2. CASE u = t
      <4>1. /\ cur_pid'[u] = i /\ parent_pid'[i] = cur_pid[u]
            /\ cur_pid[u] # i /\ i # None
            /\ Programs(u)' = Programs(u) \cup {i}
        BY <3>2, <1>1, <1>2, <1>3, <2>2, <2>3 DEF TypeOK
      <4>2. /\ cur_pid[u] # None => cur_pid[u] \in Programs(u)
            /\ \A p \in Programs(u) :
                 /\ parent_pid[p] # None => parent_pid[p] \in Programs(u)
                 /\ parent_pid[p] \notin {p, cur_pid[u]}
                 /\ p = cur_pid[u] \/ \E c \in Programs(u) : parent_pid[c] = p
            /\ \A p, q \in Programs(u) :
                 parent_pid[p] = parent_pid[q] => p = q
        BY <2>1 DEF ProcessTree
      <4> QED BY <4>1, <4>2, <3>1
    <3>3. CASE u # t
      <4>1. cur_pid'[u] = cur_pid[u] /\ Programs(u)' = Programs(u)
        BY <3>3, <1>1, <1>2, <1>3, <2>2 DEF TypeOK
      <4> QED BY <4>1, <3>1, <2>1 DEF ProcessTree
    <3> QED BY <3>2, <3>3
  <2> QED BY <2>4 DEF ProcessTree
<1>6. RunsInOwnContext'
  BY <1>1, <1>2, <1>3 DEF TypeOK, execute, load_image, RunsInOwnContext, StackOf
<1>7. SavedContexts'
  <2>1. kernel_esp = StackOf(cur_pid[t], t) /\ tss_esp0 = StackOf(cur_pid[t], t)
          /\ cur_fd_ptr[t] = cur_pid[t] /\ SavedContexts
    BY KernelStack DEF IInv, RunsInOwnContext
  <2>2. ASSUME NEW u \in Terms \ {schedule_index'}
        PROVE  /\ cur_esp0'[u] = StackOf(cur_pid'[u], u)
               /\ cur_esp'[u] = StackOf(cur_pid'[u], u)
               /\ cur_fd_ptr'[u] = cur_pid'[u]
    <3>1. /\ cur_esp0' = cur_esp0 /\ cur_esp' = cur_esp
          /\ cur_fd_ptr'[u] = cur_fd_ptr[u] /\ cur_pid'[u] = cur_pid[u]
      BY <1>1, <1>2, <1>3 DEF execute, load_image, TypeOK
    <3> QED BY <3>1, <2>1, <1>3 DEF SavedContexts
  <2>3. ASSUME NEW p \in Pids, use'[p] = 1
        PROVE  /\ parent_esp0'[p] = StackOf(parent_pid'[p], screen_idx'[p])
               /\ parent_esp'[p] = StackOf(parent_pid'[p], screen_idx'[p])
               /\ parent_fd'[p] = parent_pid'[p]
    <3>1. CASE p = i
      BY <3>1, <2>1, <1>1, <1>2, <1>3 DEF execute, load_image, TypeOK
    <3>2. CASE p # i
      <4>1. /\ use[p] = 1 /\ parent_pid'[p] = parent_pid[p]
            /\ screen_idx'[p] = screen_idx[p]
            /\ parent_esp0'[p] = parent_esp0[p]
            /\ parent_esp'[p] = parent_esp[p]
            /\ parent_fd'[p] = parent_fd[p]
        BY <3>2, <2>3, <1>1, <1>3 DEF execute, load_image, TypeOK
      <4> QED BY <4>1, <2>1 DEF SavedContexts
    <3> QED BY <3>1, <3>2
  <2> QED BY <2>2, <2>3 DEF SavedContexts, StackOf
<1>8. ImagesIntact'
  <2>1. image' = [image EXCEPT ![exec_frame(i)] = i]
    BY DEF execute, load_image
  <2> QED BY <2>1, <1>1, <1>3, FrameType DEF IInv, ImagesIntact, TypeOK
<1>9. NoDescriptorLeak'
  BY <1>1, <1>2, <1>3 DEF IInv, NoDescriptorLeak, execute, load_image, TypeOK
<1> QED BY <1>1, <1>4, <1>5, <1>6, <1>7, <1>8, <1>9 DEF IInv

\* halt and halt_exception preserve the invariant.
LEMMA RestoreIInv ==
  ASSUME IInv, pc[schedule_index] = "user",
         RestoreParent(cur_pid[schedule_index]),
         NEW v \in -128..127 \cup {EXCEPTION_RET},
         Owe(cur_pid[schedule_index], v),
         ret_status' \in -128..127
  PROVE  IInv'
<1> USE Constants
<1> DEFINE t == schedule_index
           h == cur_pid[schedule_index]
<1>1. TypeOK /\ TypeOK'
  BY RestoreTypeOK, UserHasProcess, Zenon DEF IInv
<1>2. /\ t \in Terms /\ h \in Pids /\ h \in Programs(t)
      /\ use[h] = 1 /\ screen_idx[h] = t
  BY UserHasProcess DEF Programs
<1>3. /\ use' = [use EXCEPT ![h] = 0]
      /\ parent_pid' = parent_pid
      /\ cur_pid' = [cur_pid EXCEPT ![t] = parent_pid[h]]
      /\ screen_idx' = screen_idx
      /\ schedule_index' = t
  BY DEF RestoreParent, close_all, free_pcb
<1>4. BootOnlyWithoutProcess'
  <2>1. /\ pc' = [pc EXCEPT ![t] = IF parent_pid[h] = None THEN "boot" ELSE "ret"]
        /\ eflags_if' = TRUE
    BY DEF RestoreParent, close_all, free_pcb
  <2> QED BY <2>1, <1>1, <1>2, <1>3 DEF IInv, TypeOK, BootOnlyWithoutProcess
<1>5. ProcessTree'
  <2>1. ProcessTree
    BY DEF IInv
  <2>2. \A u \in Terms : Programs(u)' = Programs(u) \ {h}
    BY <1>1, <1>2, <1>3 DEF Programs, TypeOK
  <2>3. \A u \in Terms : u # t => h \notin Programs(u)
    BY <1>2 DEF Programs
  <2>4. ASSUME NEW u \in Terms
        PROVE  /\ cur_pid'[u] # None => cur_pid'[u] \in Programs(u)'
               /\ \A p \in Programs(u)' :
                    /\ parent_pid'[p] # None => parent_pid'[p] \in Programs(u)'
                    /\ parent_pid'[p] \notin {p, cur_pid'[u]}
                    /\ \/ p = cur_pid'[u]
                       \/ \E c \in Programs(u)' : parent_pid'[c] = p
               /\ \A p, q \in Programs(u)' :
                    parent_pid'[p] = parent_pid'[q] => p = q
    <3>1. CASE u = t
      <4>1. /\ cur_pid'[u] = parent_pid[h] /\ cur_pid[u] = h
            /\ Programs(u)' = Programs(u) \ {h} /\ h \in Programs(u)
        BY <3>1, <1>1, <1>2, <1>3, <2>2 DEF TypeOK
      <4>2. /\ \A p \in Programs(u) :
                 /\ parent_pid[p] # None => parent_pid[p] \in Programs(u)
                 /\ parent_pid[p] \notin {p, h}
                 /\ p = h \/ \E c \in Programs(u) : parent_pid[c] = p
            /\ \A p, q \in Programs(u) :
                 parent_pid[p] = parent_pid[q] => p = q
        BY <4>1, <2>1 DEF ProcessTree
      <4> QED BY <4>1, <4>2, <1>3
    <3>2. CASE u # t
      <4>1. cur_pid'[u] = cur_pid[u] /\ Programs(u)' = Programs(u)
        <5>1. cur_pid'[u] = cur_pid[u]
          BY <3>2, <1>1, <1>3 DEF TypeOK
        <5>2. Programs(u) \ {h} = Programs(u)
          BY <3>2, <2>3
        <5> QED BY <5>1, <5>2, <2>2
      <4> QED BY <4>1, <1>3, <2>1 DEF ProcessTree
    <3> QED BY <3>1, <3>2
  <2> QED BY <2>4 DEF ProcessTree
<1>6. RunsInOwnContext'
  <2>1. /\ parent_esp0[h] = StackOf(parent_pid[h], t)
        /\ parent_esp[h] = StackOf(parent_pid[h], t)
        /\ parent_fd[h] = parent_pid[h]
    BY <1>2 DEF IInv, SavedContexts
  <2>2. /\ cur_pid'[t] = parent_pid[h] /\ cur_fd_ptr'[t] = parent_pid[h]
        /\ tss_esp0' = StackOf(parent_pid[h], t)
        /\ esp' = StackOf(parent_pid[h], t)
        /\ pdt_exec' = exec_frame(parent_pid[h])
        /\ pc'[t] # "user"
    BY <2>1, <1>1, <1>2 DEF RestoreParent, close_all, free_pcb, TypeOK
  <2> QED BY <2>2, <1>3 DEF RunsInOwnContext, StackOf
<1>7. SavedContexts'
  <2>1. SavedContexts
    BY DEF IInv
  <2>2. ASSUME NEW u \in Terms \ {schedule_index'}
        PROVE  /\ cur_esp0'[u] = StackOf(cur_pid'[u], u)
               /\ cur_esp'[u] = StackOf(cur_pid'[u], u)
               /\ cur_fd_ptr'[u] = cur_pid'[u]
    <3>1. /\ cur_esp0' = cur_esp0 /\ cur_esp' = cur_esp
          /\ cur_fd_ptr'[u] = cur_fd_ptr[u] /\ cur_pid'[u] = cur_pid[u]
      BY <1>1, <1>2, <1>3 DEF RestoreParent, close_all, free_pcb, TypeOK
    <3> QED BY <3>1, <2>1, <1>3 DEF SavedContexts
  <2>3. ASSUME NEW p \in Pids, use'[p] = 1
        PROVE  /\ parent_esp0'[p] = StackOf(parent_pid'[p], screen_idx'[p])
               /\ parent_esp'[p] = StackOf(parent_pid'[p], screen_idx'[p])
               /\ parent_fd'[p] = parent_pid'[p]
    <3>1. use[p] = 1
      BY <2>3, <1>1, <1>2, <1>3 DEF TypeOK
    <3>2. /\ parent_esp0' = parent_esp0 /\ parent_esp' = parent_esp
          /\ parent_fd' = parent_fd
      BY DEF RestoreParent, close_all, free_pcb
    <3> QED BY <3>1, <3>2, <2>1, <1>3 DEF SavedContexts
  <2> QED BY <2>2, <2>3 DEF SavedContexts, StackOf
<1>8. ImagesIntact'
  BY <1>1, <1>2, <1>3
  DEF IInv, ImagesIntact, TypeOK, RestoreParent, free_pcb, exec_frame
<1>9. NoDescriptorLeak'
  <2>1. fdt' = [fdt EXCEPT ![h] = {}]
    BY DEF RestoreParent, close_all, free_pcb, IInv, RunsInOwnContext
  <2>2. /\ fdt'[h] = {} /\ fdt'[KernelFdt] = fdt[KernelFdt]
        /\ \A p \in Pids \ {h} : fdt'[p] = fdt[p] /\ use'[p] = use[p]
    BY <2>1, <1>1, <1>2, <1>3 DEF TypeOK
  <2> QED BY <2>2 DEF IInv, NoDescriptorLeak
<1> QED BY <1>1, <1>4, <1>5, <1>6, <1>7, <1>8, <1>9 DEF IInv

\* The timer interrupt preserves the invariant.
LEMMA SwitchIInv ==
  ASSUME IInv, context_switch
  PROVE  IInv'
<1> USE Constants
<1> DEFINE t == schedule_index
           n == next_schedule
<1>1. TypeOK /\ TypeOK'
  BY SwitchTypeOK DEF IInv
<1>2. t \in Terms /\ n \in Terms /\ n # t
  BY <1>1, NextScheduleType DEF TypeOK
<1>3. /\ use' = use /\ parent_pid' = parent_pid /\ parent_esp0' = parent_esp0
      /\ parent_esp' = parent_esp /\ parent_fd' = parent_fd
      /\ screen_idx' = screen_idx /\ cur_pid' = cur_pid
      /\ cur_fd_ptr' = cur_fd_ptr /\ image' = image /\ fdt' = fdt
      /\ pc' = pc /\ schedule_index' = n
  BY DEF context_switch, save_context, pcbVars
<1>4. /\ cur_esp' = [cur_esp EXCEPT ![t] = StackOf(cur_pid[t], t)]
      /\ cur_esp0' = [cur_esp0 EXCEPT ![t] = StackOf(cur_pid[t], t)]
  BY KernelStack DEF context_switch, save_context, IInv, RunsInOwnContext
<1>5. BootOnlyWithoutProcess'
  <2>1. BootOnlyWithoutProcess
    BY DEF IInv
  <2>2. ~eflags_if' => cur_pid[n] = None
    BY Zenon DEF context_switch, save_context
  <2> QED BY <2>1, <2>2, <1>2, <1>3 DEF BootOnlyWithoutProcess
<1>6. ProcessTree'
  BY <1>3 DEF IInv, ProcessTree, Programs
<1>7. RunsInOwnContext'
  <2>1. /\ cur_esp0'[n] = StackOf(cur_pid[n], n)
        /\ cur_esp'[n] = StackOf(cur_pid[n], n)
        /\ cur_fd_ptr[n] = cur_pid[n]
    BY <1>1, <1>2, <1>4 DEF IInv, SavedContexts, TypeOK
  <2>2. /\ tss_esp0' = StackOf(cur_pid[n], n)
        /\ esp' = IF pc[n] = "user" THEN STACK_POINTER ELSE StackOf(cur_pid[n], n)
    BY <2>1 DEF context_switch, save_context
  <2>3. cur_pid[n] # None => pdt_exec' = exec_frame(cur_pid[n])
    BY DEF context_switch, save_context
  <2> QED BY <2>1, <2>2, <2>3, <1>3 DEF RunsInOwnContext, StackOf
<1>8. SavedContexts'
  <2>1. SavedContexts /\ cur_fd_ptr[t] = cur_pid[t]
    BY DEF IInv, RunsInOwnContext
  <2>2. ASSUME NEW u \in Terms
        PROVE  u # n => /\ cur_esp0'[u] = StackOf(cur_pid[u], u)
                        /\ cur_esp'[u] = StackOf(cur_pid[u], u)
                        /\ cur_fd_ptr[u] = cur_pid[u]
    BY <2>1, <1>1, <1>2, <1>4 DEF SavedContexts, TypeOK
  <2> QED BY <2>1, <2>2, <1>3 DEF SavedContexts, StackOf
<1>9. ImagesIntact' /\ NoDescriptorLeak'
  BY <1>3 DEF IInv, ImagesIntact, NoDescriptorLeak, exec_frame
<1> QED BY <1>1, <1>5, <1>6, <1>7, <1>8, <1>9 DEF IInv

\* The end of execute, back to user mode.
LEMMA ReturnIInv ==
  ASSUME IInv, NEW t \in Terms, Return(t)
  PROVE  IInv'
<1> USE Constants
<1>1. /\ schedule_index = t /\ pc[t] = "ret"
      /\ pc' = [pc EXCEPT ![t] = "user"]
      /\ esp' = STACK_POINTER
      /\ due' = [due EXCEPT ![t] = NothingDue]
      /\ UNCHANGED <<use, parent_pid, parent_esp0, parent_esp, parent_fd,
                     screen_idx, cur_pid, cur_esp0, cur_esp, cur_fd_ptr,
                     tss_esp0, pdt_exec, eflags_if, schedule_index, image,
                     fdt, ret_status>>
  BY DEF Return, pcbVars, procArrayVars
<1>2. TypeOK'
  BY <1>1, StackType DEF IInv, TypeOK
<1>3. BootOnlyWithoutProcess'
  BY <1>1 DEF IInv, TypeOK, BootOnlyWithoutProcess
<1>4. ImagesIntact' /\ NoDescriptorLeak'
  BY <1>1 DEF IInv, ImagesIntact, NoDescriptorLeak, exec_frame
<1>5. RunsInOwnContext'
  BY <1>1 DEF IInv, TypeOK, RunsInOwnContext, StackOf
<1>6. SavedContexts'
  BY <1>1 DEF IInv, SavedContexts, StackOf
<1>7. ProcessTree'
  <2>1. /\ use' = use /\ screen_idx' = screen_idx /\ cur_pid' = cur_pid
        /\ parent_pid' = parent_pid
    BY <1>1
  <2> QED BY <2>1 DEF IInv, ProcessTree, Programs
<1> QED BY <1>2, <1>3, <1>4, <1>5, <1>6, <1>7 DEF IInv

\* open and close, by a process that runs.
LEMMA SetFlagsIInv ==
  ASSUME IInv, pc[schedule_index] = "user", NEW S \in SUBSET Fds, SetFlags(S)
  PROVE  IInv'
<1> USE Constants
<1>1. /\ fdt' = [fdt EXCEPT ![cur_fd_ptr[schedule_index]] = S]
      /\ UNCHANGED <<use, parent_pid, parent_esp0, parent_esp, parent_fd,
                     screen_idx, cur_pid, cur_esp0, cur_esp, cur_fd_ptr,
                     tss_esp0, esp, pdt_exec, eflags_if, schedule_index, image,
                     ret_status, pc, due>>
  BY DEF SetFlags, pcbVars, procArrayVars, cpuVars
<1>2. TypeOK'
  BY SetFlagsTypeOK DEF IInv
<1>3. BootOnlyWithoutProcess' /\ ProcessTree' /\ ImagesIntact'
  BY <1>1 DEF IInv, BootOnlyWithoutProcess, ProcessTree, Programs, ImagesIntact,
              exec_frame
<1>4. RunsInOwnContext' /\ SavedContexts'
  BY <1>1 DEF IInv, RunsInOwnContext, SavedContexts, StackOf
<1>5. NoDescriptorLeak'
  <2>1. /\ cur_fd_ptr[schedule_index] \in Pids
        /\ use[cur_fd_ptr[schedule_index]] = 1
    BY UserHasProcess DEF IInv, RunsInOwnContext
  <2> QED BY <2>1, <1>1 DEF IInv, NoDescriptorLeak, TypeOK
<1> QED BY <1>2, <1>3, <1>4, <1>5 DEF IInv

\* boot_shell with a full pool only masks interrupts.
LEMMA BootShellFailsIInv ==
  ASSUME IInv, BootShellFails
  PROVE  IInv'
<1>1. /\ pc[schedule_index] = "boot" /\ eflags_if' = FALSE
      /\ UNCHANGED <<use, parent_pid, parent_esp0, parent_esp, parent_fd,
                     screen_idx, cur_pid, cur_esp0, cur_esp, cur_fd_ptr,
                     tss_esp0, esp, pdt_exec, schedule_index, image,
                     fdt, ret_status, pc, due>>
  BY DEF BootShellFails, pcbVars, procArrayVars
<1>2. TypeOK' /\ BootOnlyWithoutProcess'
  BY <1>1 DEF IInv, TypeOK, BootOnlyWithoutProcess
<1>3. ProcessTree' /\ ImagesIntact' /\ NoDescriptorLeak'
  BY <1>1 DEF IInv, ProcessTree, Programs, ImagesIntact, NoDescriptorLeak, exec_frame
<1>4. RunsInOwnContext' /\ SavedContexts'
  BY <1>1 DEF IInv, RunsInOwnContext, SavedContexts, StackOf
<1> QED BY <1>2, <1>3, <1>4 DEF IInv

-----------------------------------------------------------------------------
(* The theorems *)

\* Every step preserves the inductive invariant.
LEMMA NextIInv == IInv /\ [Next]_vars => IInv'
<1> SUFFICES ASSUME IInv, [Next]_vars PROVE IInv' OBVIOUS
<1>1. CASE Execute
  BY <1>1, ExecuteIInv DEF Execute
<1>2. CASE BootShell
  BY <1>2, ExecuteIInv DEF BootShell
<1>3. CASE BootShellFails
  BY <1>3, BootShellFailsIInv
<1>4. ASSUME NEW status \in Statuses, halt(status)
      PROVE  IInv'
  <2>1. SignExtend8(status) \in -128..127
    BY SignExtendType
  <2> QED BY <1>4, <2>1, RestoreIInv, ZenonT(40) DEF halt
<1>5. CASE halt_exception
  <2>1. ret_status' \in -128..127
    BY <1>5 DEF halt_exception, IInv, TypeOK
  <2> QED BY <1>5, <2>1, RestoreIInv, ZenonT(40) DEF halt_exception
<1>6. ASSUME NEW t \in Terms, Return(t)
      PROVE  IInv'
  BY <1>6, ReturnIInv
<1>7. CASE context_switch
  BY <1>7, SwitchIInv
<1>8. CASE open
  <2>1. PICK fd \in Fds : SetFlags(fdt[cur_fd_ptr[schedule_index]] \cup {fd})
    BY <1>8 DEF open
  <2>2. fdt[cur_fd_ptr[schedule_index]] \cup {fd} \in SUBSET Fds
    BY DEF IInv, TypeOK
  <2> QED BY <1>8, <2>1, <2>2, SetFlagsIInv DEF open
<1>9. ASSUME NEW fd \in Fds, close(fd)
      PROVE  IInv'
  <2>1. fdt[cur_fd_ptr[schedule_index]] \ {fd} \in SUBSET Fds
    BY DEF IInv, TypeOK
  <2> QED BY <1>9, <2>1, SetFlagsIInv DEF close
<1>10. CASE SyscallFails \/ UNCHANGED vars
  <2>1. UNCHANGED <<use, parent_pid, parent_esp0, parent_esp, parent_fd,
                    screen_idx, cur_pid, cur_esp0, cur_esp, cur_fd_ptr,
                    tss_esp0, esp, pdt_exec, eflags_if, schedule_index, image,
                    fdt, ret_status, pc, due>>
    BY <1>10 DEF SyscallFails, vars, pcbVars, procArrayVars, cpuVars
  <2>2. TypeOK' /\ BootOnlyWithoutProcess'
    BY <2>1 DEF IInv, TypeOK, BootOnlyWithoutProcess
  <2>3. ProcessTree' /\ ImagesIntact' /\ NoDescriptorLeak'
    BY <2>1 DEF IInv, ProcessTree, Programs, ImagesIntact, NoDescriptorLeak,
                exec_frame
  <2>4. RunsInOwnContext' /\ SavedContexts'
    BY <2>1 DEF IInv, RunsInOwnContext, SavedContexts, StackOf
  <2> QED BY <2>2, <2>3, <2>4 DEF IInv
<1> QED
  BY <1>1, <1>2, <1>3, <1>4, <1>5, <1>6, <1>7, <1>8, <1>9, <1>10 DEF Next

\* The inductive invariant holds of every behaviour.
THEOREM Invariance == Spec => []IInv
BY InitIInv, NextIInv, PTL DEF Spec

\* Type correctness, for every number of PCBs, terminals and descriptors.
THEOREM TypeCorrect == Spec => []TypeOK
<1>1. IInv => TypeOK
  BY DEF IInv
<1> QED BY <1>1, Invariance, PTL

\* The PCBs in use always form one chain per terminal, whatever execute,
\* halt, exceptions and timer ticks interleave.
THEOREM TreeSafety == Spec => []ProcessTree
<1>1. IInv => ProcessTree
  BY DEF IInv
<1> QED BY <1>1, Invariance, PTL

\* What runs always runs in the context of its terminal's current process.
THEOREM ContextSafety == Spec => []RunsInOwnContext
<1>1. IInv => RunsInOwnContext
  BY DEF IInv
<1> QED BY <1>1, Invariance, PTL

\* The saved context of every suspended terminal and every waiting parent is
\* the right one at all times.
THEOREM SavedSafety == Spec => []SavedContexts
<1>1. IInv => SavedContexts
  BY DEF IInv
<1> QED BY <1>1, Invariance, PTL

\* No program is ever loaded over a live one.
THEOREM ImageSafety == Spec => []ImagesIntact
<1>1. IInv => ImagesIntact
  BY DEF IInv
<1> QED BY <1>1, Invariance, PTL

\* No descriptor stays open in a PCB that was freed.
THEOREM LeakSafety == Spec => []NoDescriptorLeak
<1>1. IInv => NoDescriptorLeak
  BY DEF IInv
<1> QED BY <1>1, Invariance, PTL

\* A step that changes the open descriptors of a live process is its own.
LEMMA StepDescriptors == IInv /\ [Next]_vars => [DescriptorStep]_vars
<1> SUFFICES ASSUME IInv, Next PROVE DescriptorStep OBVIOUS
<1> USE Constants
<1>1. ASSUME NEW i \in Pids, execute(i)
      PROVE  DescriptorStep
  <2>1. use[i] = 0 /\ fdt' = [fdt EXCEPT ![i] = {}]
    BY <1>1 DEF execute, load_image, get_avail_pcb
  <2>2. \A p \in Pids : p # i => fdt'[p] = fdt[p]
    BY <2>1 DEF IInv, TypeOK
  <2> QED BY <2>1, <2>2 DEF DescriptorStep
<1>2. ASSUME pc[schedule_index] = "user", RestoreParent(cur_pid[schedule_index])
      PROVE  DescriptorStep
  <2>1. /\ fdt' = [fdt EXCEPT ![cur_pid[schedule_index]] = {}]
        /\ use' = [use EXCEPT ![cur_pid[schedule_index]] = 0]
    BY <1>2 DEF RestoreParent, close_all, free_pcb, IInv, RunsInOwnContext
  <2>2. cur_pid[schedule_index] \in Pids
    BY <1>2, UserHasProcess
  <2>3. \A p \in Pids : p # cur_pid[schedule_index] => fdt'[p] = fdt[p]
    BY <2>1 DEF IInv, TypeOK
  <2>4. use'[cur_pid[schedule_index]] = 0
    BY <2>1, <2>2 DEF IInv, TypeOK
  <2> QED BY <2>3, <2>4 DEF DescriptorStep
<1>3. ASSUME NEW S, SetFlags(S)
      PROVE  DescriptorStep
  <2>1. /\ fdt' = [fdt EXCEPT ![cur_pid[schedule_index]] = S]
        /\ cur_pid' = cur_pid
    BY <1>3 DEF SetFlags, procArrayVars, IInv, RunsInOwnContext
  <2> QED BY <2>1 DEF DescriptorStep, IInv, TypeOK
<1>4. CASE fdt' = fdt
  BY <1>4 DEF DescriptorStep
<1>5. CASE Execute \/ BootShell
  BY <1>5, <1>1 DEF Execute, BootShell
<1>6. CASE (\E status \in Statuses : halt(status)) \/ halt_exception
  BY <1>6, <1>2 DEF halt, halt_exception
<1>7. CASE open \/ \E fd \in Fds : close(fd)
  BY <1>7, <1>3 DEF open, close
<1>8. CASE \/ SyscallFails \/ BootShellFails \/ context_switch
           \/ \E t \in Terms : Return(t)
  BY <1>8, <1>4
  DEF SyscallFails, vars, BootShellFails, context_switch, save_context, Return
<1> QED BY <1>5, <1>6, <1>7, <1>8 DEF Next

\* Descriptors are private to live processes in every behaviour.
THEOREM DescriptorSafety == Spec => DescriptorsPrivate
BY Invariance, StepDescriptors, PTL DEF Spec, DescriptorsPrivate

-----------------------------------------------------------------------------
(* Processes implements JobStacks *)

\* s is the chain of parents of terminal t, the base shell first: the stack
\* that ProcessesRefine reads off the PCBs.
IsChain(t, s) ==
  /\ IF s = <<>> THEN cur_pid[t] = None
     ELSE cur_pid[t] = s[Len(s)] /\ parent_pid[s[1]] = None
  /\ \A k \in 1 .. Len(s) - 1 : parent_pid[s[k + 1]] = s[k]
  /\ \A k \in 1 .. Len(s) : s[k] \in Programs(t)
  /\ \A j, k \in 1 .. Len(s) : s[j] = s[k] => j = k

\* Every terminal has a chain that ends.
Chained == \A t \in Terms : \E s \in Seq(Pids) : IsChain(t, s)

\* A set of numbers has a smallest element.
LEMMA Smallest ==
  ASSUME NEW S \in SUBSET Nat, S # {}
  PROVE  \E x \in S : \A y \in S : x <= y
<1>1. IsWellFoundedOn(OpToRel(<, Nat), Nat)
  BY NatLessThanWellFounded
<1>2. PICK x \in S : \A y \in S : <<y, x>> \notin OpToRel(<, Nat)
  BY <1>1, WFMin
<1>3. \A y \in S : x <= y
  <2> TAKE y \in S
  <2>1. <<y, x>> \in Nat \X Nat /\ ~(y < x)
    BY <1>2 DEF OpToRel
  <2> QED BY <2>1
<1> QED BY <1>3

\* A chain is not longer than the pool.
LEMMA ChainFits ==
  ASSUME NEW t, NEW s \in Seq(Pids), IsChain(t, s)
  PROVE  Len(s) \in 0 .. NumPcb
<1> DEFINE L == Len(s)
<1>1. L \in Nat /\ NumPcb \in Nat \ {0}
  BY ConstantsAssumption
<1>2. s \in [1 .. L -> Pids]
  OBVIOUS
<1>3. s \in Injection(1 .. L, Pids)
  BY <1>2 DEF IsChain, Injection, IsInjective
<1>4. IsFiniteSet(Pids) /\ Cardinality(Pids) = NumPcb
  BY <1>1, FS_Interval DEF Pids
<1>5. Cardinality(1 .. L) = L
  <2> HIDE DEF L
  <2>1. Cardinality(1 .. L) = IF 1 > L THEN 0 ELSE L - 1 + 1
    BY <1>1, FS_Interval
  <2> QED BY <1>1, <2>1
<1>6. L <= NumPcb
  BY <1>3, <1>4, <1>5, FS_Injection
<1> QED BY <1>1, <1>6

\* The n-th ancestor of the current process, read off a chain.
Up(s) == [n \in 0 .. NumPcb |-> IF n < Len(s) THEN s[Len(s) - n] ELSE None]

\* f follows parent_pid from the current process of t on.
Follows(t, f) ==
  f = [n \in 0 .. NumPcb |->
         IF n = 0 THEN cur_pid[t]
         ELSE IF f[n - 1] = None THEN None ELSE parent_pid[f[n - 1]]]

\* A chain does.
LEMMA ChainFollows ==
  ASSUME NEW t, NEW s \in Seq(Pids), IsChain(t, s)
  PROVE  Follows(t, Up(s))
<1> DEFINE L == Len(s)
           g == Up(s)
<1>1. L \in 0 .. NumPcb /\ NumPcb \in Nat
  BY ChainFits, ConstantsAssumption
<1>2. g = [n \in 0 .. NumPcb |-> IF n < L THEN s[L - n] ELSE None]
  BY DEF Up
<1>3. \A k \in 1 .. L : s[k] \in Pids /\ s[k] # None
  BY Constants
<1>4. /\ L = 0 => cur_pid[t] = None
      /\ L > 0 => cur_pid[t] = s[L] /\ parent_pid[s[1]] = None
      /\ \A k \in 1 .. L - 1 : parent_pid[s[k + 1]] = s[k]
  BY DEF IsChain
<1> HIDE DEF L, g
<1>5. \A n \in 0 .. NumPcb : g[n] = IF n < L THEN s[L - n] ELSE None
  BY <1>2
<1>6. ASSUME NEW n \in 0 .. NumPcb
      PROVE  g[n] = IF n = 0 THEN cur_pid[t]
                    ELSE IF g[n - 1] = None THEN None ELSE parent_pid[g[n - 1]]
  <2>1. CASE n = 0
    BY <1>1, <1>4, <1>5, <2>1
  <2>2. CASE n # 0 /\ n < L
    <3>1. /\ n - 1 \in 0 .. NumPcb /\ L - n \in 1 .. L - 1 /\ (L - n) + 1 = L - (n - 1)
          /\ L - (n - 1) \in 1 .. L /\ n - 1 < L
      BY <1>1, <2>2
    <3>2. g[n] = s[L - n] /\ g[n - 1] = s[L - (n - 1)]
      BY <1>5, <2>2, <3>1
    <3>3. parent_pid[s[L - (n - 1)]] = s[L - n] /\ s[L - (n - 1)] # None
      BY <1>3, <1>4, <3>1
    <3> QED BY <2>2, <3>2, <3>3
  <2>3. CASE n # 0 /\ n = L
    <3>1. n - 1 \in 0 .. NumPcb /\ n - 1 < L /\ L - (n - 1) = 1 /\ 1 \in 1 .. L /\ L > 0
      BY <1>1, <2>3
    <3>2. g[n] = None /\ g[n - 1] = s[1]
      BY <1>5, <2>3, <3>1
    <3> QED BY <1>3, <1>4, <2>3, <3>1, <3>2
  <2>4. CASE n # 0 /\ n > L
    <3>1. n - 1 \in 0 .. NumPcb /\ ~(n - 1 < L) /\ ~(n < L)
      BY <1>1, <2>4
    <3> QED BY <1>5, <2>4, <3>1
  <2> QED BY <1>1, <2>1, <2>2, <2>3, <2>4
<1>7. Follows(t, g)
  BY <1>2, <1>6 DEF Follows
<1> QED BY <1>7 DEF g

\* The function ProcessesRefine defines by recursion is the chain.
LEMMA AncestorIsChain ==
  ASSUME NEW t, NEW s \in Seq(Pids), IsChain(t, s)
  PROVE  Ancestor(t) = Up(s)
<1> DEFINE a == Ancestor(t)
           g == Up(s)
<1>1. Follows(t, g)
  BY ChainFollows
<1>2. a = CHOOSE f : Follows(t, f)
  BY DEF Ancestor, Follows
<1> HIDE DEF a, g
<1>3. Follows(t, a)
  BY <1>1, <1>2
<1>4. NumPcb \in Nat
  BY ConstantsAssumption
<1>5. \A n \in 0 .. NumPcb : a[n] = g[n]
  <2> DEFINE D == {k \in 0 .. NumPcb : a[k] # g[k]}
  <2> SUFFICES ASSUME D # {} PROVE FALSE
    OBVIOUS
  <2>0. D \in SUBSET Nat
    BY <1>4
  <2> HIDE DEF D
  <2>1. PICK n \in D : \A m \in D : n <= m
    BY <2>0, Smallest
  <2> USE DEF D
  <2>2. /\ a[n] = IF n = 0 THEN cur_pid[t]
                  ELSE IF a[n - 1] = None THEN None ELSE parent_pid[a[n - 1]]
        /\ g[n] = IF n = 0 THEN cur_pid[t]
                  ELSE IF g[n - 1] = None THEN None ELSE parent_pid[g[n - 1]]
    BY <1>1, <1>3 DEF Follows
  <2>3. n # 0 => n - 1 \in 0 .. NumPcb /\ ~(n <= n - 1)
    BY <1>4, <2>1
  <2>4. n # 0 => a[n - 1] = g[n - 1]
    BY <2>1, <2>3
  <2> QED BY <2>1, <2>2, <2>4
<1>6. a = [n \in 0 .. NumPcb |-> a[n]] /\ g = [n \in 0 .. NumPcb |-> g[n]]
  BY <1>1, <1>3 DEF Follows
<1>7. a = g
  BY <1>5, <1>6
<1> QED BY <1>7 DEF a, g

\* The jobs on a chain, with their descriptors.
View(s, d) == [k \in 1 .. Len(s) |-> [id |-> s[k], open |-> d[s[k]]]]

\* The stack of jobs of a terminal is its chain.
LEMMA JobsAreChain ==
  ASSUME NEW t, NEW s \in Seq(Pids), IsChain(t, s)
  PROVE  JobsOf(t) = View(s, fdt)
<1> DEFINE L == Len(s)
           g == Up(s)
           D == {n \in 0 .. NumPcb : g[n] # None}
<1>1. L \in 0 .. NumPcb /\ NumPcb \in Nat
  BY ChainFits, ConstantsAssumption
<1>2. \A k \in 1 .. L : s[k] # None
  BY Constants
<1>3. \A n \in 0 .. NumPcb : g[n] = IF n < L THEN s[L - n] ELSE None
  BY DEF Up
<1>4. JobsOf(t) = [k \in 1 .. Cardinality(D) |->
                     [id |-> g[Cardinality(D) - k], open |-> fdt[g[Cardinality(D) - k]]]]
  BY AncestorIsChain DEF JobsOf
<1>5. View(s, fdt) = [k \in 1 .. L |-> [id |-> s[k], open |-> fdt[s[k]]]]
  BY DEF View
<1> HIDE DEF L, g
<1>6. D = 0 .. L - 1
  <2>1. \A n \in 0 .. NumPcb : n < L => L - n \in 1 .. L
    BY <1>1
  <2>2. \A n \in 0 .. NumPcb : g[n] # None <=> n < L
    BY <1>2, <1>3, <2>1
  <2> QED BY <1>1, <2>2
<1> HIDE DEF D
<1>7. Cardinality(D) = L
  <2>1. L - 1 \in Int
    BY <1>1
  <2>2. Cardinality(0 .. L - 1) = IF 0 > L - 1 THEN 0 ELSE (L - 1) - 0 + 1
    BY <2>1, FS_Interval
  <2> QED BY <1>1, <1>6, <2>2
<1>8. \A k \in 1 .. L : g[L - k] = s[k]
  <2> TAKE k \in 1 .. L
  <2>1. L - k \in 0 .. NumPcb /\ L - k < L /\ L - (L - k) = k
    BY <1>1
  <2> QED BY <1>3, <2>1
<1> QED BY <1>4, <1>5, <1>7, <1>8

\* The same, as a formula about a state.
ChainsAreJobs == \A t \in Terms, s \in Seq(Pids) : IsChain(t, s) => JobsOf(t) = View(s, fdt)

\* It holds in this state and in the next.
LEMMA ChainsAreJobsNow == ChainsAreJobs
BY JobsAreChain DEF ChainsAreJobs

\* The chains of all terminals.
Chains(S) == S \in [Terms -> Seq(Pids)] /\ \A t \in Terms : IsChain(t, S[t])

\* A step between two states of which the chains are known.
LEMMA StacksStep ==
  ASSUME NEW S, NEW T, Chains(S), Chains(T)'
  PROVE  /\ [t \in Terms |-> JobsOf(t)] = [t \in Terms |-> View(S[t], fdt)]
         /\ [t \in Terms |-> JobsOf(t)]' = [t \in Terms |-> View(T[t], fdt')]
         /\ Chained'
<1>1. ChainsAreJobs /\ ChainsAreJobs'
  BY ChainsAreJobsNow, PTL
<1>2. \A t \in Terms : JobsOf(t) = View(S[t], fdt)
  BY <1>1 DEF Chains, ChainsAreJobs
<1>3. \A t \in Terms : JobsOf(t)' = View(T[t], fdt')
  <2> SUFFICES ASSUME NEW t \in Terms PROVE JobsOf(t)' = View(T[t], fdt')
    OBVIOUS
  <2>1. T[t] \in Seq(Pids) /\ IsChain(t, T[t])'
    BY DEF Chains
  <2>2. \A s \in Seq(Pids) : IsChain(t, s)' => JobsOf(t)' = View(s, fdt)'
    BY <1>1 DEF ChainsAreJobs
  <2>3. JobsOf(t)' = View(T[t], fdt)'
    BY <2>1, <2>2
  <2> QED BY <2>3 DEF View
<1>4. Chained'
  BY DEF Chains, Chained
<1> QED BY <1>2, <1>3, <1>4

\* Every terminal has a chain: choose one.
LEMMA ChooseChains ==
  ASSUME Chained
  PROVE  \E S : Chains(S)
<1> DEFINE S == [t \in Terms |-> CHOOSE s \in Seq(Pids) : IsChain(t, s)]
<1>1. \A t \in Terms : S[t] \in Seq(Pids) /\ IsChain(t, S[t])
  BY DEF Chained
<1>2. S \in [Terms -> Seq(Pids)]
  BY <1>1
<1> QED BY <1>1, <1>2 DEF Chains

\* A process that no chain reaches may change.
LEMMA SameChain ==
  ASSUME TypeOK, TypeOK', NEW t \in Terms, NEW s \in Seq(Pids), IsChain(t, s),
         cur_pid'[t] = cur_pid[t],
         \A p \in Programs(t) : /\ parent_pid'[p] = parent_pid[p]
                                /\ p \in Programs(t)'
  PROVE  IsChain(t, s)'
<1>1. \A k \in 1 .. Len(s) : s[k] \in Programs(t)
  BY DEF IsChain
<1>2. \A k \in 1 .. Len(s) : s[k] \in Programs(t)' /\ parent_pid'[s[k]] = parent_pid[s[k]]
  BY <1>1
<1>3. s # <<>> => 1 \in 1 .. Len(s)
  OBVIOUS
<1>4. \A k \in 1 .. Len(s) - 1 : k + 1 \in 1 .. Len(s)
  OBVIOUS
<1> QED BY <1>2, <1>3, <1>4 DEF IsChain

\* A step that leaves the chains and the descriptors alone.
LEMMA NoJobStep ==
  ASSUME IInv, IInv', NEW S, Chains(S),
         UNCHANGED <<use, parent_pid, screen_idx, cur_pid, fdt>>
  PROVE  Chains(S)' /\ UNCHANGED [t \in Terms |-> JobsOf(t)]
<1>1. \A t \in Terms : Programs(t)' = Programs(t)
  BY DEF Programs
<1>2. ASSUME NEW t \in Terms PROVE IsChain(t, S[t])'
  <2>1. S[t] \in Seq(Pids) /\ IsChain(t, S[t])
    BY DEF Chains
  <2> QED BY <1>1, <2>1, SameChain DEF IInv
<1>3. Chains(S)'
  BY <1>2 DEF Chains
<1> QED BY <1>3, StacksStep

\* execute starts a job on top of its caller.
LEMMA ExecuteStarts ==
  ASSUME IInv, IInv', NEW S, Chains(S), NEW i \in Pids, execute(i),
         NEW t, t = schedule_index
  PROVE  Chained' /\ Abstract!Start(i)
<1> USE Constants
<1> DEFINE s == S[t]
           T == [S EXCEPT ![t] = Append(s, i)]
           job == [id |-> i, open |-> {}]
<1>1. TypeOK /\ TypeOK' /\ t \in Terms
  BY DEF IInv, TypeOK
<1>2. /\ use[i] = 0 /\ use' = [use EXCEPT ![i] = 1]
      /\ parent_pid' = [parent_pid EXCEPT ![i] = cur_pid[t]]
      /\ cur_pid' = [cur_pid EXCEPT ![t] = i]
      /\ screen_idx' = [screen_idx EXCEPT ![i] = t]
      /\ fdt' = [fdt EXCEPT ![i] = {}] /\ schedule_index' = t
  BY DEF execute, load_image, get_avail_pcb
<1>3. \A u \in Terms : /\ i \notin Programs(u)
                       /\ \A p \in Programs(u) : p \in Programs(u)'
                                               /\ parent_pid'[p] = parent_pid[p]
  BY <1>1, <1>2 DEF Programs, TypeOK
<1>4. i \in Programs(t)' /\ cur_pid'[t] = i /\ parent_pid'[i] = cur_pid[t]
  BY <1>1, <1>2 DEF Programs, TypeOK
<1>5. \A u \in Terms : S[u] \in Seq(Pids) /\ IsChain(u, S[u])
  BY DEF Chains
<1>6. \A u \in Terms : \A k \in 1 .. Len(S[u]) : S[u][k] \in Programs(u) /\ S[u][k] # i
  <2> TAKE u \in Terms
  <2>1. IsChain(u, S[u]) /\ i \notin Programs(u)
    BY <1>3, <1>5
  <2> QED BY <2>1 DEF IsChain
<1>7. IsChain(t, Append(s, i))'
  <2> DEFINE L == Len(s)
             a == Append(s, i)
  <2>0. s \in Seq(Pids) /\ L \in Nat
    BY <1>1, <1>5
  <2>1. /\ s \in Seq(Pids) /\ L \in Nat /\ a \in Seq(Pids) /\ Len(a) = L + 1 /\ a # <<>>
        /\ \A k \in 1 .. L : a[k] = s[k]
    <3> HIDE DEF s
    <3> QED BY <2>0, AppendProperties
  <2>2. a[L + 1] = i
    <3> HIDE DEF s
    <3> QED BY <2>0, AppendProperties
  <2>3. IsChain(t, s) /\ (L = 0 <=> s = <<>>)
    <3>1. IsChain(t, s)
      BY <1>1, <1>5
    <3> HIDE DEF s
    <3> QED BY <2>0, <3>1
  <2> HIDE DEF a
  <2>4. cur_pid'[t] = a[Len(a)]
    BY <1>4, <2>1, <2>2
  <2>5. \A k \in 1 .. L : a[k] \in Programs(t)' /\ parent_pid'[a[k]] = parent_pid[s[k]]
    BY <1>1, <1>3, <1>6, <2>1
  <2>6. \A k \in 1 .. Len(a) : a[k] \in Programs(t)'
    BY <1>4, <2>1, <2>2, <2>5
  <2>7. parent_pid'[a[1]] = None
    <3>1. CASE L = 0
      BY <1>4, <2>2, <2>3, <3>1 DEF IsChain
    <3>2. CASE L # 0
      <4>1. 1 \in 1 .. L
        BY <2>1, <3>2
      <4> QED BY <2>3, <2>5, <3>2, <4>1 DEF IsChain
    <3> QED BY <3>1, <3>2
  <2>8. \A k \in 1 .. Len(a) - 1 : parent_pid'[a[k + 1]] = a[k]
    <3> TAKE k \in 1 .. Len(a) - 1
    <3>1. CASE k = L
      <4>1. L # 0 /\ a[k] = s[L]
        BY <2>1, <3>1
      <4>2. cur_pid[t] = s[L]
        BY <2>3, <4>1 DEF IsChain
      <4> QED BY <1>4, <2>2, <3>1, <4>1, <4>2
    <3>2. CASE k # L
      <4>1. k \in 1 .. L - 1 /\ k + 1 \in 1 .. L /\ k \in 1 .. L
        <5> HIDE DEF L
        <5> QED BY <2>1, <3>2
      <4>2. parent_pid[s[k + 1]] = s[k]
        BY <2>3, <4>1 DEF IsChain
      <4> QED BY <2>1, <2>5, <4>1, <4>2
    <3> QED BY <3>1, <3>2
  <2>9. \A j, k \in 1 .. Len(a) : a[j] = a[k] => j = k
    <3> SUFFICES ASSUME NEW j \in 1 .. Len(a), NEW k \in 1 .. Len(a), a[j] = a[k]
                 PROVE  j = k
      OBVIOUS
    <3>1. \A m \in 1 .. L : a[m] = s[m] /\ a[m] # i
      BY <1>1, <1>6, <2>1
    <3>2. \A m \in 1 .. Len(a) : m \in 1 .. L \/ m = L + 1
      <4> HIDE DEF L
      <4> QED BY <2>1
    <3>3. \A m, n \in 1 .. L : s[m] = s[n] => m = n
      BY <2>3 DEF IsChain
    <3> QED BY <2>2, <3>1, <3>2, <3>3
  <2>10. a # <<>>
    BY <2>1
  <2>11. IsChain(t, a)'
    BY <2>4, <2>6, <2>7, <2>8, <2>9, <2>10 DEF IsChain
  <2> QED BY <2>11 DEF a
<1>8. Chains(T)'
  <2>1. T \in [Terms -> Seq(Pids)]
    BY <1>1, <1>5, AppendProperties DEF Chains
  <2>2. T[t] = Append(s, i)
    BY <1>1 DEF Chains
  <2>3. ASSUME NEW u \in Terms, u # t PROVE T[u] = S[u] /\ IsChain(u, S[u])'
    <3>1. T[u] = S[u] /\ cur_pid'[u] = cur_pid[u]
      BY <1>1, <1>2, <2>3 DEF Chains, TypeOK
    <3> QED BY <1>1, <1>3, <1>5, <3>1, SameChain
  <2> QED BY <1>7, <2>1, <2>2, <2>3 DEF Chains
<1>9. /\ [u \in Terms |-> JobsOf(u)] = [u \in Terms |-> View(S[u], fdt)]
      /\ [u \in Terms |-> JobsOf(u)]' = [u \in Terms |-> View(T[u], fdt')]
      /\ Chained'
  <2> HIDE DEF T
  <2> QED BY <1>8, StacksStep
<1>10. ASSUME NEW u \in Terms
       PROVE  View(T[u], fdt') = IF u = t THEN Append(View(S[u], fdt), job)
                                 ELSE View(S[u], fdt)
  <2>1. \A k \in 1 .. Len(S[u]) : S[u][k] \in Pids /\ fdt'[S[u][k]] = fdt[S[u][k]]
    <3> TAKE k \in 1 .. Len(S[u])
    <3>1. S[u] \in Seq(Pids)
      BY <1>5
    <3>2. S[u][k] \in Pids
      BY <3>1
    <3>3. S[u][k] # i
      BY <1>6
    <3> QED BY <1>1, <1>2, <3>2, <3>3 DEF TypeOK
  <2>2. CASE u # t
    <3>1. T[u] = S[u]
      BY <2>2 DEF Chains
    <3> QED BY <2>1, <2>2, <3>1 DEF View
  <2>3. CASE u = t
    <3> DEFINE a == Append(s, i)
               v == View(s, fdt)
               L == Len(s)
    <3>1. /\ L \in Nat /\ a \in Seq(Pids) /\ Len(a) = L + 1 /\ a[L + 1] = i
          /\ \A k \in 1 .. L : a[k] = s[k]
      BY <1>1, <1>5, AppendProperties
    <3>2. v = [k \in 1 .. L |-> [id |-> s[k], open |-> fdt[s[k]]]]
      BY DEF View
    <3>3. T[u] = a
      BY <1>1, <2>3 DEF Chains
    <3>4. View(a, fdt') = [k \in 1 .. L + 1 |-> [id |-> a[k], open |-> fdt'[a[k]]]]
      BY <3>1 DEF View
    <3>5. fdt'[i] = {}
      BY <1>1, <1>2 DEF TypeOK
    <3> HIDE DEF a, v, L
    <3>6. \A k \in 1 .. L : fdt'[s[k]] = fdt[s[k]]
      BY <2>1, <2>3 DEF L
    <3>7. Append(v, job) = [k \in 1 .. L + 1 |-> IF k = L + 1 THEN job ELSE v[k]]
      BY <3>1, <3>2
    <3>8. \A k \in 1 .. L + 1 : k = L + 1 \/ k \in 1 .. L
      BY <3>1
    <3>9. \A k \in 1 .. L + 1 : [id |-> a[k], open |-> fdt'[a[k]]]
                                  = IF k = L + 1 THEN job ELSE v[k]
      BY <3>1, <3>2, <3>5, <3>6, <3>8
    <3>10. View(a, fdt') = Append(v, job)
      BY <3>4, <3>7, <3>9
    <3> QED BY <2>3, <3>3, <3>10 DEF a, v
  <2> QED BY <2>2, <2>3
<1>11. [u \in Terms |-> JobsOf(u)]'
         = [[u \in Terms |-> JobsOf(u)] EXCEPT ![t] = Append(@, job)]
  BY <1>1, <1>9, <1>10, ZenonT(40)
<1>12. i \notin Abstract!Busy
  <2>1. \A u \in Terms : JobsOf(u) = View(S[u], fdt)
    BY <1>9
  <2>2. \A u \in Terms : \A k \in DOMAIN View(S[u], fdt) : View(S[u], fdt)[k].id # i
    BY <1>6 DEF View
  <2> QED BY <2>1, <2>2 DEF Abstract!Busy, Abstract!Terminals, Terms
<1> QED BY <1>2, <1>9, <1>11, <1>12 DEF Abstract!Start

\* halt and halt_exception take the top job away.
LEMMA HaltExits ==
  ASSUME IInv, IInv', NEW S, Chains(S), pc[schedule_index] = "user",
         RestoreParent(cur_pid[schedule_index]),
         NEW t, t = schedule_index, NEW h, h = cur_pid[t]
  PROVE  Chained' /\ Abstract!Exit
<1> USE Constants
<1> DEFINE s == S[t]
           L == Len(s)
           f == SubSeq(s, 1, L - 1)
           T == [S EXCEPT ![t] = f]
<1>1. TypeOK /\ TypeOK' /\ t \in Terms /\ h \in Pids /\ use[h] = 1 /\ screen_idx[h] = t
  BY UserHasProcess DEF IInv
<1>2. /\ use' = [use EXCEPT ![h] = 0] /\ parent_pid' = parent_pid
      /\ cur_pid' = [cur_pid EXCEPT ![t] = parent_pid[h]]
      /\ screen_idx' = screen_idx /\ schedule_index' = t
      /\ fdt' = [fdt EXCEPT ![h] = {}]
  BY DEF RestoreParent, close_all, free_pcb, IInv, RunsInOwnContext
<1>3. \A u \in Terms : Programs(u)' = Programs(u) \ {h} /\ (u # t => h \notin Programs(u))
  BY <1>1, <1>2 DEF Programs, TypeOK
<1>4. \A u \in Terms : S[u] \in Seq(Pids) /\ IsChain(u, S[u])
  BY DEF Chains
<1>5. s \in Seq(Pids) /\ L \in Nat /\ IsChain(t, s) /\ s # <<>> /\ L >= 1
  <2>1. s \in Seq(Pids) /\ IsChain(t, s)
    BY <1>1, <1>4
  <2>2. s # <<>>
    BY <1>1, <2>1 DEF IsChain
  <2> QED BY <2>1, <2>2
<1>6. /\ s[L] = h /\ parent_pid[s[1]] = None
      /\ \A k \in 1 .. L - 1 : parent_pid[s[k + 1]] = s[k]
      /\ \A k \in 1 .. L : s[k] \in Programs(t)
      /\ \A j, k \in 1 .. L : s[j] = s[k] => j = k
  BY <1>5 DEF IsChain
<1>7. f \in Seq(Pids) /\ Len(f) = L - 1 /\ \A k \in 1 .. L - 1 : f[k] = s[k]
  <2> HIDE DEF s
  <2>1. L - 1 \in Int /\ \A k \in 1 .. L - 1 : s[k] \in Pids
    BY <1>5
  <2>2. /\ f \in Seq(Pids) /\ Len(f) = IF 1 <= L - 1 THEN (L - 1) - 1 + 1 ELSE 0
        /\ \A k \in 1 .. (L - 1) - 1 + 1 : f[k] = s[1 + k - 1]
    <3> HIDE DEF L
    <3> QED BY <2>1, SubSeqProperties
  <2> HIDE DEF L, f
  <2>3. L \in Nat /\ L >= 1
    BY <1>5
  <2>4. (L - 1) - 1 + 1 = L - 1 /\ (~(1 <= L - 1) => L - 1 = 0)
    BY <2>3
  <2>5. Len(f) = L - 1
    BY <2>2, <2>4
  <2>6. \A k \in 1 .. L - 1 : f[k] = s[k]
    <3> TAKE k \in 1 .. L - 1
    <3>1. k \in 1 .. (L - 1) - 1 + 1 /\ 1 + k - 1 = k
      BY <2>3, <2>4
    <3>2. f[k] = s[1 + k - 1]
      BY <2>2, <3>1
    <3> QED BY <3>1, <3>2
  <2> QED BY <2>2, <2>5, <2>6
<1> HIDE DEF L, f, s
<1>8. \A k \in 1 .. L - 1 : s[k] # h /\ s[k] \in Programs(t)
  BY <1>5, <1>6
<1>9. IsChain(t, f)'
  <2>1. cur_pid'[t] = parent_pid[h]
    BY <1>1, <1>2 DEF TypeOK
  <2>2. IF f = <<>> THEN cur_pid'[t] = None
        ELSE cur_pid'[t] = f[Len(f)] /\ parent_pid'[f[1]] = None
    <3>1. CASE L = 1
      <4>1. f = <<>>
        BY <1>7, <3>1
      <4> QED BY <1>6, <2>1, <3>1, <4>1
    <3>2. CASE L # 1
      <4>1. /\ L - 1 \in 1 .. L - 1 /\ 1 \in 1 .. L - 1 /\ (L - 1) + 1 = L /\ Len(f) # 0
            /\ Len(f) = L - 1
        BY <1>5, <1>7, <3>2
      <4>2. parent_pid[s[(L - 1) + 1]] = s[L - 1]
        BY <1>6, <4>1
      <4>3. f # <<>> /\ f[L - 1] = s[L - 1] /\ f[1] = s[1]
        BY <1>7, <4>1
      <4> QED BY <1>2, <1>6, <2>1, <4>1, <4>2, <4>3
    <3> QED BY <3>1, <3>2
  <2>3. \A k \in 1 .. Len(f) - 1 : parent_pid'[f[k + 1]] = f[k]
    <3> TAKE k \in 1 .. Len(f) - 1
    <3>1. k \in 1 .. L - 1 /\ k + 1 \in 1 .. L - 1
      BY <1>5, <1>7
    <3> QED BY <1>2, <1>6, <1>7, <3>1
  <2>4. \A k \in 1 .. Len(f) : f[k] \in Programs(t)'
    BY <1>1, <1>3, <1>7, <1>8
  <2>5. \A j, k \in 1 .. Len(f) : f[j] = f[k] => j = k
    <3>1. \A k \in 1 .. Len(f) : k \in 1 .. L /\ f[k] = s[k]
      BY <1>5, <1>7
    <3> QED BY <1>6, <3>1
  <2> QED BY <2>2, <2>3, <2>4, <2>5 DEF IsChain
<1>10. Chains(T)'
  <2>1. T \in [Terms -> Seq(Pids)] /\ T[t] = f
    BY <1>1, <1>7 DEF Chains
  <2>2. ASSUME NEW u \in Terms, u # t PROVE T[u] = S[u] /\ IsChain(u, S[u])'
    <3>1. T[u] = S[u] /\ cur_pid'[u] = cur_pid[u]
      BY <1>1, <1>2, <2>2 DEF Chains, TypeOK
    <3>2. \A p \in Programs(u) : parent_pid'[p] = parent_pid[p] /\ p \in Programs(u)'
      BY <1>2, <1>3, <2>2
    <3> QED BY <1>1, <1>4, <3>1, <3>2, SameChain
  <2> QED BY <1>9, <2>1, <2>2 DEF Chains
<1>11. /\ [u \in Terms |-> JobsOf(u)] = [u \in Terms |-> View(S[u], fdt)]
       /\ [u \in Terms |-> JobsOf(u)]' = [u \in Terms |-> View(T[u], fdt')]
       /\ Chained'
  <2> HIDE DEF T
  <2> QED BY <1>10, StacksStep
<1>12. View(s, fdt) # <<>> /\ View(f, fdt') = Abstract!Front(View(s, fdt))
  <2> DEFINE v == View(s, fdt)
             w == View(f, fdt')
             b == SubSeq(v, 1, Len(v) - 1)
  <2>1. v = [k \in 1 .. L |-> [id |-> s[k], open |-> fdt[s[k]]]]
    BY DEF View, L
  <2>2. w = [k \in 1 .. L - 1 |-> [id |-> f[k], open |-> fdt'[f[k]]]]
    BY <1>7 DEF View
  <2>3. \A k \in 1 .. L - 1 : fdt'[s[k]] = fdt[s[k]]
    <3> TAKE k \in 1 .. L - 1
    <3>1. s[k] \in Pids /\ s[k] # h
      BY <1>8 DEF Programs
    <3> QED BY <1>1, <1>2, <3>1 DEF TypeOK
  <2> HIDE DEF v, w
  <2>4. v \in Seq({v[k] : k \in 1 .. L}) /\ Len(v) = L
    <3> DEFINE V == {v[k] : k \in 1 .. L}
    <3>1. v \in [1 .. L -> V]
      BY <2>1
    <3> HIDE DEF V
    <3>2. v \in Seq(V) /\ Len(v) = L
      BY <1>5, <3>1
    <3> QED BY <3>2 DEF V
  <2>5. Len(b) = L - 1 /\ b = [k \in 1 .. L - 1 |-> v[k]]
    BY <1>5, <2>4
  <2>6. \A k \in 1 .. L - 1 : v[k] = w[k]
    BY <1>5, <1>7, <2>1, <2>2, <2>3
  <2>7. w = b
    BY <2>2, <2>5, <2>6
  <2> QED BY <1>5, <2>4, <2>7 DEF v, w, Abstract!Front
<1>13. ASSUME NEW u \in Terms, u # t PROVE View(T[u], fdt') = View(S[u], fdt)
  <2>1. T[u] = S[u] /\ \A k \in 1 .. Len(S[u]) : S[u][k] \in Programs(u)
    BY <1>4, <1>13 DEF Chains, IsChain
  <2>2. \A k \in 1 .. Len(S[u]) : fdt'[S[u][k]] = fdt[S[u][k]]
    <3> TAKE k \in 1 .. Len(S[u])
    <3>1. S[u][k] \in Pids /\ S[u][k] # h
      BY <1>3, <1>13, <2>1 DEF Programs
    <3> QED BY <1>1, <1>2, <3>1 DEF TypeOK
  <2> QED BY <2>1, <2>2 DEF View
<1>14. T[t] = f
  BY <1>1 DEF Chains
<1>15. [u \in Terms |-> JobsOf(u)]'
         = [[u \in Terms |-> JobsOf(u)] EXCEPT ![t] = Abstract!Front(@)]
  <2>1. \A u \in Terms : View(T[u], fdt') = IF u = t THEN Abstract!Front(View(S[u], fdt))
                                             ELSE View(S[u], fdt)
    BY <1>12, <1>13, <1>14 DEF s
  <2> DEFINE J == [u \in Terms |-> JobsOf(u)]
             front == Abstract!Front(View(S[t], fdt))
  <2>2. J[t] = View(S[t], fdt)
    BY <1>1, <1>11
  <2>3. J' = [u \in Terms |-> IF u = t THEN front ELSE View(S[u], fdt)]
    <3> HIDE DEF T, front
    <3> QED BY <1>11, <2>1 DEF front
  <2>4. J = [u \in Terms |-> View(S[u], fdt)]
    BY <1>11
  <2>5. Abstract!Front(J[t]) = front
    BY <2>2
  <2> HIDE DEF J, front
  <2>6. J' = [J EXCEPT ![t] = front]
    BY <1>1, <2>3, <2>4
  <2>7. J' = [J EXCEPT ![t] = Abstract!Front(J[t])]
    BY <2>5, <2>6
  <2> QED BY <2>7 DEF J
<1>16. [u \in Terms |-> JobsOf(u)][t] # <<>>
  BY <1>1, <1>11, <1>12 DEF s
<1> QED BY <1>2, <1>11, <1>15, <1>16 DEF Abstract!Exit

\* open and close change one descriptor of the top job.
LEMMA SetFlagsUses ==
  ASSUME IInv, IInv', NEW S, Chains(S), pc[schedule_index] = "user",
         NEW t, t = schedule_index, NEW h, h = cur_pid[t],
         NEW fd \in Fds, NEW now, now = fdt[cur_fd_ptr[t]],
         NEW new, new = IF fd \in now THEN now \ {fd} ELSE now \cup {fd}, SetFlags(new)
  PROVE  Chained' /\ Abstract!UseFd(fd)
<1> USE Constants
<1> DEFINE s == S[t]
           L == Len(s)
           J == [u \in Terms |-> JobsOf(u)]
<1>1. TypeOK /\ TypeOK' /\ t \in Terms /\ h \in Pids /\ screen_idx[h] = t /\ cur_fd_ptr[t] = h
  BY UserHasProcess DEF IInv, RunsInOwnContext
<1>2. /\ fdt' = [fdt EXCEPT ![h] = new] /\ now = fdt[h]
      /\ UNCHANGED <<use, parent_pid, screen_idx, cur_pid, schedule_index>>
  BY <1>1 DEF SetFlags, pcbVars, procArrayVars
<1>3. \A u \in Terms : Programs(u)' = Programs(u)
  BY <1>2 DEF Programs
<1>4. \A u \in Terms : S[u] \in Seq(Pids) /\ IsChain(u, S[u])
  BY DEF Chains
<1>5. Chains(S)'
  <2>1. ASSUME NEW u \in Terms PROVE IsChain(u, S[u])'
    BY <1>1, <1>2, <1>3, <1>4, SameChain
  <2> QED BY <2>1 DEF Chains
<1>6. J = [u \in Terms |-> View(S[u], fdt)] /\ J' = [u \in Terms |-> View(S[u], fdt')] /\ Chained'
  BY <1>5, StacksStep
<1>7. s \in Seq(Pids) /\ L \in Nat /\ L >= 1 /\ s[L] = h /\ \A k \in 1 .. L - 1 : s[k] # h
  <2>1. s \in Seq(Pids) /\ IsChain(t, s)
    BY <1>1, <1>4
  <2>2. s # <<>>
    BY <1>1, <2>1 DEF IsChain
  <2>3. L \in Nat /\ L >= 1
    BY <2>1, <2>2
  <2>4. s[L] = h /\ \A j, k \in 1 .. L : s[j] = s[k] => j = k
    BY <2>1, <2>2 DEF IsChain
  <2> HIDE DEF L, s
  <2> QED BY <2>1, <2>3, <2>4
<1>8. \A p \in Pids : fdt'[p] = IF p = h THEN new ELSE fdt[p]
  BY <1>1, <1>2 DEF TypeOK
<1>9. ASSUME NEW u \in Terms, u # t PROVE View(S[u], fdt') = View(S[u], fdt)
  <2>1. \A k \in 1 .. Len(S[u]) : S[u][k] \in Programs(u)
    BY <1>4 DEF IsChain
  <2>2. \A k \in 1 .. Len(S[u]) : fdt'[S[u][k]] = fdt[S[u][k]]
    BY <1>1, <1>8, <1>9, <2>1 DEF Programs
  <2> QED BY <2>2 DEF View
<1> DEFINE v == View(s, fdt)
           w == View(s, fdt')
<1>10. /\ v = [k \in 1 .. L |-> [id |-> s[k], open |-> fdt[s[k]]]]
       /\ w = [k \in 1 .. L |-> [id |-> s[k], open |-> fdt'[s[k]]]]
  BY DEF View
<1>11. \A k \in 1 .. L : s[k] \in Pids
  BY <1>7
<1> HIDE DEF J
<1>12. J[t] = v /\ J' = [u \in Terms |-> IF u = t THEN w ELSE View(S[u], fdt)]
  BY <1>1, <1>6, <1>9
<1> HIDE DEF v, w, L, s
<1>13. v # <<>> /\ Len(v) = L
  <2> DEFINE V == {v[k] : k \in 1 .. L}
  <2>1. v \in [1 .. L -> V]
    BY <1>10
  <2> HIDE DEF V
  <2> QED BY <1>7, <2>1
<1>14. v[L].open = now
  BY <1>2, <1>7, <1>10
<1>15. w = [v EXCEPT ![L].open = new]
  <2>1. \A k \in 1 .. L : k = L \/ k \in 1 .. L - 1
    BY <1>7
  <2>2. \A k \in 1 .. L : w[k] = IF k = L THEN [v[k] EXCEPT !.open = new] ELSE v[k]
    BY <1>7, <1>8, <1>10, <1>11, <2>1
  <2>3. v = [k \in 1 .. L |-> v[k]] /\ w = [k \in 1 .. L |-> w[k]] /\ L \in 1 .. L
    BY <1>7, <1>10
  <2>4. [v EXCEPT ![L] = [v[L] EXCEPT !.open = new]]
          = [k \in 1 .. L |-> IF k = L THEN [v[k] EXCEPT !.open = new] ELSE v[k]]
    BY <2>3
  <2>5. w = [v EXCEPT ![L] = [v[L] EXCEPT !.open = new]]
    BY <2>2, <2>3, <2>4
  <2> QED BY <2>5
<1>16. J' = [J EXCEPT ![t] = w]
  BY <1>1, <1>6, <1>12
<1>17. J' = [J EXCEPT ![t][Len(J[t])].open = new]
  BY <1>12, <1>13, <1>15, <1>16
<1>18. J[t] # <<>> /\ J[t][Len(J[t])].open = now
  BY <1>12, <1>13, <1>14
<1>19. Abstract!UseFd(fd)
  BY <1>2, <1>17, <1>18 DEF J, Abstract!UseFd
<1> QED BY <1>6, <1>19

\* The timer takes the terminals in turn.
LEMMA RoundRobin ==
  ASSUME schedule_index \in Terms
  PROVE  next_schedule = (schedule_index + 1) % NumTerm
BY ConstantsAssumption DEF next_schedule, Terms

\* Every step of Processes is a step of JobStacks, or none.
LEMMA JobStep ==
  ASSUME IInv, IInv', Chained, [Next]_vars
  PROVE  Chained' /\ [Abstract!Next]_(Abstract!vars)
<1> USE Constants
<1> DEFINE J == [u \in Terms |-> JobsOf(u)]
<1>0. PICK S : Chains(S)
  BY ChooseChains
<1>1. ASSUME NEW i \in Pids, execute(i) PROVE Chained' /\ Abstract!Next
  BY <1>0, <1>1, ExecuteStarts DEF Abstract!Next
<1>2. ASSUME pc[schedule_index] = "user", RestoreParent(cur_pid[schedule_index])
      PROVE  Chained' /\ Abstract!Next
  BY <1>0, <1>2, HaltExits DEF Abstract!Next
<1>3. ASSUME pc[schedule_index] = "user", NEW fd \in Fds,
             SetFlags(IF fd \in fdt[cur_fd_ptr[schedule_index]]
                        THEN fdt[cur_fd_ptr[schedule_index]] \ {fd}
                        ELSE fdt[cur_fd_ptr[schedule_index]] \cup {fd})
      PROVE  Chained' /\ Abstract!Next
  BY <1>0, <1>3, SetFlagsUses DEF Abstract!Next
<1>4. ASSUME UNCHANGED <<use, parent_pid, screen_idx, cur_pid, fdt>>
      PROVE  Chained' /\ UNCHANGED J
  <2>1. Chains(S)' /\ UNCHANGED J
    BY <1>0, <1>4, NoJobStep
  <2> QED BY <2>1 DEF Chains, Chained
<1>5. CASE Execute \/ BootShell
  BY <1>1, <1>5 DEF Execute, BootShell
<1>6. CASE (\E status \in Statuses : halt(status)) \/ halt_exception
  BY <1>2, <1>6 DEF halt, halt_exception
<1>7. CASE open
  BY <1>3, <1>7 DEF open, get_avail_fd
<1>8. ASSUME NEW fd \in Fds, close(fd) PROVE Chained' /\ Abstract!Next
  BY <1>3, <1>8 DEF close
<1>9. CASE context_switch
  <2>1. /\ UNCHANGED <<use, parent_pid, screen_idx, cur_pid, fdt>>
        /\ schedule_index' = next_schedule
    BY <1>9 DEF context_switch, save_context, pcbVars
  <2>2. Chained' /\ UNCHANGED J
    BY <1>4, <2>1
  <2>3. schedule_index' = (schedule_index + 1) % NumTerm
    BY <2>1, RoundRobin DEF IInv, TypeOK
  <2> QED BY <2>2, <2>3 DEF Abstract!Next, Abstract!Switch
<1>10. CASE \/ SyscallFails \/ BootShellFails \/ UNCHANGED vars
            \/ \E t \in Terms : Return(t)
  <2>1. UNCHANGED <<use, parent_pid, screen_idx, cur_pid, fdt, schedule_index>>
    BY <1>10 DEF SyscallFails, BootShellFails, Return, vars, pcbVars, procArrayVars
  <2>2. Chained' /\ UNCHANGED J
    BY <1>4, <2>1
  <2> QED BY <2>1, <2>2 DEF Abstract!vars
<1> QED BY <1>5, <1>6, <1>7, <1>8, <1>9, <1>10 DEF Next

\* At boot every stack is empty.
LEMMA NoJobs ==
  ASSUME Init
  PROVE  Chained /\ Abstract!Init
<1> DEFINE e == <<>>
<1>0. e \in Seq(Pids) /\ Len(e) = 0
  OBVIOUS
<1>1. \A t \in Terms : IsChain(t, e)
  BY DEF Init, IsChain
<1> HIDE DEF e
<1>2. Chained
  BY <1>0, <1>1 DEF Chained
<1>3. \A t \in Terms : JobsOf(t) = View(e, fdt)
  BY <1>0, <1>1, JobsAreChain
<1>4. View(e, fdt) = <<>>
  BY <1>0 DEF View
<1> QED BY <1>2, <1>3, <1>4 DEF Init, Abstract!Init, Abstract!Terminals, Terms

\* Seen through the PCBs, the terminals are independent stacks of jobs
\* (process.c:21, syscall.c:113, scheduler.c:33): every step of execute, halt,
\* halt_exception, open, close and the timer is a step of the abstract
\* specification or changes nothing in it, for every number of PCBs, terminals
\* and descriptors.
THEOREM JobStacksRefinement == Spec => ImplementsJobStacks
<1>1. Init => Chained /\ Abstract!Init
  BY NoJobs
<1>2. IInv /\ IInv' /\ Chained /\ [Next]_vars => Chained' /\ [Abstract!Next]_(Abstract!vars)
  BY JobStep
<1>3. Spec => []Chained
  BY <1>1, <1>2, Invariance, PTL DEF Spec
<1> QED BY <1>1, <1>2, <1>3, Invariance, PTL DEF Spec, ImplementsJobStacks, Abstract!Spec
=============================================================================
