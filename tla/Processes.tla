----------------------------- MODULE Processes -----------------------------
(***************************************************************************)
(* The process and scheduling core of the kernel: the PCB pool             *)
(* (process.c), execute, halt and halt_exception (syscall.c), the          *)
(* round-robin context switch of the three terminals and boot_shell        *)
(* (scheduler.c), with the registers and page-directory entry they         *)
(* exchange.                                                               *)
(*                                                                         *)
(* execute, halt, halt_exception and the timer handler run with interrupts *)
(* disabled, so each is one action.  Between the "sti" that ends halt and  *)
(* the "return ret_status" that ends execute interrupts are on: Return is  *)
(* an action of its own.  Everything else a user program does leaves this  *)
(* state alone, except open and close, which change its descriptor table.  *)
(*                                                                         *)
(* A kernel stack is named by the address of its top: esp, cur_esp and     *)
(* parent_esp record WHICH stack the register points into.  The video      *)
(* mappings that the same functions also change are independent of this    *)
(* state and not part of this module.                                      *)
(*                                                                         *)
(* Definitions whose name adds a word to the one below them (as            *)
(* free_pcb_forgotten to free_pcb) are wrong on purpose: each stands for a *)
(* bug that a property of this module must detect.                         *)
(***************************************************************************)
EXTENDS Integers, FiniteSets

CONSTANTS
  NumPcb,      \* PCBs in the pool (process.c: EIGHT)
  NumTerm,     \* terminals (scheduler.h: process_array[3])
  MaxFd,       \* highest descriptor of a table (syscall.c: MAX_FD)
  Statuses,    \* the bytes programs pass to halt
  MaxDepth     \* workload bound: programs nested on one terminal

ASSUME ConstantsAssumption ==
  /\ NumPcb \in Nat \ {0}
  /\ NumTerm \in Nat \ {0, 1}
  /\ MaxFd \in Nat
  /\ Statuses \subseteq 0..255
  /\ MaxDepth \in Nat \ {0}

VARIABLES
  use, parent_pid, parent_esp0, parent_esp, parent_fd, screen_idx,  \* pcb_t
  cur_pid, cur_esp0, cur_esp, cur_fd_ptr,         \* process_array[t]
  schedule_index,  \* the terminal whose context is on the CPU
  tss_esp0,        \* tss.esp0
  esp,             \* the stack the CPU is on
  pdt_exec,        \* 4MB frame behind the user page, pdt[EXEC]
  image,           \* image[f]: the process whose program file is in frame f
  fdt,             \* fdt[d]: descriptors of table d with flags = 1, from MIN_FD up
  ret_status,      \* the one global exit status of syscall.c
  pc,              \* what the context of each terminal is doing
  eflags_if,       \* interrupts enabled on the CPU
  due              \* history: what a halt on t owes to the execute it ends

pcbVars == <<use, parent_pid, parent_esp0, parent_esp, parent_fd, screen_idx>>
procArrayVars == <<cur_pid, cur_esp0, cur_esp, cur_fd_ptr>>
cpuVars == <<tss_esp0, esp, pdt_exec, eflags_if>>
vars == <<pcbVars, procArrayVars, cpuVars, schedule_index, image, fdt,
          ret_status, pc, due>>

-----------------------------------------------------------------------------
(* Names and addresses *)

Pids == 0 .. NumPcb - 1
None == -1                          \* cur_pid and parent_pid of a base shell
Terms == 0 .. NumTerm - 1
Fds == 2 .. MaxFd                   \* 0 and 1 are never opened or closed
KernelFdt == -1                     \* kernel_fdt; table p is pcb p's fd_table
Tables == Pids \cup {KernelFdt}

ESP_MEM == 8388608                  \* 0x800000
EIGHTK == 8192
MEMORY_SPACE == 1024                \* 0x400, distance of the boot stacks
STACK_POINTER == 138412028          \* 0x083ffffc, top of the user page
EXCEPTION_RET == 256
NothingDue == 512                   \* no execute is about to return

get_esp0(idx) == ESP_MEM - EIGHTK * (idx + 1) - 4

\* The stack on which the base shell of terminal t is started.
base_esp(t) == ESP_MEM - MEMORY_SPACE * t

\* map_page_exec(idx) maps the 4MB frame idx + 2; frame 1 is the kernel's.
exec_frame(idx) == idx + 2
Frames == exec_frame(None) .. exec_frame(NumPcb - 1)

Stacks == {get_esp0(p) : p \in Pids} \cup {base_esp(t) : t \in Terms}

SignExtend8_inverted(status) == IF status < 128 THEN status - 256 ELSE status

\* (int8_t)status, widened to the int of ret_status.
SignExtend8(status) == IF status >= 128 THEN status - 256 ELSE status

-----------------------------------------------------------------------------
(* Initial state: kernel.c up to "sti", with terminal 0 about to execute   *)
(* its first shell on the boot stack.                                      *)

Init ==
  /\ use = [p \in Pids |-> 0]
  /\ parent_pid = [p \in Pids |-> None]
  /\ parent_esp0 = [p \in Pids |-> 0]
  /\ parent_esp = [p \in Pids |-> 0]
  /\ parent_fd = [p \in Pids |-> KernelFdt]
  /\ screen_idx = [p \in Pids |-> 0]
  /\ cur_pid = [t \in Terms |-> None]
  /\ cur_esp0 = [t \in Terms |-> base_esp(t)]
  /\ cur_esp = [t \in Terms |-> base_esp(t)]
  /\ cur_fd_ptr = [t \in Terms |-> KernelFdt]
  /\ schedule_index = 0
  /\ tss_esp0 = base_esp(0)
  /\ esp = base_esp(0)
  /\ pdt_exec = exec_frame(0)
  /\ image = [f \in Frames |-> None]
  /\ fdt = [d \in Tables |-> {}]
  /\ ret_status = 0
  /\ pc = [t \in Terms |-> "boot"]
  /\ eflags_if = TRUE
  /\ due = [t \in Terms |-> NothingDue]

-----------------------------------------------------------------------------
(* execute *)

\* get_avail_pcb: i is the lowest PCB that is not in use.
get_avail_pcb(i) ==
  /\ use[i] = 0
  /\ \A j \in Pids : j < i => use[j] # 0

PoolFull == \A i \in Pids : use[i] # 0

\* The stack pointer is saved as user mode left it.
kernel_esp_user == esp

\* The stack the kernel is on: an interrupt or a system call that comes from
\* user mode starts at the top of the stack tss.esp0 names.
kernel_esp == IF pc[schedule_index] = "user" THEN tss_esp0 ELSE esp

\* The file is copied before map_page_exec has remapped the user page.
load_image_early(i) == image' = [image EXCEPT ![pdt_exec] = i]

\* The program file is copied through the user page, after it was remapped.
load_image(i) == image' = [image EXCEPT ![pdt_exec'] = i]

\* execute from the call of get_avail_pcb to the iret into the new program.
execute(i) ==
  LET t == schedule_index IN
  /\ get_avail_pcb(i)
  /\ parent_pid' = [parent_pid EXCEPT ![i] = cur_pid[t]]
  /\ cur_pid' = [cur_pid EXCEPT ![t] = i]
  /\ use' = [use EXCEPT ![i] = 1]
  /\ parent_fd' = [parent_fd EXCEPT ![i] = cur_fd_ptr[t]]
  /\ cur_fd_ptr' = [cur_fd_ptr EXCEPT ![t] = i]
  /\ fdt' = [fdt EXCEPT ![i] = {}]
  /\ screen_idx' = [screen_idx EXCEPT ![i] = t]
  /\ pdt_exec' = exec_frame(i)
  /\ parent_esp0' = [parent_esp0 EXCEPT ![i] = tss_esp0]
  /\ tss_esp0' = get_esp0(i)
  /\ load_image(i)
  /\ parent_esp' = [parent_esp EXCEPT ![i] = kernel_esp]
  /\ esp' = STACK_POINTER
  /\ eflags_if' = TRUE
  /\ pc' = [pc EXCEPT ![t] = "user"]
  /\ UNCHANGED <<cur_esp0, cur_esp, schedule_index, ret_status, due>>

\* Programs on terminal t: its shell and the programs nested under it.
Programs(t) == {p \in Pids : use[p] = 1 /\ screen_idx[p] = t}

\* A user program calls execute with the name of a program.
Execute ==
  /\ pc[schedule_index] = "user"
  /\ Cardinality(Programs(schedule_index)) < MaxDepth
  /\ \E i \in Pids : execute(i)

\* execute returns -1 (no such file, no program, no free PCB), or another
\* system call fails or changes nothing modelled here; iret restores IF.
SyscallFails ==
  /\ pc[schedule_index] = "user"
  /\ UNCHANGED vars

\* boot_shell, and the loop at the end of entry: execute("shell") on the boot
\* stack.  It succeeds when there is a free PCB.
BootShell ==
  /\ pc[schedule_index] = "boot"
  /\ \E i \in Pids : execute(i)

\* With no free PCB, execute returns -1 and leaves interrupts disabled (its
\* caller is the kernel, there is no iret); the loop calls it again.
BootShellFails ==
  /\ pc[schedule_index] = "boot"
  /\ PoolFull
  /\ eflags_if' = FALSE
  /\ UNCHANGED <<pcbVars, procArrayVars, tss_esp0, esp, pdt_exec,
                 schedule_index, image, fdt, ret_status, pc, due>>

-----------------------------------------------------------------------------
(* halt *)

\* The loop runs after cur_fd_ptr was given back to the parent.
close_all_late(t) == fdt' = [fdt EXCEPT ![cur_fd_ptr'[t]] = {}]

\* The loop of close(0) .. close(7), on the table cur_fd_ptr still names.
close_all(t) == fdt' = [fdt EXCEPT ![cur_fd_ptr[t]] = {}]

free_pcb_forgotten(p) == UNCHANGED use

\* pcb->use = 0
free_pcb(p) == use' = [use EXCEPT ![p] = 0]

\* Common to halt and halt_exception: the caller's descriptors are closed and
\* its PCB freed, the parent's descriptor table, kernel stack and user page
\* come back, and control goes to the end of the parent's execute.  The base
\* shell has no parent: there control reaches the loop of boot_shell.
RestoreParent(p) ==
  LET t == schedule_index IN
  /\ tss_esp0' = parent_esp0[p]
  /\ cur_pid' = [cur_pid EXCEPT ![t] = parent_pid[p]]
  /\ cur_fd_ptr' = [cur_fd_ptr EXCEPT ![t] = parent_fd[p]]
  /\ close_all(t)
  /\ free_pcb(p)
  /\ pdt_exec' = exec_frame(parent_pid[p])
  /\ esp' = parent_esp[p]
  /\ eflags_if' = TRUE
  /\ pc' = [pc EXCEPT ![t] = IF parent_pid[p] = None THEN "boot" ELSE "ret"]
  /\ UNCHANGED <<parent_pid, parent_esp0, parent_esp, parent_fd, screen_idx,
                 cur_esp0, cur_esp, schedule_index, image>>

\* History: the execute of p's parent is owed this value (the loop of
\* boot_shell ignores what execute returns).
Owe(p, value) ==
  due' = [due EXCEPT ![schedule_index] =
            IF parent_pid[p] = None THEN NothingDue ELSE value]

halt(status) ==
  /\ pc[schedule_index] = "user"
  /\ ret_status' = SignExtend8(status)
  /\ RestoreParent(cur_pid[schedule_index])
  /\ Owe(cur_pid[schedule_index], SignExtend8(status))

\* The handlers of the processor's exceptions end in halt_exception.  Its
\* assignment of ret_status stands after the jump and is never executed.
halt_exception ==
  /\ pc[schedule_index] = "user"
  /\ RestoreParent(cur_pid[schedule_index])
  /\ Owe(cur_pid[schedule_index], EXCEPTION_RET)
  /\ UNCHANGED ret_status

\* From exec_ret to the iret of the parent's system call.
Return(t) ==
  /\ schedule_index = t
  /\ pc[t] = "ret"
  /\ pc' = [pc EXCEPT ![t] = "user"]
  /\ esp' = STACK_POINTER
  /\ due' = [due EXCEPT ![t] = NothingDue]
  /\ UNCHANGED <<pcbVars, procArrayVars, tss_esp0, pdt_exec, eflags_if,
                 schedule_index, image, fdt, ret_status>>

-----------------------------------------------------------------------------
(* context_switch, called by the timer interrupt *)

\* Without the wrap-around.
next_schedule_last ==
  IF schedule_index < NumTerm - 1 THEN schedule_index + 1 ELSE schedule_index

next_schedule ==
  IF schedule_index < NumTerm - 1 THEN schedule_index + 1 ELSE 0

save_context_no_tss ==
  /\ cur_esp' = [cur_esp EXCEPT ![schedule_index] = kernel_esp]
  /\ cur_esp0' = cur_esp0

save_context ==
  /\ cur_esp' = [cur_esp EXCEPT ![schedule_index] = kernel_esp]
  /\ cur_esp0' = [cur_esp0 EXCEPT ![schedule_index] = tss_esp0]

\* A terminal without a process starts boot_shell inside the handler, with
\* interrupts disabled; any other one goes back to where it was interrupted,
\* where they were enabled.
context_switch ==
  LET next == next_schedule IN
  /\ eflags_if
  /\ save_context
  /\ schedule_index' = next
  /\ tss_esp0' = cur_esp0'[next]
  /\ esp' = IF pc[next] = "user" THEN STACK_POINTER ELSE cur_esp'[next]
  /\ IF cur_pid[next] # None
       THEN pdt_exec' = exec_frame(cur_pid[next]) /\ eflags_if' = TRUE
       ELSE pdt_exec' = pdt_exec /\ eflags_if' = FALSE
  /\ UNCHANGED <<pcbVars, cur_pid, cur_fd_ptr, image, fdt, ret_status, pc, due>>

-----------------------------------------------------------------------------
(* open and close, as far as they change which descriptors are in use *)

get_avail_fd(fd) ==
  /\ fd \notin fdt[cur_fd_ptr[schedule_index]]
  /\ \A g \in Fds : g < fd => g \in fdt[cur_fd_ptr[schedule_index]]

SetFlags(open_fds) ==
  /\ fdt' = [fdt EXCEPT ![cur_fd_ptr[schedule_index]] = open_fds]
  /\ UNCHANGED <<pcbVars, procArrayVars, cpuVars, schedule_index, image,
                 ret_status, pc, due>>

open ==
  /\ pc[schedule_index] = "user"
  /\ \E fd \in Fds : /\ get_avail_fd(fd)
                     /\ SetFlags(fdt[cur_fd_ptr[schedule_index]] \cup {fd})

close(fd) ==
  /\ pc[schedule_index] = "user"
  /\ fd \in fdt[cur_fd_ptr[schedule_index]]
  /\ SetFlags(fdt[cur_fd_ptr[schedule_index]] \ {fd})

-----------------------------------------------------------------------------

Next ==
  \/ Execute
  \/ SyscallFails
  \/ BootShell
  \/ BootShellFails
  \/ \E status \in Statuses : halt(status)
  \/ halt_exception
  \/ \E t \in Terms : Return(t)
  \/ context_switch
  \/ open
  \/ \E fd \in Fds : close(fd)

Spec == Init /\ [][Next]_vars

\* The timer keeps ticking, the kernel's own code keeps running, and a time
\* slice is long enough for the few instructions from exec_ret to the iret.
\* Nothing is assumed of user programs: they may compute for ever.
Fairness ==
  /\ WF_vars(context_switch)
  /\ WF_vars(BootShell)
  /\ \A t \in Terms : SF_vars(Return(t))

FairSpec == Spec /\ Fairness

-----------------------------------------------------------------------------
(* Properties *)

\* Every variable keeps its type.
TypeOK ==
  /\ use \in [Pids -> {0, 1}]
  /\ parent_pid \in [Pids -> Pids \cup {None}]
  /\ parent_esp0 \in [Pids -> Int]
  /\ parent_esp \in [Pids -> Int]
  /\ parent_fd \in [Pids -> Tables]
  /\ screen_idx \in [Pids -> Terms]
  /\ cur_pid \in [Terms -> Pids \cup {None}]
  /\ cur_esp0 \in [Terms -> Int]
  /\ cur_esp \in [Terms -> Int]
  /\ cur_fd_ptr \in [Terms -> Tables]
  /\ schedule_index \in Terms
  /\ tss_esp0 \in Int
  /\ esp \in Int
  /\ pdt_exec \in Frames
  /\ image \in [Frames -> Pids \cup {None}]
  /\ fdt \in [Tables -> SUBSET Fds]
  /\ ret_status \in -128..127
  /\ pc \in [Terms -> {"boot", "user", "ret"}]
  /\ eflags_if \in BOOLEAN
  /\ due \in [Terms -> -128..127 \cup {EXCEPTION_RET, NothingDue}]

\* The stack that the kernel uses on behalf of process p of terminal t.
StackOf(p, t) == IF p = None THEN base_esp(t) ELSE get_esp0(p)

\* The PCBs in use are, terminal by terminal, the chain that leads from
\* cur_pid through parent_pid to the base shell: the current process is live
\* and on its terminal, so is every parent, no two processes have the same
\* parent, and each one is either current or waiting in execute for a child.
\* (No PCB is lost, and none is shared, whatever the terminals interleave.)
ProcessTree ==
  \A t \in Terms :
    /\ cur_pid[t] # None => cur_pid[t] \in Programs(t)
    /\ \A p \in Programs(t) :
         /\ parent_pid[p] # None => parent_pid[p] \in Programs(t)
         /\ parent_pid[p] \notin {p, cur_pid[t]}
         /\ p = cur_pid[t] \/ \E c \in Programs(t) : parent_pid[c] = p
    /\ \A p, q \in Programs(t) : parent_pid[p] = parent_pid[q] => p = q

\* The CPU runs a terminal's current process in that process's context: its
\* kernel stack in the TSS, its own 4MB frame behind the user page, its own
\* descriptor table.  Kernel code runs on the stack of the process it runs
\* for, so a return from execute finds the frame of the caller.
RunsInOwnContext ==
  LET t == schedule_index
      p == cur_pid[t]
  IN  /\ tss_esp0 = StackOf(p, t)
      /\ esp = IF pc[t] = "user" THEN STACK_POINTER ELSE StackOf(p, t)
      /\ cur_fd_ptr[t] = p
      /\ p # None => pdt_exec = exec_frame(p)

\* What context_switch saved for a terminal off the CPU, and what execute
\* saved for every waiting parent, is still right when it will be restored.
SavedContexts ==
  /\ \A t \in Terms \ {schedule_index} :
       /\ cur_esp0[t] = StackOf(cur_pid[t], t)
       /\ cur_esp[t] = StackOf(cur_pid[t], t)
       /\ cur_fd_ptr[t] = cur_pid[t]
  /\ \A p \in Pids : use[p] = 1 =>
       /\ parent_esp0[p] = StackOf(parent_pid[p], screen_idx[p])
       /\ parent_esp[p] = StackOf(parent_pid[p], screen_idx[p])
       /\ parent_fd[p] = parent_pid[p]

\* Starting a program never overwrites the memory of a live one: the frame of
\* every process in use holds the program that was loaded for it.
ImagesIntact == \A p \in Pids : use[p] = 1 => image[exec_frame(p)] = p

\* A terminal is in boot_shell exactly when it has no process, and interrupts
\* are disabled between actions only there.
BootOnlyWithoutProcess ==
  /\ \A t \in Terms : pc[t] = "boot" <=> cur_pid[t] = None
  /\ ~eflags_if => pc[schedule_index] = "boot"

\* halt leaves no descriptor open behind it: the table of a free PCB, and the
\* kernel's own, have none in use.
NoDescriptorLeak ==
  /\ \A p \in Pids : use[p] = 0 => fdt[p] = {}
  /\ fdt[KernelFdt] = {}

DescriptorStep ==
  \A p \in Pids :
    (use[p] = 1 /\ use'[p] = 1 /\ fdt'[p] # fdt[p])
      => p = cur_pid[schedule_index] /\ cur_pid' = cur_pid

\* While two processes live, no step taken for one changes the open
\* descriptors of the other; in particular a child that halts does not close
\* its parent's files, and a context switch touches nobody's.
DescriptorsPrivate == [][DescriptorStep]_vars

\* The one way to stop the machine: the other terminals hold every PCB, so the
\* loop of boot_shell finds none and runs on with interrupts disabled.
Stopped ==
  /\ pc[schedule_index] = "boot"
  /\ ~eflags_if
  /\ \A p \in Pids : \E t \in Terms \ {schedule_index} : p \in Programs(t)

\* Every terminal gets the CPU again and again, unless the machine stops.
EveryTerminalRuns == \A t \in Terms : []<>(schedule_index = t \/ Stopped)

\* A terminal without a process gets its shell, at boot and when the base
\* shell halts, however the others use up the pool meanwhile; only if they
\* hold all of it at that moment does the machine stop instead.
ShellComesUp == \A t \in Terms : cur_pid[t] = None ~> (cur_pid[t] # None \/ Stopped)

\* A halt gets the waiting parent back to user mode, unless another terminal
\* stops the machine first.
ExecuteReturns == \A t \in Terms : pc[t] = "ret" ~> (pc[t] = "user" \/ Stopped)

-----------------------------------------------------------------------------
(* What comments in the source say, and the code does not do *)

\* syscall.c:280, "Return an execution specific number": the status execute
\* is about to return is the one its own child passed to halt.
ReturnsOwnStatus ==
  (pc[schedule_index] = "ret" /\ due[schedule_index] # EXCEPTION_RET)
    => ret_status = due[schedule_index]
=============================================================================
