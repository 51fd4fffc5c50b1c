----------------------------- MODULE Interrupts -----------------------------
(***************************************************************************)
(* How interrupts reach the kernel: the two cascaded interrupt controllers *)
(* (i8259.c), the gates of the interrupt descriptor table (_idt.h), the    *)
(* assembly wrappers (isr_wrapper.S) and, of the C handlers                *)
(* (interrupt_handler.c), the acknowledgement they send and the order in   *)
(* which they send it.                                                     *)
(*                                                                         *)
(* The timer handler is the hard one: context_switch may not return to it, *)
(* because a terminal without a process gets its shell from inside the     *)
(* handler, by an iret of execute that enables interrupts.                 *)
(*                                                                         *)
(* Programs and system calls run with interrupts enabled and are one       *)
(* state, "program".  The controllers are external: what they do is        *)
(* modelled from how the code programs them.                               *)
(*                                                                         *)
(* Definitions whose name adds a word to the one below them are wrong on   *)
(* purpose: each stands for a bug that a property here must detect.        *)
(***************************************************************************)
EXTENDS Integers

CONSTANT Devices     \* interrupt lines on which some device raises requests

ASSUME DevicesAssumption == Devices \subseteq (0 .. 15) \ {2}

VARIABLES
  irr,         \* requests the controllers have latched
  isr,         \* interrupts in service: delivered and not acknowledged
  eflags_if,   \* interrupts enabled on the CPU
  cpu,         \* what runs: "program", "boot", or the name of a handler
  resume       \* what a handler's iret goes back to

vars == <<irr, isr, eflags_if, cpu, resume>>

-----------------------------------------------------------------------------
(* The descriptor table *)

PIT == 32
KEYBOARD == 33
SLAVE == 34
RTC == 40
ExceptionVectors == ((0 .. 20) \ {15}) \cup {30}

\* Every gate is a trap gate.
gate_trap(v) == TRUE

\* reserved3: set for all vectors (the condition that excludes the reserved
\* ones is always true), which makes a trap gate that leaves IF alone, then
\* cleared for the devices: on an interrupt gate the CPU clears IF.
gate(v) == v \notin {PIT, KEYBOARD, SLAVE, RTC}

\* The wrapper behind a vector from 32 up.
handler(v) ==
  CASE v = PIT -> "pit"
    [] v = KEYBOARD -> "keyboard"
    [] v = RTC -> "rtc"
    [] v = SLAVE -> "slave"
    [] OTHER -> "general"

-----------------------------------------------------------------------------
(* The interrupt controllers *)

\* ICW2 of both controllers: line irq arrives at this vector.
vector(irq) == 32 + irq

\* Line 2 of the master is the output of the slave (ICW3).
Cascade(irq) == IF irq >= 8 THEN {2} ELSE {}

\* The controllers deliver a request unless one of the same or of a higher
\* priority is in service, on the slave and, for the slave, on the master.
\* (Their initialisation leaves no line masked, and enable_irq masks none.)
Deliverable(irq) ==
  /\ irq \in irr
  /\ IF irq < 8
       THEN \A j \in isr : j < 8 => j > irq
       ELSE /\ \A j \in isr : j < 8 => j > 2
            /\ \A j \in isr : j >= 8 => j > irq

\* A specific end-of-interrupt clears one line's service bit.
send_eoi(irqs) == isr' = isr \ irqs

Init ==
  /\ irr = {}
  /\ isr = {}
  /\ eflags_if = TRUE
  /\ cpu = "boot"
  /\ resume = "boot"

\* A device raises its line; a request that is already latched is merged.
Raise(irq) ==
  /\ irr' = irr \cup {irq}
  /\ UNCHANGED <<isr, eflags_if, cpu, resume>>

\* The CPU takes the interrupt.  general_wrapper is a single iret: the
\* interrupted code goes on at once, and nobody acknowledges the line.
Deliver(irq) ==
  /\ eflags_if
  /\ Deliverable(irq)
  /\ irr' = irr \ {irq}
  /\ isr' = isr \cup {irq} \cup Cascade(irq)
  /\ IF handler(vector(irq)) = "general"
       THEN UNCHANGED <<eflags_if, cpu, resume>>
       ELSE /\ cpu' = handler(vector(irq))
            /\ resume' = cpu
            /\ eflags_if' = gate(vector(irq))

\* What a device can interrupt, and a handler goes back to.
Interruptible == {"program", "exception", "boot"}

-----------------------------------------------------------------------------
(* The handlers.  Their iret restores the IF of the interrupted code. *)

interrupt_keyboard ==
  /\ cpu = "keyboard"
  /\ send_eoi({1})
  /\ cpu' = resume
  /\ eflags_if' = TRUE
  /\ UNCHANGED <<irr, resume>>

\* Without send_eoi(IRQ2).
rtc_eoi_slave == send_eoi({8})

rtc_eoi == send_eoi({8, 2})

interrupt_rtc ==
  /\ cpu = "rtc"
  /\ rtc_eoi
  /\ cpu' = resume
  /\ eflags_if' = TRUE
  /\ UNCHANGED <<irr, resume>>

\* send_eoi(IRQ0) after context_switch, where a boot never gets to.
pit_eoi_last(next) == IF next = "boot" THEN UNCHANGED isr ELSE send_eoi({0})

\* send_eoi(IRQ0) before context_switch.
pit_eoi(next) == send_eoi({0})

\* The next terminal has a process, and was itself interrupted by the timer
\* with interrupts enabled; or it has none, and boot_shell starts inside the
\* handler, with interrupts disabled.
interrupt_pit ==
  /\ cpu = "pit"
  /\ \E next \in Interruptible :
       /\ pit_eoi(next)
       /\ cpu' = next
       /\ eflags_if' = (next # "boot")
  /\ UNCHANGED <<irr, resume>>

\* The handlers of the processor's exceptions are all alike: they print a
\* line, with interrupts as the gate left them, disable them, and end the
\* program by halt_exception, which enables them again.
Exception(v) ==
  /\ cpu = "program"
  /\ cpu' = "exception"
  /\ eflags_if' = (eflags_if /\ gate(v))
  /\ UNCHANGED <<irr, isr, resume>>

ExceptionHalts ==
  /\ cpu = "exception"
  /\ cpu' \in {"program", "boot"}
  /\ eflags_if' = TRUE
  /\ UNCHANGED <<irr, isr, resume>>

-----------------------------------------------------------------------------
(* boot_shell *)

\* execute: the iret into the shell sets IF.
BootShell ==
  /\ cpu = "boot"
  /\ cpu' = "program"
  /\ eflags_if' = TRUE
  /\ UNCHANGED <<irr, isr, resume>>

\* No free PCB: execute has disabled interrupts and returns to the loop.
BootShellFails ==
  /\ cpu = "boot"
  /\ eflags_if' = FALSE
  /\ UNCHANGED <<irr, isr, cpu, resume>>

\* The base shell of the terminal halts: halt enables interrupts and the loop
\* of boot_shell goes on.
HaltBase ==
  /\ cpu = "program"
  /\ cpu' = "boot"
  /\ UNCHANGED <<irr, isr, eflags_if, resume>>

-----------------------------------------------------------------------------

Next ==
  \/ \E irq \in Devices : Raise(irq) \/ Deliver(irq)
  \/ interrupt_keyboard \/ interrupt_rtc \/ interrupt_pit
  \/ \E v \in ExceptionVectors : Exception(v)
  \/ ExceptionHalts
  \/ BootShell \/ BootShellFails \/ HaltBase

Spec == Init /\ [][Next]_vars

\* The CPU runs, and between two instructions takes what it is offered: while
\* the timer or the keyboard is served again and again, a request that can be
\* taken is taken in the end.  Nothing is assumed of devices and programs.
Fairness ==
  /\ \A irq \in Devices : SF_vars(Deliver(irq))
  /\ WF_vars(interrupt_keyboard \/ interrupt_rtc \/ interrupt_pit)
  /\ WF_vars(BootShell)

FairSpec == Spec /\ Fairness

-----------------------------------------------------------------------------
(* Properties *)

Handlers == {"pit", "keyboard", "rtc"}

\* Every variable keeps its type.
TypeOK ==
  /\ irr \subseteq Devices
  /\ isr \subseteq Devices \cup {2}
  /\ eflags_if \in BOOLEAN
  /\ cpu \in Handlers \cup Interruptible
  /\ resume \in Interruptible

\* interrupt_handler.c:98: a handler acknowledges its line before interrupts
\* come back on, even if it is left through boot_shell.  So when the CPU can
\* be interrupted no line that has a handler is in service, and the cascade
\* is only if an unhandled line of the slave is.
HandledAcknowledged ==
  eflags_if => /\ isr \cap {0, 1, 8} = {}
               /\ 2 \in isr => \E irq \in isr : irq > 8

\* The device handlers, which share buffers, counters, the screens and the
\* scheduler's tables, are never interrupted by one another.
HandlersNotNested == cpu \in Handlers => ~eflags_if

\* The timer and the keyboard are always served again, whatever the other
\* lines do, unless boot_shell fails for ever.
TimerServed ==
  \/ <>[](cpu = "boot" /\ ~eflags_if)
  \/ \A irq \in Devices \cap {0, 1} : irq \in irr ~> irq \notin irr
=============================================================================
