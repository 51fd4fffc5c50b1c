-------------------------- MODULE InterruptsProofs --------------------------
(***************************************************************************)
(* The interrupt system's safety for any set of devices.                   *)
(***************************************************************************)
EXTENDS Interrupts, TLAPS

\* The line whose handler is running.
LineOf(c) ==
  CASE c = "pit" -> {0}
    [] c = "keyboard" -> {1}
    [] c = "rtc" -> {8}
    [] OTHER -> {}

\* Of the lines that have a handler, only that of the running handler is in
\* service.
OnlyRunning == isr \cap {0, 1, 8} \subseteq LineOf(cpu)

\* The cascade is in service for the RTC, or for a line nobody acknowledges.
CascadeOwned == 2 \in isr => cpu = "rtc" \/ \E irq \in isr : irq > 8

Types ==
  /\ irr \subseteq Devices
  /\ isr \subseteq Devices \cup {2}
  /\ cpu \in Handlers \cup Interruptible
  /\ resume \in Interruptible

IInv ==
  /\ eflags_if \in BOOLEAN
  /\ Types
  /\ HandlersNotNested
  /\ OnlyRunning
  /\ CascadeOwned

\* At boot nothing is in service.
LEMMA InitIInv == Init => IInv
<1> SUFFICES ASSUME Init PROVE IInv
  OBVIOUS
<1>1. eflags_if \in BOOLEAN
  BY Zenon DEF Init
<1>2. Types /\ OnlyRunning /\ CascadeOwned
  BY DEF Init, Types, Interruptible, OnlyRunning, CascadeOwned
<1>3. HandlersNotNested
  BY DEF Init, HandlersNotNested, Handlers
<1> QED BY <1>1, <1>2, <1>3 DEF IInv

\* What interrupts the CPU finds interrupts enabled, so no handler running,
\* and, coming in on an interrupt gate, disables them.
LEMMA DeliverIInv ==
  ASSUME IInv, NEW irq \in Devices, Deliver(irq)
  PROVE  IInv'
<1>1. cpu \in Interruptible
  BY Zenon DEF IInv, Types, HandlersNotNested, Deliver
<1>2. irq \in (0 .. 15) \ {2}
  BY DevicesAssumption
<1>3. isr' = isr \cup {irq} \cup Cascade(irq) /\ irr' = irr \ {irq}
  BY DEF Deliver
<1>4. irr' \subseteq Devices /\ isr' \subseteq Devices \cup {2}
  BY <1>3 DEF IInv, Types, Cascade
<1>5. isr \cap {0, 1, 8} = {} /\ cpu # "rtc"
  BY <1>1 DEF IInv, OnlyRunning, LineOf, Interruptible
<1>6. CASE handler(vector(irq)) = "general"
  <2>1. UNCHANGED <<eflags_if, cpu, resume>>
    BY <1>6 DEF Deliver
  <2>2. irq \notin {0, 1, 8}
    BY <1>6, <1>2 DEF handler, vector, PIT, KEYBOARD, SLAVE, RTC
  <2>3. OnlyRunning'
    BY <1>3, <1>5, <2>1, <2>2 DEF OnlyRunning, Cascade
  <2>4. CascadeOwned'
    BY <1>2, <1>3, <1>5, <2>1, <2>2, DevicesAssumption DEF IInv, Types, CascadeOwned, Cascade
  <2> QED
    BY <1>4, <2>1, <2>3, <2>4 DEF IInv, Types, HandlersNotNested
<1>7. CASE handler(vector(irq)) # "general"
  <2>1. irq \in {0, 1, 8}
    BY <1>7, <1>2 DEF handler, vector, PIT, KEYBOARD, SLAVE, RTC
  <2>2. cpu' = handler(vector(irq)) /\ resume' = cpu /\ eflags_if' = gate(vector(irq))
    BY <1>7, Zenon DEF Deliver
  <2>3. cpu' = (IF irq = 0 THEN "pit" ELSE IF irq = 1 THEN "keyboard" ELSE "rtc")
    BY <2>1, <2>2 DEF handler, vector, PIT, KEYBOARD, SLAVE, RTC
  <2>4. gate(vector(irq)) = FALSE
    BY <2>1 DEF gate, vector, PIT, KEYBOARD, SLAVE, RTC
  <2>5. eflags_if' \in BOOLEAN /\ ~eflags_if'
    BY <2>2, <2>4, Zenon
  <2>6. Types'
    BY <1>1, <1>4, <2>1, <2>2, <2>3 DEF Types, Handlers
  <2>7. OnlyRunning'
    BY <1>3, <1>5, <2>1, <2>3 DEF OnlyRunning, LineOf, Cascade
  <2>8. CascadeOwned'
    BY <1>3, <1>5, <2>1, <2>3 DEF IInv, CascadeOwned, Cascade
  <2> QED
    BY <2>5, <2>6, <2>7, <2>8 DEF IInv, HandlersNotNested
<1> QED BY <1>6, <1>7

\* Every handler acknowledges its line before it returns.
LEMMA HandlerIInv ==
  ASSUME IInv, interrupt_keyboard \/ interrupt_rtc \/ interrupt_pit
  PROVE  IInv'
<1>1. eflags_if' \in BOOLEAN
  <2>1. CASE interrupt_keyboard
    BY <2>1, Zenon DEF interrupt_keyboard
  <2>2. CASE interrupt_rtc
    BY <2>2, Zenon DEF interrupt_rtc
  <2>3. CASE interrupt_pit
    BY <2>3, Zenon DEF interrupt_pit
  <2> QED BY <2>1, <2>2, <2>3
<1>2. cpu' \in Interruptible /\ irr' = irr /\ resume' = resume /\ isr' \subseteq isr
  BY DEF interrupt_keyboard, interrupt_rtc, interrupt_pit, rtc_eoi, pit_eoi, send_eoi, IInv, Types
<1>3. isr' \cap {0, 1, 8} = {}
  <2>1. CASE interrupt_keyboard
    BY <2>1 DEF interrupt_keyboard, send_eoi, IInv, OnlyRunning, LineOf
  <2>2. CASE interrupt_rtc
    BY <2>2 DEF interrupt_rtc, rtc_eoi, send_eoi, IInv, OnlyRunning, LineOf
  <2>3. CASE interrupt_pit
    BY <2>3 DEF interrupt_pit, pit_eoi, send_eoi, IInv, OnlyRunning, LineOf
  <2> QED BY <2>1, <2>2, <2>3
<1>4. CascadeOwned'
  <2>1. CASE interrupt_keyboard
    BY <2>1 DEF interrupt_keyboard, send_eoi, IInv, CascadeOwned
  <2>2. CASE interrupt_rtc
    BY <2>2 DEF interrupt_rtc, rtc_eoi, send_eoi, IInv, CascadeOwned
  <2>3. CASE interrupt_pit
    BY <2>3 DEF interrupt_pit, pit_eoi, send_eoi, IInv, CascadeOwned
  <2> QED BY <2>1, <2>2, <2>3
<1>5. Types'
  BY <1>2 DEF IInv, Types
<1>6. HandlersNotNested' /\ OnlyRunning'
  BY <1>2, <1>3 DEF HandlersNotNested, OnlyRunning, Handlers, Interruptible
<1> QED BY <1>1, <1>4, <1>5, <1>6 DEF IInv

\* Programs, exceptions and boot_shell leave the controllers alone.
LEMMA ProgramIInv ==
  ASSUME IInv,
         \/ \E v \in ExceptionVectors : Exception(v)
         \/ ExceptionHalts \/ BootShell \/ BootShellFails \/ HaltBase
  PROVE  IInv'
<1>1. eflags_if' \in BOOLEAN
  <2>1. CASE \E v \in ExceptionVectors : Exception(v)
    BY <2>1, Zenon DEF Exception
  <2>2. CASE ExceptionHalts
    BY <2>2, Zenon DEF ExceptionHalts
  <2>3. CASE BootShell \/ BootShellFails
    BY <2>3, Zenon DEF BootShell, BootShellFails
  <2>4. CASE HaltBase
    BY <2>4, Zenon DEF HaltBase, IInv
  <2> QED BY <2>1, <2>2, <2>3, <2>4
<1>2. cpu \in Interruptible /\ cpu' \in Interruptible /\ UNCHANGED <<irr, isr, resume>>
  BY DEF Exception, ExceptionHalts, BootShell, BootShellFails, HaltBase, Interruptible
<1>3. OnlyRunning' /\ CascadeOwned' /\ HandlersNotNested'
  BY <1>2 DEF IInv, OnlyRunning, LineOf, CascadeOwned, HandlersNotNested, Handlers, Interruptible
<1> QED BY <1>1, <1>2, <1>3 DEF IInv, Types

\* The inductive invariant holds in every reachable state.
THEOREM Inductive == Spec => []IInv
<1>1. IInv /\ [Next]_vars => IInv'
  <2> SUFFICES ASSUME IInv, [Next]_vars PROVE IInv'
    OBVIOUS
  <2>1. ASSUME NEW irq \in Devices, Raise(irq) PROVE IInv'
    BY <2>1 DEF Raise, IInv, Types, HandlersNotNested, OnlyRunning, CascadeOwned
  <2>2. CASE UNCHANGED vars
    BY <2>2 DEF vars, IInv, Types, HandlersNotNested, OnlyRunning, CascadeOwned
  <2> QED
    BY <2>1, <2>2, DeliverIInv, HandlerIInv, ProgramIInv DEF Next
<1> QED
  BY <1>1, InitIInv, PTL DEF Spec

\* Every variable keeps its type, whatever lines raise requests.
THEOREM TypeCorrect == Spec => []TypeOK
<1>1. IInv => TypeOK
  BY Zenon DEF IInv, Types, TypeOK
<1> QED
  BY <1>1, Inductive, PTL

\* Whatever lines raise requests, the timer, the keyboard and the RTC are
\* acknowledged by the time interrupts come back on (interrupt_handler.c:98).
THEOREM AcknowledgeSafety == Spec => []HandledAcknowledged
<1>1. ASSUME IInv PROVE HandledAcknowledged
  <2>1. eflags_if => cpu \in Interruptible
    BY <1>1, Zenon DEF IInv, Types, HandlersNotNested
  <2>2. cpu \in Interruptible => isr \cap {0, 1, 8} = {} /\ cpu # "rtc"
    BY <1>1 DEF IInv, OnlyRunning, LineOf, Interruptible
  <2> QED
    BY <1>1, <2>1, <2>2, Zenon DEF HandledAcknowledged, IInv, CascadeOwned
<1> QED
  BY <1>1, Inductive, PTL

\* No device handler is interrupted by another, whatever lines raise requests
\* (_idt.h:353).
THEOREM NestingSafety == Spec => []HandlersNotNested
<1>1. IInv => HandlersNotNested
  BY DEF IInv
<1> QED
  BY <1>1, Inductive, PTL
=============================================================================
