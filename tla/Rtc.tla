-------------------------------- MODULE Rtc --------------------------------
(***************************************************************************)
(* The real-time clock driver (_rtc.c) and its interrupt handler           *)
(* (interrupt_rtc in interrupt_handler.c).                                 *)
(*                                                                         *)
(* System calls run with interrupts enabled, and all processes share       *)
(* flag_rtc, rate and the chip's index/data port pair.  Every access to    *)
(* one of them is therefore a step of its own; the handler runs with       *)
(* interrupts disabled and is one action.  The chip itself is external:    *)
(* registers A (rate), B (interrupt enable) and C (interrupt flag, cleared *)
(* by reading it), behind an index port that selects which of them the     *)
(* data port reads and writes.                                             *)
(*                                                                         *)
(* Definitions whose name adds a word to the one below them are wrong on   *)
(* purpose: each stands for a bug that a property here must detect.        *)
(***************************************************************************)
EXTENDS Integers

CONSTANTS
  Procs,         \* processes that use the rtc file
  Frequencies    \* the 4-byte arguments they write to it

INT_MAX == 2147483647

\* rtc_write takes the argument as an int32_t.
ASSUME RtcAssumption == Frequencies \subseteq (-INT_MAX - 1) .. INT_MAX

VARIABLES
  rate,        \* the driver's global, a signed char
  flag_rtc,    \* set by the handler, cleared by readers
  index,       \* register the index port selects
  reg_a,       \* rate bits of register A
  reg_b,       \* bits of register B that are set
  irqf,        \* register C: the chip's line is up and C was not read since
  pc,          \* where each process is in the driver
  prev,        \* rtc_init's local copy of register B
  result,      \* what the last rtc_write of each process returned
  ticked,      \* history: a tick arrived since p's rtc_read began
  request      \* history: the last frequency asked for and not yet overridden

chipVars == <<index, reg_a, reg_b, irqf>>
procVars == <<pc, prev, result, ticked>>
vars == <<rate, flag_rtc, chipVars, procVars, request>>

MAXIMUM_RATE == 15
MAX_FREQ == 1024
PIE == "PIE"               \* bit 0x40 of register B
H24 == "H24"               \* bit 0x02, 24-hour mode, set by the firmware
NoRequest == 0             \* nothing asked for, or a rejected rtc_write

-----------------------------------------------------------------------------
(* The frequency arithmetic of rtc_write *)

\* The loop of rtc_write: divide by two while even and above one.  What is
\* left of the frequency, and how often it was divided.
Halve[f \in Nat] ==
  IF f % 2 = 0 /\ f > 1
    THEN LET rest == Halve[f \div 2]
         IN  [frequency |-> rest.frequency, power_value |-> rest.power_value + 1]
    ELSE [frequency |-> f, power_value |-> 0]

Reduce(f) == IF f > 1 THEN Halve[f] ELSE [frequency |-> f, power_value |-> 0]

is_power_of_two_even(f) == Reduce(f).power_value > 0

\* is_power_of_two is set in the loop, when a division leaves 1.
is_power_of_two(f) == Reduce(f).power_value > 0 /\ Reduce(f).frequency = 1

\* The test at the end is on the reduced frequency.
Accepts(f) ==
  /\ is_power_of_two(f)
  /\ Reduce(f).frequency <= MAX_FREQ
  /\ Reduce(f).frequency # 0

rate_of_short(f) == MAXIMUM_RATE - Reduce(f).power_value

rate_of(f) == (MAXIMUM_RATE - Reduce(f).power_value) + 1

\* rate &= RATE_FLAG: the low four bits of the signed char.
rate_bits(r) == r % 16

\* What the chip does with rate bits r (external): r = 0 stops the periodic
\* interrupt, 1 and 2 give 256 and 128 Hz, the others 32768 >> (r - 1).
hw_frequency(r) ==
  CASE r = 0 -> 0
    [] r = 1 -> 256
    [] r = 2 -> 128
    [] OTHER -> 32768 \div (2 ^ (r - 1))

-----------------------------------------------------------------------------

\* The kernel starts the driver with zeroed globals; the firmware leaves the
\* chip at 1024 Hz, periodic interrupts off.
Init ==
  /\ rate = 0
  /\ flag_rtc = 0
  /\ index = "C"
  /\ reg_a = 6
  /\ reg_b = {H24}
  /\ irqf = FALSE
  /\ pc = [p \in Procs |-> "idle"]
  /\ prev = [p \in Procs |-> {}]
  /\ result = [p \in Procs |-> 0]
  /\ ticked = [p \in Procs |-> FALSE]
  /\ request = NoRequest

Goto(p, from, to) == pc[p] = from /\ pc' = [pc EXCEPT ![p] = to]

\* rtc_open: the default rate, then rtc_init.
rtc_open(p) ==
  /\ Goto(p, "idle", "init_flag")
  /\ rate' = MAXIMUM_RATE
  /\ request' = 2
  /\ UNCHANGED <<flag_rtc, chipVars, prev, result, ticked>>

init_flag(p) ==
  /\ Goto(p, "init_flag", "init_select")
  /\ flag_rtc' = 0
  /\ UNCHANGED <<rate, chipVars, prev, result, ticked, request>>

init_select(p) ==
  /\ Goto(p, "init_select", "init_read")
  /\ index' = "B"
  /\ UNCHANGED <<rate, flag_rtc, reg_a, reg_b, irqf, prev, result, ticked, request>>

\* If the handler ran since the index was written, register C is read here:
\* the handler has just read and so cleared it.
init_read(p) ==
  /\ Goto(p, "init_read", "init_reselect")
  /\ prev' = [prev EXCEPT ![p] = IF index = "B" THEN reg_b ELSE {}]
  /\ irqf' = (irqf /\ index = "B")
  /\ UNCHANGED <<rate, flag_rtc, index, reg_a, reg_b, result, ticked, request>>

init_reselect(p) ==
  /\ Goto(p, "init_reselect", "init_write")
  /\ index' = "B"
  /\ UNCHANGED <<rate, flag_rtc, reg_a, reg_b, irqf, prev, result, ticked, request>>

\* Without "| 0x40".
init_write_prev(p) ==
  /\ Goto(p, "init_write", "opened")
  /\ reg_b' = IF index = "B" THEN prev[p] ELSE reg_b
  /\ UNCHANGED <<rate, flag_rtc, index, reg_a, irqf, prev, result, ticked, request>>

\* Register C is read-only: a write that meets it is lost.
init_write(p) ==
  /\ Goto(p, "init_write", "opened")
  /\ reg_b' = IF index = "B" THEN prev[p] \cup {PIE} ELSE reg_b
  /\ UNCHANGED <<rate, flag_rtc, index, reg_a, irqf, prev, result, ticked, request>>

\* Without "flag_rtc = 0".
rtc_read_stale(p) ==
  /\ Goto(p, "opened", "read_wait")
  /\ ticked' = [ticked EXCEPT ![p] = FALSE]
  /\ UNCHANGED <<rate, flag_rtc, chipVars, prev, result, request>>

\* rtc_read: clear the flag, then wait for the handler to set it.
rtc_read(p) ==
  /\ Goto(p, "opened", "read_wait")
  /\ flag_rtc' = 0
  /\ ticked' = [ticked EXCEPT ![p] = FALSE]
  /\ UNCHANGED <<rate, chipVars, prev, result, request>>

read_return(p) ==
  /\ flag_rtc = 1
  /\ Goto(p, "read_wait", "opened")
  /\ UNCHANGED <<rate, flag_rtc, chipVars, prev, result, ticked, request>>

\* rtc_write with a 4-byte argument: the locals are private, the one store
\* to rate is all others see.
rtc_write(p, f) ==
  /\ pc[p] = "opened"
  /\ rate' = IF Accepts(f) THEN rate_of(f) ELSE 0
  /\ result' = [result EXCEPT ![p] = IF Accepts(f) THEN 0 ELSE -1]
  /\ request' = IF Accepts(f) THEN f ELSE NoRequest
  /\ UNCHANGED <<flag_rtc, chipVars, pc, prev, ticked>>

\* rtc_write of any other size fails before it looks at the argument.
rtc_write_size(p) ==
  /\ pc[p] = "opened"
  /\ result' = [result EXCEPT ![p] = -1]
  /\ UNCHANGED <<rate, flag_rtc, chipVars, pc, prev, ticked, request>>

\* rtc_close only gives the descriptor back; the rate stays.
rtc_close(p) ==
  /\ Goto(p, "opened", "idle")
  /\ UNCHANGED <<rate, flag_rtc, chipVars, prev, result, ticked, request>>

read_reg_c_skipped == index' = "C" /\ irqf' = TRUE

\* The end of the handler selects and reads register C: the line goes down.
read_reg_c == index' = "C" /\ irqf' = FALSE

\* The chip raises IRQ 8 when periodic interrupts are enabled, its rate is not
\* 0 and its line is not still up (external).  The handler programs the rate.
interrupt_rtc ==
  /\ PIE \in reg_b
  /\ reg_a # 0
  /\ ~irqf
  /\ flag_rtc' = 1
  /\ rate' = rate_bits(rate)
  /\ reg_a' = rate'
  /\ read_reg_c
  /\ ticked' = [p \in Procs |-> TRUE]
  /\ UNCHANGED <<reg_b, pc, prev, result, request>>

InitStep(p) ==
  \/ init_flag(p) \/ init_select(p) \/ init_read(p)
  \/ init_reselect(p) \/ init_write(p)

Next ==
  \/ \E p \in Procs :
       \/ rtc_open(p) \/ InitStep(p) \/ rtc_close(p)
       \/ rtc_read(p) \/ read_return(p) \/ rtc_write_size(p)
       \/ \E f \in Frequencies : rtc_write(p, f)
  \/ interrupt_rtc

Spec == Init /\ [][Next]_vars

\* The chip keeps interrupting while it can, and a process inside the driver
\* keeps running; what programs call, and when, is up to them.
Fairness ==
  /\ WF_vars(interrupt_rtc)
  /\ \A p \in Procs : WF_vars(InitStep(p)) /\ WF_vars(read_return(p))

FairSpec == Spec /\ Fairness

-----------------------------------------------------------------------------
(* Properties *)

InitPcs == {"init_flag", "init_select", "init_read", "init_reselect", "init_write"}

\* rtc_init's read-modify-write of register B may be cut in two by the
\* handler and by other processes that run it too, and still whoever has the
\* file open has periodic interrupts enabled.
OpenEnablesInterrupts ==
  \A p \in Procs : pc[p] \in {"opened", "read_wait"} => PIE \in reg_b

ReadStep ==
  \A p \in Procs :
    (pc[p] = "read_wait" /\ pc'[p] = "opened") => ticked[p]

\* _rtc.c:76: rtc_read returns only upon an interrupt, one that arrived after
\* this very call began, although any process may clear the flag meanwhile.
ReadWaitsForTick == [][ReadStep]_vars

TickStep ==
  (interrupt_rtc /\ request \in 2..MAX_FREQ) => hw_frequency(reg_a') = request

\* The tick after a request for a legal frequency (or after rtc_open, for 2
\* Hz) leaves the chip running at exactly that frequency.
TickProgramsRequest == [][TickStep]_vars

\* A reader waits for ever only if a rejected rtc_write has stopped the chip or
\* if others keep clearing the flag it waits for: neither the handler nor an
\* rtc_init that is cut in two leaves a reader without further ticks, and a
\* flag that nobody clears any more is seen.
StarvedOnlyByOthers ==
  \A p \in Procs :
    \/ []<>(pc[p] # "read_wait")
    \/ []<>(reg_a = 0)
    \/ \E q \in Procs \ {p} : []<><<init_flag(q) \/ rtc_read(q)>>_vars

WriteStep ==
  \A p \in Procs, f \in Frequencies : rtc_write(p, f) =>
    /\ f <= MAX_FREQ => (result'[p] = 0 <=> \E k \in 1 .. 10 : f = 2 ^ k)
    /\ f > MAX_FREQ => (result'[p] = 0 => \E k \in 11 .. 30 : f = 2 ^ k)

\* Up to MAX_FREQ, a 4-byte rtc_write succeeds for exactly the powers of two
\* from 2 up: what the halving loop leaves of 0, of 1, of a negative, of an
\* odd or of an even number that is no power of two is told from success.
\* Above it nothing but a power of two succeeds; that these do is not claimed:
\* _rtc.c:120 means to reject them, but tests what the loop left of them.
WriteArithmetic == [][WriteStep]_vars

-----------------------------------------------------------------------------
(* What comments in the source say, and the code does not do *)

\* _rtc.c:33, rtc_open "Simply sets the RTC to its default frequency of 2HZ":
\* after an open the chip comes to run at 2 Hz, unless another request is made.
OpenSets2Hz ==
  (request = 2 /\ PIE \in reg_b) ~> (hw_frequency(reg_a) = 2 \/ request # 2)
=============================================================================
