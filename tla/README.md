# A TLA+ model of the mp_OS kernel

mp_OS is a small x86 teaching kernel: three text terminals, a pool of eight
processes scheduled round robin by the timer, a read-only file system, drivers
for the RTC and the keyboard, and ten system calls. Everything runs on one CPU.
The kernel is not preemption-safe by design of a lock; it relies on which parts
run with interrupts disabled. This directory models the parts whose correctness
depends on that, checks them with TLC and proves the safety properties with
TLAPS. Source paths below are relative to `src/student-distrib/`.

## 1. Inventory

| Component | State it keeps | Operations | What makes it correct |
|---|---|---|---|
| Process pool (`process.c`, `syscall.c`) | `pcb_t` of 8 processes: `use`, `parent_*`, `fd_table`, `vid_set` | `execute`, `halt`, `halt_exception` | the PCBs in use are exactly the parent chains of the terminals; a program is loaded into its own frame; halt restores the parent |
| Scheduler (`scheduler.c`) | `process_array[3]`, `schedule_index`, `tss.esp0` | `context_switch`, `boot_shell` | each terminal continues in its own context; every terminal runs again |
| File system (`filesys.c`) | the image (read-only), `fd_t` per descriptor | `open`, `read`, `close`, lookup, `read_data` | reads return the file in order, whatever the chunks; "read until 0" misses nothing and ends |
| RTC driver (`_rtc.c`) | `rate`, `flag_rtc`, chip registers A, B and C, index port | `rtc_open`, `rtc_read`, `rtc_write`, `rtc_close`, handler | a read waits for a real tick; a requested frequency is programmed |
| Keyboard (`keyboard.c`, `interrupt_handler.c`) | three line buffers and counters, three flags, `visible_screen` | handler, `keyboard_read` | a reader gets the line typed on its terminal |
| Interrupts (`i8259.c`, `_idt.h`, `isr_wrapper.S`) | service bits of two controllers, IF | handlers, wrappers | handlers do not nest and acknowledge their line |
| Screens (`vidctl.c`, `paging.c`, `lib.c`) | video memory, three buffers, `pte[184]`, `pte_vid[0]` | `switch_vid`, `vidmap`, `putc`, `scroll_screen` | a terminal draws on its own screen only; switching loses nothing |
| Cursor (`lib.c`) | `screen_x`, `screen_y` | `putc`, `putc_keyboard`, `delete_char` | the cursor stays on the screen |
| Modifiers (`keyboard.c`) | `key_status`, `key_flag`, `terminal_flag` | `getScancode`, `getchar` | the shift follows the keys; line and echo agree |
| Arguments (`syscall.c`) | `user_buf` per PCB, the global `arg_retrieved` | `getargs` | a program gets its own argument, terminated |
| User programs (`../syscalls/`) | a command line, open descriptors | shell, `cat`, `ls`, `grep` | a command finds its file and argument, and its exit status is true |

How they interact. The timer's handler calls `context_switch`, which decides on
whose behalf everything else runs: system calls find their descriptors, their
PCB and their cursor through `schedule_index`. The keyboard's handler works on
`visible_screen` instead, and both indices change at any instruction of a system
call, because the gate of `int 0x80` leaves interrupts enabled. The driver
functions therefore share state with two handlers and with the other terminals'
system calls; only `execute`, `halt` and the handlers themselves run with
interrupts disabled.

What is hard: a handler between any two instructions of a driver (`rtc_init`'s
four port accesses, `keyboard_read`'s loops, `putc`); a system call resumed after
another terminal has run; `boot_shell` started from inside the timer's handler,
which then never returns; globals shared by all processes (`ret_status`, `rate`,
`flag_rtc`, `arg_retrieved`); limits (8 PCBs, 6 descriptors, 128-byte lines,
blocks of 4096 bytes); unsigned arithmetic at length 0; strings that fill their
field; keys that repeat and are released in any order. `PROJECT.json` lists each hazard at its line.

## 2. Modules

| Module | Models | Grain of atomicity |
|---|---|---|
| `Processes` | pool, `execute`, `halt`, `halt_exception`, `context_switch`, `boot_shell`, descriptors in use | `execute` and `halt` run with interrupts disabled: one action each; `exec_ret` to `iret` is the action `Return` |
| `JobStacks` | what the pool promises: one stack of jobs per terminal | abstract |
| `ProcessesRefine` | `Processes` implements `JobStacks` | refinement mapping through `parent_pid` |
| `Rtc` | the RTC driver and its handler | one action per port access of `rtc_init` |
| `Terminal` | keyboard handler and `keyboard_read` | one action per use of `visible_screen`, the buffer or the counter |
| `Interrupts` | controllers, gates, wrappers, acknowledgements | one action per delivery and per handler |
| `Display` | video frames and their mappings | handlers atomic; `putc` and `vidmap` split where another actor matters; `scroll_screen` one action |
| `Cursor` | one terminal's cursor | one action per statement of `putc` that touches it |
| `Keys` | `getScancode` and the table of `getchar` | one action per scan code |
| `Console` | composes `Keys` and `Cursor` with the line counter: one terminal from the scan code to the screen, against its program's output | one action per scan code and per statement of `putc` |
| `CStrings` | `strlen`, `strncpy` | operators |
| `FileSystem` | lookup, `read_data`, `open`, `read`, `close`, failing calls | one action per system call (descriptors are private, see `DescriptorsPrivate`) |
| `Getargs` | `getargs` called by several processes | one action per access to `arg_retrieved` |
| `Programs` | composes `FileSystem` and `Getargs`: the shell's line, `execute`, `cat`, `ls`, `grep` and any other client, `halt` and the way of the status back | one action per system call, `getargs` as in `Getargs` |
| `ProcessesProofs`, `RtcProofs`, `TerminalProofs`, `InterruptsProofs`, `DisplayProofs`, `ConsoleProofs` (`Cursor` and `Console`), `FileSystemProofs`, `ProgramsProofs` (`Getargs` and `Programs`) | theorems | |
| `MC*` | instances for TLC | |

Names are those of the source where TLA+ allows it (`cur_pid`, `parent_esp0`,
`get_avail_pcb`, `switch_vid`, ...). `PROJECT.json` maps every definition to its
lines. Definitions such as `close_all_late` or `gate_trap`, in front of the one
they resemble, are wrong on purpose; they are used by no specification and record
which bug each property detects.

How state and actions correspond to the code:

* **Processes.** A kernel stack is represented by the address of its top, so
  `tss_esp0`, `cur_esp0`, `parent_esp` are comparable with `get_esp0(p)`. The
  user page is the frame behind `pdt[EXEC]`; `image` says which program a frame
  holds. `halt` is the whole function: status, TSS, `cur_pid`, the close loop,
  the descriptor table, `use`, the page, the jump to `exec_ret`. `due` is a
  history variable: the status the next return of `execute` should have. A
  failing `execute` called by `boot_shell` leaves interrupts disabled, because
  nobody executes an `iret`.
* **Rtc.** `index` is what the index port selects; `reg_a` and `reg_b` are the
  chip's, `irqf` is the flag in register C that keeps the chip from raising
  another interrupt until it is read. `rate` is only copied to the chip by the
  handler. `ticked` and `request` are histories.
* **Terminal.** A buffer cell is 0 or holds a character. `keyboard_read` reads
  `visible_screen` four times, which are four steps. The clearing loop is one
  step, `ClearBuffer`, although a key can come between two of its stores; stores
  behind the end of the buffer are left out.
* **Interrupts.** `isr` holds the service bits of both controllers. The CPU runs
  `"program"`, `"exception"`, `"boot"` or a handler. The controllers and devices
  are external and modelled from how the code programs them: no line is masked
  after `i8259_init`, so lines without a handler are delivered too and reach
  `general_wrapper`, a single `iret`.
* **Display.** `picture` says who drew on a frame last. For a terminal without a
  process `context_switch` reads `vid_set` at `get_pcb(-1)`, which is memory of a
  boot stack: any value. `slice_hit` and `putc_hit` are histories.
  `scroll_screen` (`lib.c:180` to 212) is one step, although its loops run with
  interrupts enabled and test the visible screen cell by cell: a screen switch in
  the middle, which scrolls one part of each of two pictures, is not modelled, and
  no property is about it.
* **Cursor.** The terminals' cursors are independent, so one is modelled; Alt with
  a function key makes it visible or not.
* **Keys.** The codes are grouped into the classes that the branches and the table
  tell apart. `held` is the keyboard: a key that is down may send its press code
  again, keys go up in any order. `both_shifts` is a history. The prefix 0xE0 is a
  code without an effect, and the code behind it that of the key of the same
  number; the shift codes that some keyboards send with a prefix around other keys
  are left out.
* **Console.** `line_start` and `mixed` are histories; `Track` keeps them.
  `ClearFlag` and `ResetCounter` are the two statements of
  `keyboard_read` that this terminal notices; since the reader may be another
  terminal's (`Terminal` shows it), they may come at any time.
* **FileSystem.** A byte is represented by its address in the image, so that a
  copy that runs over the end of a block is seen to continue in the next one.
  Block numbers and lengths are unsigned with `WORD` values. A read that copies
  more than was asked for overwrites memory that is not modelled: it is recorded
  in `overrun` and the behaviour is not followed further.
* **Getargs.** Reading and writing a cell of the one global array are steps of
  their own, so calls of other processes come in between; what a call does to its
  PCB and to its caller's buffer is seen by nobody else.
* **Programs.** A behaviour is one command of process `Me`, from the line that
  `keyboard_read` returned to the exit status that the shell gets; the other
  processes ask for their arguments meanwhile. `execute` reads the magic bytes
  with `read_data`, gives up without a free PCB (whether there is one is the
  choice of the other terminals), or starts the program. `Finish` is the program's
  last instruction before `halt`; `halt` closes its descriptors and stores the
  status, cut to an `int8_t`, in the global `ret_status`; `exec_ret` reads it. Another
  terminal's `halt` (`OtherHalts`) may store its own at any moment. `refused` and
  `overwritten` are histories. The shell starts over with the same
  state except for what is left in `arg_retrieved`, which the other processes
  change as well. `ProgramOf` says which files are executable. `OtherProgram`
  makes any sequence of file calls.

## 3. Runs

| Run | Bounds | Shows |
|---|---|---|
| `processes` | 4 PCBs, 3 terminals, 1 descriptor, status 255 | the seven safety properties of the core, with a pool that can be exhausted by three shells and one program |
| `processes_refine` | 3 PCBs, 2 terminals, statuses 0 and 255, depth 3, fair | `Processes` implements `JobStacks`; every terminal keeps running, shells come back, `execute` returns, although one terminal can hold two of the three PCBs and the other need one, unless the machine stops |
| `execute_own_status` | 4 PCBs, 2 statuses | *violated*: `execute` can return another terminal's status |
| `rtc` | 2 processes, arguments -2, 0, 1, 6, 2147483647, 1024, 131072, fair | opening enables interrupts in spite of the race, reads wait for a tick, the tick after a legal request programs it, up to 1024 `rtc_write` succeeds for exactly the powers of two and above for nothing else, a reader is starved only by a stopped chip or by others |
| `rtc_open_2hz` | as above | *violated*: after a rejected write `rtc_open` does not bring the chip back to 2 Hz |
| `terminal` | 2 terminals, buffers of 3, fair | a typed line has no hole; a full line on the visible screen has raised the flag; a reader is not starved |
| `terminal_own_buffer` | as above | *violated*: a reader can take another terminal's line |
| `interrupts` | lines 0, 1, 4, 8, 12, fair | acknowledgement, no nesting, timer and keyboard always served again |
| `display` | 2 terminals, fair | mappings, output and pictures under screen switches at any point |
| `console` | 3 by 2 screen, one row of stray, full lines of 3, counter up to 4 | the cursor stays on the screen unless a key races with `putc`; the shift never sticks; the cursor is as far behind the start of the line as the counter says |
| `cursor_off_screen` | 3 by 3 screen, two rows of stray | *violated*: Enter in the middle of a `putc` takes the cursor off the screen |
| `programs` | 8 directory entries, names of up to 3 letters, files of 3, 4, 1, 2, 0 and 1 bytes in blocks of 2, `WORD` 16, chunks of 0, 1 and 3, 2 magic bytes, 2 free descriptors, 19 lines, commands of up to 5 letters, status 255 of programs other than cat, ls and grep, 2 processes in `getargs` (the other asks for 0 or 2 bytes) | names, reads, ends of files and directories, where a read overruns its buffer, arguments against a definition, exit statuses |

Why the bounds are enough. Interference needs two terminals or two processes, and
a third one to make the round robin longer than an exchange (`processes`). Four
PCBs let a terminal nest while the others hold shells, and let the pool run full.
Buffers of three cells have an inside, a limit (`TERMBUF_SIZE`) and an end. A
screen of three rows has an edge, a corner and an inside, and a line of four
characters wraps twice on two columns and scrolls. Files that end inside and at
the end of a block, with chunks that are smaller and larger than a block and not a
multiple of it, and the empty file with a `WORD` small enough for the wrapped block
number to be followed, take every path of `read_data` except the early returns on
a block number that is not in the image, which a sound image has not. The lines
have no space, one, two, spaces at the end and at the beginning, a name that fills
its field, one that is longer, one that is missing, and a second line behind the
first; one names the empty file, one the rtc and one a file that is no program.
For the safety properties the bounds matter less than that: every invariant and
every action property of a passing run, and the refinement, is also a theorem for
all values of the constants (section 5).
Named bounds: `MaxDepth` (nesting of programs), `MaxCount` (keys nobody reads),
`MaxStray` (rows off the screen), `MaxLine` (the counter of a line in `Console`).

Deadlock is checked except in the `rtc` runs, where every process may wait in
`rtc_read` with the chip stopped: the code does that.

Fairness and why the code justifies it:

* `Processes`: weak fairness of the timer tick and of `boot_shell`, strong
  fairness of the few instructions from `exec_ret` to `iret`, which fit in a time
  slice; nothing about programs.
* `Rtc`: the chip interrupts while its rate is not 0 and register C has been
  read, and a process inside the driver keeps running.
* `Terminal`: a process inside `keyboard_read` keeps running, which is what
  `EveryTerminalRuns` shows; nothing about keys.
* `Interrupts`: the CPU takes an interrupt that is offered again and again, and
  handlers and `boot_shell` run; nothing about devices or programs.
* `Display`: the timer ticks.

`TimerServed`, and in `Processes` the three properties of `processes_refine`,
except the one way to stop the machine: the other terminals hold every PCB when a
base shell halts, and the loop of `boot_shell` runs on with interrupts disabled.
`Stopped` says exactly that, so that a pool that runs full in any other way is no
excuse.

## 4. Where the code does not do what its comments say

The four violated runs, each a finding of `PROJECT.json`:

1. `syscall.c:280`, "Return an execution specific number from 0 to 256":
   `ret_status` is one global for all terminals, and interrupts are enabled
   before it is read.
2. `_rtc.c:33`, "Simply sets the RTC to its default frequency of 2HZ": it sets a
   variable that only the handler copies to the chip, and with the chip's rate at
   0 there is no handler any more.
3. `interrupt_handler.c:54`, "Depending on which screen, use different terminal
   buffers": the reader's branch depends on the screen visible at that instant.
4. `lib.c:262`, "If terminal is filled up, scroll down a line": the test for
   equality misses a cursor that a key has moved past the last row.

Further observations made while modelling. Where a property had to allow for one,
it is named:

* `syscall.c:152`: statuses from 128 up come back negative, 255 as -1.
* `syscall.c:137`: the assignment of 256 after an exception stands behind a jump.
* `scheduler.c:116`: with no free PCB `boot_shell` spins with interrupts disabled
  and the machine stops (`Stopped`, the exception of `ShellComesUp`).
* `syscall.c:226`: `execute` returns -1 for a full pool as for a missing program,
  and the shell says "no such command" for both (`ExitTellsTheTruth`).
* `syscall.c:220`: `execute` reads the magic bytes of whatever the entry names. For
  an empty file the read wraps around as below and overwrites the kernel's stack;
  in `filesys_img` this is so for `.` and `rtc`, whose inode 0 is empty.
* `_rtc.c:120` says that above 1024 Hz the rate is set to 0 and -1 returned, but
  the comparison is with the value that the loop has already divided down: 2048 and
  131072 succeed. `WriteArithmetic` claims nothing about powers of two above 1024.
* `_rtc.c:80`: readers clear one shared flag, so one of two readers can miss
  ticks.
* `interrupt_handler.c:59`: a full line on any terminal releases the reader of
  the visible one; `interrupt_handler.c:44`: the counter has no bound, only the
  flag raised at 127 (`FullLineIsAnnounced`) gets the line emptied, and only if a
  reader comes.
* `keyboard.c:277`: a key between the clearing loop and the reset of the counter
  stays in the buffer; `keyboard.c:261`: `bytes_read` is uninitialised when the
  screen changes so that no branch matches.
* `i8259.c:22`: an interrupt of the slave without a handler leaves the cascade in
  service and blocks the RTC.
* `filesys.c:184`: the last copy is not cut at the end of the file, so a read
  there returns the full count, with bytes from behind the file
  (`ReadsAreTheFile`, `ReadsStop`); `filesys.c:162`: a read of 0 bytes from the
  start of a file, and any read of an empty file, wraps around and copies far more
  than was asked for (`ReadFitsBuffer` has these two exceptions and shows there is
  no third).
* `directory_read` ignores `nbytes` and always writes a name and its 0.
* `syscall.c:295`: two calls of `getargs` that overlap can give a program a mixture
  of both arguments, or report that there is none; `OwnArgument` is about calls
  that were left alone, `AnswerTerminated` about all.
* Two lines typed before the shell reads are delivered as one. It strips the last
  newline only, so the second line becomes the argument of the first;
  `ExitTellsTheTruth` is about commands of one line.
* `keyboard.c:18`: the table has the backslash key's characters at the code of the
  left shift key. The state machine takes the first press away, but a repeat of it,
  or a press beside the right shift key, types `|`, although the comment at
  `keyboard.c:12` says such keys give 0. The table takes no notice of the prefix
  0xE0 either, so Print Screen (0xE0 0x37) types the keypad's `*`.
* `keyboard.c:99`: with two shift keys down, releasing one ends the shift
  (`ShiftAsHeld` has this exception); caps lock is ignored while shift is held.
* Ctrl-L, output and typed-ahead lines move the cursor without the counter, so that
  delete then takes different characters from the line and from the screen
  (`mixed` in `EchoMatchesLine`); in the first position of the screen delete
  shortens the line only.
* `vidctl.c:80`: a screen switch maps video memory for a program that never
  called `vidmap`, until the next tick.

## 5. Proofs

Every invariant and every action property that a passing run checks is proved as
a theorem of its specification, and so is the refinement of `JobStacks`. The
theorems hold for every value of the constants that satisfies the modules'
`ASSUME`s:

* sizes are positive, and `Processes` has at least two terminals;
* an argument of `rtc_write` is an `int32_t` (`RtcAssumption`, `_rtc.c:102`);
* a line is shorter than the screen without its last row (`ConsoleAssumption`:
  full at 127, against 24 rows of 80);
* the image is one that the image builder makes: names of `NAMELEN` cells that do
  not begin with 0, inodes and blocks that exist (`ImageAssumption`,
  `SoundAssumption`); files and buffers are far smaller than the address space, so
  that positions do not wrap around (`SizeAssumption`) -- lengths and block numbers
  still are unsigned, and `end_block` does wrap around for an empty file;
* for `Programs`, no two entries have the same name, one is the directory itself,
  `.`, a second file can be open beside it, every entry has an inode, and its first
  block exists (`DirectoryAssumption`); the buffers of the programs are longer than
  a name, and the magic bytes fit into a block (`ProgramsAssumption`).

TLC evaluates all of them on the instances of the runs.

* `ProcessesProofs`. `TypeCorrect` by itself; `TreeSafety`, `ContextSafety`,
  `SavedSafety`, `ImageSafety`, `LeakSafety` from one inductive invariant; the
  action property `DescriptorSafety` from it. `ProcessTree` is not
  inductive alone: to see that `halt` returns to a process of the same terminal
  one needs the saved contexts, and to see that those are right one needs that the
  tree is a chain. `BootOnlyWithoutProcess` ties the control state to `cur_pid`.

  `JobStacksRefinement`: a terminal's stack of jobs is read off the parent links,
  by a function that `ProcessesRefine` defines by recursion. The proof carries the
  stack as a sequence instead: `IsChain(t, s)` says that `s` has no repetition,
  ends in `cur_pid[t]`, and that each of its members is the parent of the next.
  `AncestorIsChain` shows that the recursive function then walks `s` (the
  recursion has a solution, namely the walk, and the smallest index at which two
  solutions differ would contradict it), so that the mapping is `View(s, fdt)`.
  `ExecuteStarts`, `HaltExits`, `SetFlagsUses` and `RoundRobin` each say what one
  operation does to the chains and so to the stacks; `JobStep` puts them together.
  That there is a chain in every state (`Chained`) is carried along.
* `RtcProofs`. `OpenSafety` needs `IndexMovedByTick`: if the handler has moved the
  index port away in the middle of `rtc_init`, interrupts were already enabled, so
  the misdirected write does no harm. `ReadSafety` needs that a raised flag was
  raised during the call. `WriteSafety` is about the halving loop: `HalveRecursion`
  shows that its recursion has a solution, `LeavesOne` that it leaves 1 of the
  powers of two and of no other number below 2^31, `RoundsOfPower` that 2^k takes k
  rounds, each by the smallest counterexample. `TickSafety` follows from
  `RequestHeld`: what was asked for stays in `rate` as 16 - k, which the handler's
  mask does not change for a frequency the chip has.
* `TerminalProofs`. `LineSafety` is inductive with the types of the buffers; the
  condition `Settled` is what makes it so. `FullLineSafety` from `FlagInv`: the flag
  of the visible terminal is lowered only by a reader that then empties a line
  (`Emptying`), and every key ends in the test that raises it again.
* `InterruptsProofs`. `AcknowledgeSafety` needs `OnlyRunning` (only the running
  handler's line is in service) and `CascadeOwned`; both rest on `NestingSafety`.
* `DisplayProofs`. `OutputSafety` needs `SliceMapped` (without a switch in the
  slice `pte[184]` is right) and `TestHolds` (what `putc` tested still holds).
  `BufferSafety` and `SwitchSafety` need only types.
* `ConsoleProofs`. For `Cursor`, `ColumnSafety` and `RowSafety` from the position
  of column and row at each statement of `putc`. `ImplementsCursor`: every step of
  the composition is a step of `Cursor` or leaves it alone, so `ConsoleColumn` and
  `ConsoleRow` follow. `ShiftSafety` needs only what `both_shifts` means
  (`ShiftInv`). `EchoSafety` follows the cursor as one number through the ends of
  rows and through scrolling (`EchoInv`); by `ConsoleAssumption` the start of the
  line never scrolls off.
* `FileSystemProofs`. The lemmas are about the operators: what the comparison loop
  and `strlen` decide about two strings, which blocks `read_data` visits, how many
  bytes it copies from the first, the last and the others, and that the byte it
  puts at each place is the file's. From them the invariant `FsInv`: every
  descriptor's position is the number of bytes it has returned, these are the
  file's as far as the file goes and do not go further than a chunk behind its
  last block (`FileGood`); a directory's are its first entries in order
  (`DirectoryGood`); the descriptor belongs to the entry its string named
  (`NamedGood`). The five theorems `BufferFits`, `ContentSafety`, `EndSafety`,
  `StopSafety`, `LookupSafety` are read off it.
* `ProgramsProofs`. `AnswerSafety`: the last cell of `arg_retrieved` stays 0, since
  the copying loop stops at the length of the command, which is terminated inside
  its array, and a full copy writes that 0 or an earlier one (`LastCell`,
  `InStrncpy`, `LastCopied`). `ArgumentSafety` from `Undisturbed`: as long as no
  other call has come between, the array holds what the loops of this call have
  put there so far, one predicate per loop (`Cleared`, `Copying`, `Checking`,
  `Strncpying`, `Answered`). Both are about `ArgsSpec`, any number of processes
  with any commands. `ExitSafety` is about the composition: `ProgramGood` says for
  every step of `cat`, `ls` and `grep` what is open and how far it has been read;
  with `FsInv` and `ArgsInv` it makes the exit status true. `StatusGood` follows the
  status from there through `halt`, `ret_status` and `exec_ret`; it is lost where
  another terminal's `halt` comes between. `MagicFits` shows that the read of the
  magic bytes overruns only for an empty file. Each part keeps its
  invariant inside the composition (`ProgramFilesSafety`, `ProgramArgumentSafety`).

Only model-checked: everything under fairness (`EveryTerminalRuns`,
`ShellComesUp`, `ExecuteReturns`, `StarvedOnlyByOthers`, `ReaderNotStarved`,
`TimerServed`, `MappingSettles`), which the prover does not handle.

## 6. Not modelled

grep's search for a text in a line; the test and demonstration programs other than
the shell, `cat`, `ls` and `grep` (`OtherProgram` and, in the other modules, any
sequence of system calls stand for them); `init_filesys`, boot code and descriptor
tables, straight-line code that runs before interrupts are enabled and whose result
is the constants and `Init` of the modules; the port writes of `pit.c`; `printf`
and the string functions that only serve messages; the kernel's own tests; what
happens after a read has overwritten memory; the depth of the kernel stacks
(`scheduler.c:96` starts nested `boot_shell` loops on the same boot stack when
ticks hit a terminal that has no process).

## 7. Plan

Done, in this order: `Processes` with `JobStacks`, `Rtc`, `Terminal`,
`Interrupts`, `Display`, `Cursor`, `FileSystem`; then `Getargs`, `Keys` and the two
compositions `Console` and `Programs`; then the proofs of every safety property
and of the refinement.

Next:

1. Safety lemmas under the liveness properties: that the next step towards the
   goal is never taken back (a reader in `keyboard_read` advances only towards its
   line, a terminal's turn comes nearer with every tick).
2. The boot stacks' depth in `Processes`.
3. `Terminal` and `Console` over one `visible_screen`: what is typed, echoed and
   read on one terminal, with what the lines hold.
