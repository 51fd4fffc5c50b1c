------------------------------ MODULE Programs ------------------------------
(***************************************************************************)
(* A terminal from the line its shell reads to the exit of the program the *)
(* line starts: ece391shell.c, the part of execute that looks at the       *)
(* command, getargs, and the programs cat, ls and grep as clients of the   *)
(* file system.  Any other program makes system calls as it likes.         *)
(*                                                                         *)
(* The terminal is process Me; the other processes of Getargs stand for    *)
(* programs of other terminals that ask for their arguments meanwhile.     *)
(* Programs of other terminals can also hold every PCB when this one's     *)
(* shell calls execute, and halt between this one's halt and the return of *)
(* execute: the status passes through the one global ret_status.  Which    *)
(* process runs when, and the PCBs, are the subject of Processes.          *)
(* A behaviour is one command: the shell starts over with the same state,  *)
(* but for what the last getargs left in the global array, and the calls   *)
(* of the other processes leave such things as well.                       *)
(*                                                                         *)
(* Definitions whose name adds a word to the one below them are wrong on   *)
(* purpose: each stands for a bug that a property here must detect.        *)
(***************************************************************************)
EXTENDS FileSystem, Getargs

CONSTANTS
  Me,
  Lines,       \* what keyboard_read may return to the shell
  ExitWord,    \* the line that ends the shell ("exit")
  Commands,    \* the commands that programs of other terminals run with
  ProgramOf,   \* inode of an executable file -> the program in it
  BUFSIZE,     \* length that cat and grep pass to read
  MAGIC_SIZE,  \* number of magic bytes of an executable file (4)
  Statuses     \* what programs other than cat, ls and grep pass to halt

ASSUME ProgramsAssumption ==
  /\ Me \in Procs
  /\ \A line \in Lines : line \in Seq(Chars) /\ Len(line) < USR_BUF_SIZE
  /\ \A s \in Commands : IsCommand(s)
  /\ DOMAIN ProgramOf \subseteq DOMAIN Inodes
  /\ \A n \in DOMAIN ProgramOf : ProgramOf[n] \in {"cat", "ls", "grep", "other"}
  /\ BUFSIZE \in Chunks \ {0}
  /\ MAGIC_SIZE \in 1 .. BLOCKSIZE
  /\ Statuses \subseteq 0 .. 255
  /\ USR_BUF_SIZE > NAMELEN

Dot == 46
ThisDirectory == strncpy(<<Dot>>, USR_BUF_SIZE)

\* The image names every entry differently and lists itself as ".", a process
\* can have a file open besides the directory, every entry has an inode (the
\* directory and the rtc have inode 0, which is empty), and the first block of
\* an inode exists (it is 0 if unused).
ASSUME DirectoryAssumption ==
  /\ \A i, j \in DOMAIN Dentries : EntryName[i] = EntryName[j] => i = j
  /\ \E i \in DOMAIN Dentries : EntryName[i] = <<Dot>> /\ Dentries[i].type = "directory"
  /\ 3 \in Fds
  /\ \A i \in DOMAIN Dentries : Dentries[i].inode \in DOMAIN Inodes
  /\ \A n \in DOMAIN Inodes : Inodes[n].dblock[0] < fs_dblocks

VARIABLES
  ppc,          \* where the terminal is: the shell, or a program and its step
  command,      \* the string the shell passes to execute
  exit_status,  \* what the program passes to halt
  ret_status,   \* the global through which halt hands it to execute
  status,       \* what execute returns to the shell
  searched,     \* history: the directory entries grep has read to the end
  refused,      \* history: execute found no free PCB
  overwritten   \* history: another terminal's halt wrote ret_status meanwhile

statusVars == <<ret_status, refused, overwritten>>
progVars == <<ppc, command, exit_status, status, searched, statusVars>>
vars == <<fsVars, argsVars, progVars>>

Init ==
  /\ FsInit
  /\ \E s \in [Procs \ {Me} -> Commands] :
       user_buf = [p \in Procs |-> IF p = Me THEN strncpy(<<>>, USR_BUF_SIZE) ELSE s[p]]
  /\ arg_retrieved = [k \in Cells |-> 0]
  /\ args_pc = [p \in Procs |-> "user"]
  /\ args_i = [p \in Procs |-> 1]
  /\ args_j = [p \in Procs |-> 1]
  /\ args_nbytes = [p \in Procs |-> 0]
  /\ args_buf = [p \in Procs |-> [k \in Cells |-> Garbage]]
  /\ args_ret = [p \in Procs |-> 0]
  /\ disturbed = [p \in Procs |-> FALSE]
  /\ ppc = "shell"
  /\ command = strncpy(<<>>, USR_BUF_SIZE)
  /\ exit_status = 0
  /\ ret_status = 0
  /\ status = 0
  /\ searched = <<>>
  /\ refused = FALSE
  /\ overwritten = FALSE

-----------------------------------------------------------------------------
(* The shell and execute *)

\* The last character is dropped if it is the newline.
WithoutNewline(line) ==
  IF line # <<>> /\ line[Len(line)] = NewLine THEN SubSeq(line, 1, Len(line) - 1) ELSE line

\* fname in execute: the command up to the first space or newline.
CommandName(s) ==
  strncpy(SubSeq(s, 1, Min({i \in DOMAIN s : s[i] \in {Space, NewLine, 0}}) - 1), USR_BUF_SIZE)

\* The file holds a program: its first bytes are the magic ones.
IsExecutable(i) == Dentries[i].inode \in DOMAIN ProgramOf

\* The read of the magic bytes copies more than the array on the stack holds.
MagicOverruns(i) == Len(read_data(Inodes[Dentries[i].inode], 0, MAGIC_SIZE)) > MAGIC_SIZE

\* execute returns -1 and has started nothing.
Reject(no_pcb) ==
  /\ ppc' = "exited" /\ status' = -1
  /\ refused' = no_pcb
  /\ UNCHANGED <<fsVars, argsVars>>

\* The program starts with its command in its PCB and a fresh descriptor table.
Start(s, i) ==
  /\ user_buf' = [user_buf EXCEPT ![Me] = strncpy(s, USR_BUF_SIZE)]
  /\ ppc' = ProgramOf[Dentries[i].inode]
  /\ UNCHANGED <<fsVars, arg_retrieved, args_pc, localVars, disturbed, status, refused>>

\* execute: no such file, no program, no free PCB, or the program starts.
execute(s) ==
  LET found == {i \in DOMAIN Dentries : read_dentry_by_name(CommandName(s), i)}
  IN  /\ command' = s
      /\ \/ found = {} /\ Reject(FALSE)
         \/ \E i \in found :
              /\ MagicOverruns(i)
              /\ overrun' = <<Dentries[i].inode, 0, MAGIC_SIZE>>
              /\ UNCHANGED <<fd_table, historyVars, argsVars, ppc, status, refused>>
         \/ \E i \in found : ~MagicOverruns(i) /\ ~IsExecutable(i) /\ Reject(FALSE)
         \/ \E i \in found : ~MagicOverruns(i) /\ IsExecutable(i) /\ Reject(TRUE)
         \/ \E i \in found : ~MagicOverruns(i) /\ IsExecutable(i) /\ Start(s, i)

\* A line has been read; an empty one is ignored.
Shell(line) ==
  /\ ppc = "shell" /\ overrun = <<>>
  /\ WithoutNewline(line) \notin {<<>>, ExitWord}
  /\ execute(strncpy(WithoutNewline(line), USR_BUF_SIZE))
  /\ UNCHANGED <<searched, exit_status, ret_status, overwritten>>

\* The shell itself returns; Processes is about what comes next.
ShellExit ==
  /\ ppc = "shell" /\ overrun = <<>>
  /\ \E line \in Lines : WithoutNewline(line) = ExitWord
  /\ ppc' = "shell_exited"
  /\ UNCHANGED <<fsVars, argsVars, command, exit_status, status, searched, statusVars>>

-----------------------------------------------------------------------------
(* cat, ls and grep *)

At(from) == ppc = from /\ overrun = <<>> /\ UNCHANGED <<command, status, searched, statusVars>>

Continue(to) == ppc' = to /\ UNCHANGED <<exit_status, argsVars>>

\* The program is about to call halt, or returns from main, with this status.
Finish(st) == ppc' = "halt" /\ exit_status' = st

ExitWith(st) == Finish(st) /\ UNCHANGED <<fsVars, argsVars>>

\* main of cat and of grep begins with getargs, and gives up if it fails.
AskArguments ==
  /\ ppc \in {"cat", "grep"}
  /\ getargs(Me, USR_BUF_SIZE)
  /\ UNCHANGED <<fsVars, progVars>>

ArgumentsFail ==
  /\ At("cat") \/ At("grep")
  /\ args_pc[Me] = "done" /\ args_ret[Me] = -1
  /\ ExitWith(3)

HasArguments == args_pc[Me] = "done" /\ args_ret[Me] = 0

\* open, then the read loop at step "to"; if open fails, exit status st.
OpenThen(fname, to, st) ==
  \/ open(fname) /\ Continue(to)
  \/ open_fails(fname) /\ Finish(st) /\ UNCHANGED argsVars

CatOpen == At("cat") /\ HasArguments /\ OpenThen(args_buf[Me], "cat_read", 2)

LsOpen == At("ls") /\ OpenThen(ThisDirectory, "ls_read", 2)

GrepOpen == At("grep") /\ HasArguments /\ OpenThen(ThisDirectory, "grep_dir", 2)

\* "while (0 != (cnt = read ...))" of cat and ls: the last read ends it.
ReadLoop ==
  /\ At("cat_read") \/ At("ls_read")
  /\ read(2, BUFSIZE)
  /\ IF ended'[2] THEN Finish(0) ELSE UNCHANGED <<ppc, exit_status>>
  /\ UNCHANGED argsVars

\* grep's loop over the directory skips names that begin with a dot.
GrepNext ==
  /\ At("grep_dir")
  /\ read(2, BUFSIZE)
  /\ IF ended'[2]
       THEN Finish(0)
       ELSE /\ ppc' = IF Dentries[got'[2][Len(got'[2])]].name[1] = Dot
                        THEN "grep_dir" ELSE "grep_open"
            /\ UNCHANGED exit_status
  /\ UNCHANGED argsVars

EntryAtHand == got[2][Len(got[2])]

GrepOpenFile ==
  /\ At("grep_open")
  /\ OpenThen(strncpy(Dentries[EntryAtHand].name, USR_BUF_SIZE), "grep_read", 3)

\* do_one_file asks for what is left of its buffer, at least one byte.
GrepRead ==
  /\ At("grep_read")
  /\ \E nbytes \in 1 .. BUFSIZE : read(3, nbytes)
  /\ Continue(IF ended'[3] THEN "grep_close" ELSE "grep_read")

\* The file stays open.
GrepClose_forgotten ==
  /\ ppc = "grep_close"
  /\ searched' = Append(searched, EntryAtHand)
  /\ Continue("grep_dir")
  /\ UNCHANGED <<fsVars, command, status, statusVars>>

GrepClose ==
  /\ ppc = "grep_close"
  /\ close(3)
  /\ searched' = Append(searched, EntryAtHand)
  /\ Continue("grep_dir")
  /\ UNCHANGED <<command, status, statusVars>>

\* Any other program: system calls in any order, until it exits.
OtherProgram ==
  /\ At("other")
  /\ \/ FsNext /\ UNCHANGED <<ppc, exit_status>>
     \/ (\E st \in Statuses : Finish(st)) /\ UNCHANGED fsVars
  /\ UNCHANGED argsVars

-----------------------------------------------------------------------------
(* halt, and the way back to the shell *)

\* The value of an int8_t.
SignExtend8(st) == IF st >= 128 THEN st - 256 ELSE st

\* The loop over the descriptors; then halt jumps to exec_ret.
CloseAll ==
  /\ fd_table' = [fd \in Fds |-> IF fd_table[fd].flags = 1 THEN Closing(fd) ELSE fd_table[fd]]
  /\ ppc' = "exec_ret"
  /\ UNCHANGED <<historyVars, overrun, argsVars, command, exit_status, status, searched,
                 refused, overwritten>>

halt ==
  /\ ppc = "halt"
  /\ CloseAll
  /\ ret_status' = SignExtend8(exit_status)

\* An exception in the program: ret_status stays what it was.
halt_exception ==
  /\ ppc = "other" /\ overrun = <<>>
  /\ CloseAll
  /\ UNCHANGED ret_status

\* The end of execute, with interrupts enabled since halt.
exec_ret ==
  /\ ppc = "exec_ret"
  /\ ppc' = "exited"
  /\ status' = ret_status
  /\ UNCHANGED <<fsVars, argsVars, command, exit_status, searched, statusVars>>

\* A program of another terminal halts.
OtherHalts ==
  /\ \E st \in Statuses : ret_status' = SignExtend8(st)
  /\ overwritten' = (overwritten \/ ppc = "exec_ret")
  /\ UNCHANGED <<fsVars, argsVars, ppc, command, exit_status, status, searched, refused>>

-----------------------------------------------------------------------------

Program ==
  \/ AskArguments \/ ArgumentsFail
  \/ CatOpen \/ LsOpen \/ GrepOpen \/ ReadLoop
  \/ GrepNext \/ GrepOpenFile \/ GrepRead \/ GrepClose
  \/ OtherProgram \/ halt \/ halt_exception \/ exec_ret

\* A step of getargs in one of the processes.
Arguments ==
  /\ \/ GetargsStep(Me)
     \/ \E p \in Procs \ {Me} :
          (\E nbytes \in ArgSizes : getargs(p, nbytes)) \/ GetargsStep(p) \/ Used(p)
  /\ UNCHANGED <<fsVars, progVars>>

Next ==
  (\E line \in Lines : Shell(line)) \/ ShellExit \/ Program \/ Arguments \/ OtherHalts

Spec == Init /\ [][Next]_vars

-----------------------------------------------------------------------------
(* Properties *)

\* Reference: the entries a string names, the first word of a command, and
\* the programs in the files of that name.
Named(string) == {i \in DOMAIN Dentries : CString(Dentries[i].name) = string}

FirstWord(string) ==
  SubSeq(string, 1, Min({i \in DOMAIN string : string[i] = Space} \cup {Len(string) + 1}) - 1)

ProgramsNamed(string) ==
  {Dentries[i].inode : i \in Named(FirstWord(string))} \cap DOMAIN ProgramOf

\* A sequence lists a set of numbers, from the smallest to the largest.
Lists(seq, S) ==
  /\ {seq[k] : k \in DOMAIN seq} = S
  /\ \A j, k \in DOMAIN seq : j < k => seq[j] < seq[k]

\* The entries whose name does not begin with a dot.
Plain == {i \in DOMAIN Dentries : Dentries[i].name[1] # Dot}

NoNewLine(string) == \A k \in DOMAIN string : string[k] # NewLine

\* A status is the truth about the command: -1 if its first word names no
\* program or there was no PCB for it.  Otherwise cat, ls and grep exit with 0,
\* 2 or 3, so never with what the shell takes for "no such command"; ls lists
\* the whole directory; and, unless another terminal's getargs came between,
\* cat has status 3 only without an argument, 2 only if no entry has that name,
\* and on 0 it has printed that entry and all of it, and grep has searched
\* every entry whose name does not begin with a dot, in order.
TellsTheTruth(st) ==
  LET programs == ProgramsNamed(CString(command))
      argument == ArgumentOf(command)
  IN  IF programs = {} \/ refused THEN st = -1
      ELSE \A n \in programs :
             /\ ProgramOf[n] # "other" => st \in {0, 2, 3}
             /\ ProgramOf[n] \in {"cat", "grep"} /\ ~disturbed[Me] /\ argument = <<>>
                  => st = 3
             /\ ProgramOf[n] = "cat" /\ ~disturbed[Me] /\ argument # <<>> =>
                  IF Named(argument) = {} THEN st = 2
                  ELSE /\ st = 0
                       /\ opened_as[2] = argument
                       /\ ended[2]
             /\ ProgramOf[n] = "ls" =>
                  st = 0 /\ got[2] = [k \in 1 .. Len(Dentries) |-> k]
             /\ ProgramOf[n] = "grep" /\ ~disturbed[Me] /\ argument # <<>> =>
                  st = 0 /\ Lists(searched, Plain)

\* What execute returns to the shell is the truth about a command of one line,
\* through parsing, lookup, getargs, the read loops and the way through
\* ret_status, unless a program of another terminal halts between this one's
\* halt and the return of execute.
ExitTellsTheTruth ==
  ppc = "exited" /\ NoNewLine(CString(command)) /\ ~overwritten => TellsTheTruth(status)
=============================================================================
