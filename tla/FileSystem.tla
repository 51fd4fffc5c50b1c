---------------------------- MODULE FileSystem ----------------------------
(***************************************************************************)
(* The read-only file system (filesys.c) behind the descriptors of one     *)
(* process: looking up directory entries, read_data, and open, read and    *)
(* close of files, directories and the rtc (syscall.c).                    *)
(*                                                                         *)
(* A process is alone with its table (Processes, DescriptorsPrivate), so   *)
(* every system call is one action.  The image is a constant.  The bytes   *)
(* of the data blocks are told apart by their address in the image: block  *)
(* b starts at b * BLOCKSIZE and the blocks are contiguous, so a copy that *)
(* runs over the end of a block goes on in the next one.                   *)
(*                                                                         *)
(* Block numbers and lengths are unsigned: WORD is 2^32, and 0 - 1 wraps   *)
(* around to WORD - 1.  A read that copies more than its caller asked for  *)
(* overwrites memory that is not modelled: it is recorded in overrun, and  *)
(* the behaviour is not followed any further.                              *)
(*                                                                         *)
(* Definitions whose name adds a word to the one below them are wrong on   *)
(* purpose: each stands for a bug that a property here must detect.        *)
(***************************************************************************)
EXTENDS CStrings

CONSTANTS
  BLOCKSIZE,
  WORD,         \* number of values of an unsigned integer
  NAMELEN,      \* length of the name field of a directory entry
  MAX_FD,       \* highest descriptor
  Dentries,     \* the directory: a sequence of [name, type, inode]
  Inodes,       \* inode number -> [length, dblock]
  fs_dblocks,   \* number of data blocks
  Fnames,       \* the strings that programs pass to open
  Chunks        \* lengths that programs pass to read

Types == {"rtc", "directory", "file"}     \* types 0, 1 and 2
NoTable == "none"                         \* table_pointer = 0
Fds == 2 .. MAX_FD

\* A string that programs pass to open: its array is longer than a name.
IsFname(s) == s \in Seq(Nat) /\ Len(s) > NAMELEN

ASSUME ImageAssumption ==
  /\ BLOCKSIZE \in Nat \ {0}
  /\ WORD \in Nat \ {0}
  /\ MAX_FD \in Nat
  /\ NAMELEN \in Nat \ {0}
  /\ fs_dblocks \in Nat \ {0}
  /\ Dentries \in Seq([name : Seq(Nat), type : Types, inode : Nat])
  /\ \A i \in DOMAIN Dentries :
       /\ Len(Dentries[i].name) = NAMELEN
       /\ Dentries[i].name[1] # 0
       /\ Dentries[i].type = "file" => Dentries[i].inode \in DOMAIN Inodes
  /\ \A fname \in Fnames : IsFname(fname)
  /\ \A n \in DOMAIN Inodes :
       /\ Inodes[n].length \in Nat
       /\ \A i \in 0 .. WORD \div BLOCKSIZE : Inodes[n].dblock[i] \in Nat
  /\ Chunks \subseteq 0 .. WORD - 1
  /\ \E c \in Chunks : c > 0

\* The number of bytes a file occupies on disk.
BytesOnDisk(node) == (((node.length - 1) \div BLOCKSIZE) + 1) * BLOCKSIZE

\* Files and buffers are far smaller than the address space: positions in a
\* file, also those behind its end, do not wrap around.
ASSUME SizeAssumption ==
  \A n \in DOMAIN Inodes, c \in Chunks :
    BLOCKSIZE + BytesOnDisk(Inodes[n]) + 2 * c < WORD

\* A sound image: the blocks of a file exist.
ASSUME SoundAssumption ==
  \A n \in DOMAIN Inodes :
    \A i \in 0 .. (Inodes[n].length - 1) \div BLOCKSIZE :
      Inodes[n].dblock[i] < fs_dblocks

VARIABLES
  fd_table,    \* [flags, table_pointer, inode, file_position] of each descriptor
  opened_as,   \* history: the string the descriptor was opened with
  got,         \* history: what reads of the descriptor have returned since open
  ended,       \* history: the last read of the descriptor returned 0
  overrun      \* <<>>, or the read that copied too much: file, position, length

historyVars == <<opened_as, got, ended>>
fsVars == <<fd_table, historyVars, overrun>>

-----------------------------------------------------------------------------
(* read_data *)

get_dblock_mem_start(idx, offset) == idx * BLOCKSIZE

get_dblock_mem(idx, offset) == idx * BLOCKSIZE + offset

\* end_block: of the request, or of the file if the request goes past it.
EndBlock(node, offset, length) ==
  IF node.length < (offset + length) % WORD
    THEN ((node.length - 1) % WORD) \div BLOCKSIZE
    ELSE ((offset + length - 1) % WORD) \div BLOCKSIZE

BadBlock(node, i) == node.dblock[i] > fs_dblocks - 1

PastFile_never(start_block, end_block) == FALSE

PastFile(start_block, end_block) == start_block > end_block

\* What the loop has copied when it comes to block i: the rest of the block
\* that offset is in, then whole blocks.
Before(offset, i) ==
  IF i = offset \div BLOCKSIZE THEN 0
  ELSE (i - (offset \div BLOCKSIZE)) * BLOCKSIZE - (offset % BLOCKSIZE)

\* "length -= copy_len" is forgotten.
Left_all(length, copied) == length

\* What is left of length for the last copy.
Left(length, copied) == (length - copied) % WORD

\* Where byte k of the copy comes from: the block it falls into, or, from the
\* last block on, whatever lies behind the start of that copy.
Source(node, offset, last_block, k) ==
  LET start_block == offset \div BLOCKSIZE
      within == (offset % BLOCKSIZE) + k
      i == Min({start_block + (within \div BLOCKSIZE), last_block})
  IN  get_dblock_mem(node.dblock[i], within - (i - start_block) * BLOCKSIZE)

\* The bytes read_data copies; it returns their number.  The loop stops before
\* a bad block; the last copy is of all that is left of length, whether or not
\* the file has it.
read_data(node, offset, length) ==
  LET start_block == offset \div BLOCKSIZE
      end_block == EndBlock(node, offset, length)
      last_block == Max({start_block, end_block})
      bad == {i \in start_block + 1 .. last_block : BadBlock(node, i)}
      total_len ==
        IF bad # {} THEN Before(offset, Min(bad))
        ELSE Before(offset, last_block) + Left(length, Before(offset, last_block))
  IN  IF BadBlock(node, start_block) \/ PastFile(start_block, end_block) THEN <<>>
      ELSE [k \in 1 .. total_len |-> Source(node, offset, last_block, k - 1)]

\* Reference: byte i of a file, from 0 up.
FileByte(node, i) == node.dblock[i \div BLOCKSIZE] * BLOCKSIZE + (i % BLOCKSIZE)

-----------------------------------------------------------------------------
(* read_dentry_by_name *)

NameMatches_unterminated(fname, name) ==
  \/ \A j \in 1 .. NAMELEN : fname[j] = name[j]
  \/ \E j \in 1 .. NAMELEN : /\ fname[j] = 0 /\ name[j] = 0
                             /\ \A k \in 1 .. j - 1 : fname[k] = name[k]

\* The comparison loop: equal up to a common 0, or equal all through a name
\* that fills its field, and then fname ends there.
NameMatches(fname, name) ==
  \/ /\ \A j \in 1 .. NAMELEN : fname[j] = name[j]
     /\ (\E j \in 1 .. NAMELEN : fname[j] = 0) \/ fname[NAMELEN + 1] = 0
  \/ \E j \in 1 .. NAMELEN : /\ fname[j] = 0 /\ name[j] = 0
                             /\ \A k \in 1 .. j - 1 : fname[k] = name[k]

\* The loop over the entries: the first that matches is dentry i.
read_dentry_by_name(fname, i) ==
  /\ NameMatches(fname, Dentries[i].name)
  /\ \A j \in 1 .. i - 1 : ~NameMatches(fname, Dentries[j].name)

-----------------------------------------------------------------------------
(* The descriptors of a process *)

Closed == [flags |-> 0, table_pointer |-> NoTable, inode |-> 0, file_position |-> 0]

\* init_fd
FsInit ==
  /\ fd_table = [fd \in Fds |-> Closed]
  /\ opened_as = [fd \in Fds |-> <<>>]
  /\ got = [fd \in Fds |-> <<>>]
  /\ ended = [fd \in Fds |-> FALSE]
  /\ overrun = <<>>

get_avail_fd(fd) ==
  /\ fd_table[fd].flags = 0
  /\ \A g \in Fds : g < fd => fd_table[g].flags # 0

\* set_fileop_ptr, then file_open, directory_open or rtc_open.
Opened(dentry) ==
  [flags |-> 1, table_pointer |-> dentry.type,
   inode |-> IF dentry.type = "file" THEN dentry.inode ELSE 0,
   file_position |-> 0]

open(fname) ==
  \E fd \in Fds, i \in DOMAIN Dentries :
    /\ get_avail_fd(fd)
    /\ read_dentry_by_name(fname, i)
    /\ fd_table' = [fd_table EXCEPT ![fd] = Opened(Dentries[i])]
    /\ opened_as' = [opened_as EXCEPT ![fd] = CString(fname)]
    /\ got' = [got EXCEPT ![fd] = <<>>]
    /\ ended' = [ended EXCEPT ![fd] = FALSE]
    /\ UNCHANGED overrun

\* No free descriptor, or no such name: open returns -1.
open_fails(fname) ==
  /\ \/ ~ \E fd \in Fds : get_avail_fd(fd)
     \/ ~ \E i \in DOMAIN Dentries : read_dentry_by_name(fname, i)
  /\ UNCHANGED fsVars

\* What a read for nbytes returned, and the position it advances to.
Read(fd, nbytes, items, position) ==
  /\ fd_table' = [fd_table EXCEPT ![fd].file_position = position]
  /\ got' = [got EXCEPT ![fd] = got[fd] \o items]
  /\ ended' = [ended EXCEPT ![fd] = (items = <<>> /\ nbytes # 0)]
  /\ UNCHANGED <<opened_as, overrun>>

\* file_position += retval
advance(position, ret, nbytes) == position + ret

file_read(fd, nbytes) ==
  /\ fd_table[fd].flags = 1
  /\ fd_table[fd].table_pointer = "file"
  /\ LET inode == fd_table[fd].inode
         position == fd_table[fd].file_position
         buf == read_data(Inodes[inode], position, nbytes)
     IN  IF Len(buf) > nbytes
           THEN overrun' = <<inode, position, nbytes>> /\ UNCHANGED <<fd_table, historyVars>>
           ELSE Read(fd, nbytes, buf, advance(position, Len(buf), nbytes))

IndexPastEnd_last(index) == index >= Len(Dentries) - 1

\* read_dentry_by_index fails.
IndexPastEnd(index) == index > Len(Dentries) - 1

directory_read(fd, nbytes) ==
  /\ fd_table[fd].flags = 1
  /\ fd_table[fd].table_pointer = "directory"
  /\ LET index == fd_table[fd].file_position
     IN  IF IndexPastEnd(index)
           THEN Read(fd, nbytes, <<>>, index)
           ELSE Read(fd, nbytes, <<index + 1>>, index + 1)

\* Returns 0 when a tick has come; Rtc is about when that is.
rtc_read(fd, nbytes) ==
  /\ fd_table[fd].flags = 1
  /\ fd_table[fd].table_pointer = "rtc"
  /\ Read(fd, nbytes, <<>>, fd_table[fd].file_position)

\* The driver that table_pointer names.
read(fd, nbytes) ==
  file_read(fd, nbytes) \/ directory_read(fd, nbytes) \/ rtc_read(fd, nbytes)

\* read, write and close of a descriptor that is closed, and write of a file
\* or a directory: -1.
call_fails(fd) ==
  /\ fd_table[fd].flags = 0 \/ fd_table[fd].table_pointer # "rtc"
  /\ UNCHANGED fsVars

\* file_close, directory_close or rtc_close.
Closing(fd) ==
  [Closed EXCEPT !.inode = IF fd_table[fd].table_pointer = "rtc" THEN 0 ELSE -1]

close(fd) ==
  /\ fd_table[fd].flags = 1
  /\ fd_table' = [fd_table EXCEPT ![fd] = Closing(fd)]
  /\ opened_as' = [opened_as EXCEPT ![fd] = <<>>]
  /\ got' = [got EXCEPT ![fd] = <<>>]
  /\ ended' = [ended EXCEPT ![fd] = FALSE]
  /\ UNCHANGED overrun

\* Any system call of a program that uses files.
FsNext ==
  /\ overrun = <<>>
  /\ \/ \E fname \in Fnames : open(fname) \/ open_fails(fname)
     \/ \E fd \in Fds : \/ \E nbytes \in Chunks : read(fd, nbytes)
                        \/ close(fd)
                        \/ call_fails(fd)

FsSpec == FsInit /\ [][FsNext]_fsVars

-----------------------------------------------------------------------------
(* Properties *)

IsOpen(fd, type) == fd_table[fd].flags = 1 /\ fd_table[fd].table_pointer = type

NodeOf(fd) == Inodes[fd_table[fd].inode]

\* However a program cuts its reads into chunks, and whatever else it opens,
\* reads and closes in between, it gets the bytes of the file in order, from
\* the first one on; only behind the last byte of the file may others follow.
ReadsAreTheFile ==
  \A fd \in Fds : IsOpen(fd, "file") =>
    /\ fd_table[fd].file_position = Len(got[fd])
    /\ \A k \in 1 .. Len(got[fd]) :
         k <= NodeOf(fd).length => got[fd][k] = FileByte(NodeOf(fd), k - 1)

\* A read of some bytes returns 0 only when the whole file, or every entry of
\* the directory in order, has been returned: "read until 0" misses nothing.
EndOnlyAfterAll ==
  \A fd \in Fds : ended[fd] =>
    /\ IsOpen(fd, "file") => Len(got[fd]) >= NodeOf(fd).length
    /\ IsOpen(fd, "directory") => got[fd] = [k \in 1 .. Len(Dentries) |-> k]

\* The last position in a file at which a read can return something.
LastStart(node) == IF node.length = 0 THEN 0 ELSE BytesOnDisk(node) - 1

\* "Read until 0" ends: although read_data does not stop at the last byte of
\* the file, no read starts behind the last block.
ReadsStop ==
  \A fd \in Fds : IsOpen(fd, "file") =>
    Len(got[fd]) <= LastStart(NodeOf(fd)) + Max(Chunks)

\* No read writes behind the bytes its caller asked for, wherever it starts
\* and however it is cut by blocks and by the end of the file, but for two
\* requests: a read of 0 bytes from the start of a file, and a read of a file
\* that is empty, for which end_block wraps around.
ReadFitsBuffer ==
  overrun # <<>> =>
    \/ overrun[2] = 0 /\ overrun[3] = 0
    \/ Inodes[overrun[1]].length = 0

EntryName == [i \in DOMAIN Dentries |-> CString(Dentries[i].name)]

\* There is an entry for every name of the directory and for no other string.
LookupAgrees ==
  \A fname \in Fnames :
    (\E i \in DOMAIN Dentries : read_dentry_by_name(fname, i))
      <=> (\E i \in DOMAIN Dentries : EntryName[i] = CString(fname))

\* The comparison loop finds exactly the entries whose name is the string it
\* was given, names that fill the whole field and names that begin like
\* another included, and a descriptor stands for the entry that its string
\* names as long as it is open.
FindsByName ==
  /\ \A fd \in Fds : fd_table[fd].flags = 1 =>
       \E i \in DOMAIN Dentries :
         /\ EntryName[i] = opened_as[fd]
         /\ IsOpen(fd, Dentries[i].type)
         /\ Dentries[i].type = "file" => fd_table[fd].inode = Dentries[i].inode
  /\ LookupAgrees
=============================================================================
