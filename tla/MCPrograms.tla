---------------------------- MODULE MCPrograms ----------------------------
(***************************************************************************)
(* Programs for TLC: a directory, the rtc and files with the programs cat, *)
(* ls, grep and another one.  Blocks are neither in order nor all used;    *)
(* one file ends inside a block, one at the end of one, one holds no       *)
(* program and one is empty (the names of these two begin with a dot, so   *)
(* that grep passes them by), as is inode 0, which the directory and the   *)
(* rtc have.  Entries behind the last block of an inode are 0.  One name   *)
(* fills its field and begins like two others.                             *)
(***************************************************************************)
EXTENDS Programs

a == 97
b == 98

Field(s) == strncpy(s, NAMELEN)

Entry(s, kind, n) == [name |-> Field(s), type |-> kind, inode |-> n]

SmallDirectory ==
  << Entry(<<Dot>>, "directory", 0), Entry(<<a, b>>, "file", 1), Entry(<<b>>, "rtc", 0),
     Entry(<<a, b, b>>, "file", 2), Entry(<<a>>, "file", 3), Entry(<<b, a>>, "file", 4),
     Entry(<<Dot, a>>, "file", 5), Entry(<<Dot, b>>, "file", 6) >>

Length == [n \in 0 .. 6 |-> IF n = 0 THEN 0 ELSE <<3, 4, 1, 2, 0, 1>>[n]]

SmallInodes ==
  [n \in 0 .. 6 |->
     [length |-> Length[n],
      dblock |-> [i \in 0 .. WORD \div BLOCKSIZE |->
                    IF i = 0 /\ n > 0 THEN 7 - n ELSE IF i = 1 THEN n ELSE 0]]]

SmallPrograms == [n \in 1 .. 4 |-> <<"grep", "ls", "cat", "other">>[n]]

\* Names, a name with more behind it, and nothing; the directory and the rtc are
\* opened by ls and cat.
SomeFnames ==
  {strncpy(s, NAMELEN + 1) : s \in {<<a, b>>, <<a, b, b>>, <<a, b, b, a>>, <<>>}}

SomeLines ==
  {<<a, Space, a, b, NewLine>>, <<a, Space, Space, a, b>>, <<a, Space, NewLine>>,
   <<a, Space, Dot, a, NewLine>>, <<a, Space, b, NewLine>>, <<a, Space, b, b, NewLine>>,
   <<a, Space, Dot, NewLine>>, <<a, b, Space, a, NewLine>>, <<a, b, NewLine>>,
   <<a, b, b, NewLine>>, <<b, a, NewLine>>, <<b, b, NewLine>>, <<Space, a, b, NewLine>>,
   <<b, NewLine>>, <<Dot, a, NewLine>>, <<Dot, b, NewLine>>, <<b, Dot, NewLine>>,
   <<NewLine>>, <<a, NewLine, Space, a, NewLine>>}

SomeExit == <<b, Dot>>

SomeCommands ==
  {strncpy(s, USR_BUF_SIZE) : s \in {<<a, Space, b, b, a>>}}
=============================================================================
