------------------------------ MODULE CStrings ------------------------------
(***************************************************************************)
(* Strings as the kernel keeps them: arrays of characters that end before  *)
(* the first 0.  Position 1 here is index 0 of the source.                 *)
(***************************************************************************)
EXTENDS Integers, Sequences, FiniteSetsExt

Space == 32
NewLine == 10

\* strlen (lib.c), for an array in which some cell is 0.
strlen(s) == Min({j \in DOMAIN s : s[j] = 0} \cup {Len(s) + 1}) - 1

\* strncpy (lib.c): copied up to the 0, then filled up with 0.
strncpy(src, n) == [k \in 1 .. n |-> IF k <= strlen(src) THEN src[k] ELSE 0]

\* Reference: the string itself.
CString(s) == SubSeq(s, 1, strlen(s))
=============================================================================
