----------------------------- MODULE MCCursor -----------------------------
(***************************************************************************)
(* Cursor for TLC.                                                         *)
(***************************************************************************)
EXTENDS Cursor
=============================================================================
