---------------------------- MODULE MCTerminal ----------------------------
(***************************************************************************)
(* Terminal for TLC.                                                       *)
(***************************************************************************)
EXTENDS Terminal
=============================================================================
