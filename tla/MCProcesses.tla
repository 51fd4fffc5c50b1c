---------------------------- MODULE MCProcesses ----------------------------
(***************************************************************************)
(* Processes for TLC.                                                      *)
(***************************************************************************)
EXTENDS Processes
=============================================================================
