---------------------------- MODULE MCCommandExec ----------------------------
(***************************************************************************)
(* CommandExec on small instances.                                         *)
(***************************************************************************)
EXTENDS CommandExec
=============================================================================
