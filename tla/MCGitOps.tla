------------------------------ MODULE MCGitOps -------------------------------
(***************************************************************************)
(* GitOps on small instances.                                              *)
(***************************************************************************)
EXTENDS GitOps
=============================================================================
