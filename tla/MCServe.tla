-------------------------------- MODULE MCServe --------------------------------
(***************************************************************************)
(* Serve on small instances.                                               *)
(***************************************************************************)
EXTENDS Serve, TLC

Alike == Permutations(Server) \cup Permutations(Port \ {Default})
=============================================================================
