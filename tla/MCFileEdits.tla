----------------------------- MODULE MCFileEdits -----------------------------
(***************************************************************************)
(* FileEdits on small instances.                                           *)
(***************************************************************************)
EXTENDS FileEdits, TLC

(* Files and texts differ in nothing but their identity.                   *)
Interchangeable == Permutations(File) \cup Permutations(Text)
=============================================================================
