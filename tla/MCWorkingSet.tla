---------------------------- MODULE MCWorkingSet -----------------------------
(***************************************************************************)
(* WorkingSet on small instances.                                          *)
(***************************************************************************)
EXTENDS WorkingSet, TLC

CONSTANTS a, b, fileA, fileB

(* Two files.                                                              *)
MCTwoFiles == (a :> fileA) @@ (b :> fileB)

(* Contents differ in nothing but their identity, and no liveness property *)
(* is checked.                                                             *)
Interchangeable == Permutations(Content)

(* One file only, under one spelling or two.                               *)
MCOneFile == a :> fileA
MCTwoSpellings == (a :> fileA) @@ (b :> fileA)
=============================================================================
