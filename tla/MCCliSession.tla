---------------------------- MODULE MCCliSession -----------------------------
(***************************************************************************)
(* CliSession on small instances.                                          *)
(***************************************************************************)
EXTENDS CliSession, TLC

CONSTANTS f1, f2, f3, fileA, fileB

(* Two spellings of one file, and another file.                            *)
MCSpellings == (f1 :> fileA) @@ (f2 :> fileA) @@ (f3 :> fileB)

(* One path for each file.                                                 *)
MCPlain == [p \in Path |-> p]

(* Paths of the same file are interchangeable.                             *)
SamePlace  == Permutations({f1, f2})
AnyPlace   == Permutations(Path)
=============================================================================
