----------------------------- MODULE FileChange ------------------------------
(***************************************************************************)
(* The changes to files the agent's tools propose (agent/diff.py,          *)
(* agent/file_ops.py), and what each of them makes of the disk.  A file's  *)
(* content is its text with every line ending normalized, and the line     *)
(* endings it has.                                                         *)
(***************************************************************************)
EXTENDS Naturals, FiniteSets

CONSTANTS
    File,      \* files, by resolved path
    Text,      \* normalized texts, with a line break each
    RawText,   \* proposed texts that contain a carriage return
    Nothing    \* no file, no text

ASSUME TextAssumption ==
    /\ Text \cap RawText = {}
    /\ Nothing \notin Text \cup RawText

Contents == [text : Text, newline : {"lf", "crlf", "mixed"}]

ASSUME NothingAssumption == Nothing \notin Contents

Disks == [File -> Contents \cup {Nothing}]

(* ProposedChange and ProposedFileOp.                                      *)
Change ==
    {ch \in [kind : {"edit", "create", "delete", "rename"},
             file : File, to : File,
             old : Text \cup {Nothing}, new : Text \cup RawText \cup {Nothing},
             newline : {"lf", "crlf"}] :
       ch.kind = "rename" => ch.file # ch.to}

(* Mutant of Dominant: the style is kept as it was found.                  *)
DominantAsFound(c) == {c.newline}

(* _decode_and_detect_newline: the newline style a file of content c is    *)
(* written back with.                                                      *)
Dominant(c) == IF c.newline = "mixed" THEN {"lf", "crlf"} ELSE {c.newline}

(* What is on the disk once ch.new is written in ch's newline style.  A    *)
(* carriage return in the text becomes an ending of its own, or doubles    *)
(* one: it is never read back as it was.                                   *)
Written(ch) ==
    IF ch.new \in Text
      THEN {[text |-> ch.new, newline |-> ch.newline]}
      ELSE Contents

(* The disks that performing ch on disk d can leave.                       *)
Effects(ch, d) ==
    CASE ch.kind = "delete" -> {[d EXCEPT ![ch.file] = Nothing]}
      [] ch.kind = "rename" -> {[f \in File |-> IF f = ch.file THEN Nothing
                                               ELSE IF f = ch.to THEN d[ch.file]
                                               ELSE d[f]]}
      [] OTHER              -> {[d EXCEPT ![ch.file] = c] : c \in Written(ch)}
=============================================================================
