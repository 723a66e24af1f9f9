----------------------------- MODULE FileEdits -------------------------------
(***************************************************************************)
(* How edit_file, write_file, delete_file and rename_file change files:    *)
(* agent/tools/editing.py and agent/tools/file_ops.py.  A tool's run()     *)
(* reads the disk and proposes; the human is shown the proposal; the loop  *)
(* then calls apply_change or apply_file_op, which look at the disk again, *)
(* or do not.  In between anybody else (an editor, a command, a second     *)
(* agent on the same project) changes the same files, a step can fail,     *)
(* Ctrl+C can land in it, and the process can die.                         *)
(*                                                                         *)
(* How edit_file finds the text to replace is left out: `new' is the whole *)
(* text it arrives at.  So are permissions, directories and sizes, which   *)
(* only make calls fail.                                                   *)
(***************************************************************************)
EXTENDS FileChange

CONSTANT NoChange

ASSUME ChangeAssumption == NoChange \notin Change

VARIABLES
    disk,      \* disk[f]: the content of f
    writer,    \* history: who changed the disk last
    pc,        \* where the agent is with its change
    change,    \* the last change it proposed
    tracker,   \* tracker[f]: the text whose hash the tracker has for f
    temp,      \* the temporary file of a write exists
    result,    \* what became of the last change
    raced      \* history: somebody else has changed a file of `change' since
               \* the agent last looked at it or wrote it

vars == <<disk, writer, pc, change, tracker, temp, result, raced>>

Init ==
    /\ disk \in Disks
    /\ writer = "other"
    /\ pc = "idle"
    /\ change = NoChange
    /\ tracker = [f \in File |-> Nothing]
    /\ temp = FALSE
    /\ result = "none"
    /\ raced = FALSE

-----------------------------------------------------------------------------
(* Reading and proposing.                                                  *)

(* A successful read_file.                                                 *)
Read(f) ==
    /\ pc = "idle"
    /\ disk[f] # Nothing
    /\ tracker' = [tracker EXCEPT ![f] = disk[f].text]
    /\ UNCHANGED <<disk, writer, pc, change, temp, result, raced>>

(* The human is shown ch, with the difference between its old and its new  *)
(* text.                                                                   *)
Propose(ch) ==
    /\ pc = "idle"
    /\ pc' = "asked"
    /\ change' = ch
    /\ result' = "none"
    /\ raced' = FALSE
    /\ UNCHANGED <<disk, writer, tracker, temp>>

TextChange(kind, f, old, new, newline) ==
    [kind |-> kind, file |-> f, to |-> f, old |-> old, new |-> new,
     newline |-> newline]

FileOp(kind, f, g) ==
    [kind |-> kind, file |-> f, to |-> g, old |-> Nothing, new |-> Nothing,
     newline |-> "lf"]

(* is_fresh: what is on the disk is what was recorded, if anything was.    *)
Fresh(f) == tracker[f] \in {Nothing, disk[f].text}

(* edit_file refuses a file that changed since it was last read;           *)
(* write_file with overwrite=true does not look.                           *)
ProposeEdit(f, new, overwrite) ==
    /\ disk[f] # Nothing
    /\ overwrite \/ Fresh(f)
    /\ new # disk[f].text
    /\ \E newline \in Dominant(disk[f]) :
         Propose(TextChange("edit", f, disk[f].text, new, newline))

ProposeCreate(f, new) ==
    /\ disk[f] = Nothing
    /\ Propose(TextChange("create", f, Nothing, new, "lf"))

ProposeDelete(f) ==
    /\ disk[f] # Nothing
    /\ Propose(FileOp("delete", f, f))

ProposeRename(f, g) ==
    /\ f # g
    /\ disk[f] # Nothing
    /\ disk[g] = Nothing
    /\ Propose(FileOp("rename", f, g))

Approve ==
    /\ pc = "asked"
    /\ pc' = "granted"
    /\ UNCHANGED <<disk, writer, change, tracker, temp, result, raced>>

(* A call is over.                                                         *)
End(how) ==
    /\ pc' = "idle"
    /\ result' = how

Reject ==
    /\ pc = "asked"
    /\ End("rejected")
    /\ UNCHANGED <<disk, writer, change, tracker, temp, raced>>

-----------------------------------------------------------------------------
(* apply_change.                                                           *)

Writing == change.kind \in {"edit", "create"}

(* _atomic_write: a temporary file in the same directory ...               *)
MakeTemp ==
    /\ pc = "granted"
    /\ Writing
    /\ pc' = "temp"
    /\ temp' = TRUE
    /\ UNCHANGED <<disk, writer, change, tracker, result, raced>>

(* Mutant of FillTemp: the text is written to the file itself first.       *)
FillInPlace ==
    /\ pc = "temp"
    /\ disk' \in Effects(change, disk)
    /\ writer' = "agent"
    /\ pc' = "synced"
    /\ UNCHANGED <<change, tracker, temp, result, raced>>

(* ... gets the whole text, is synced and given the mode ...               *)
FillTemp ==
    /\ pc = "temp"
    /\ pc' = "synced"
    /\ UNCHANGED <<disk, writer, change, tracker, temp, result, raced>>

(* ... and takes the place of the file, whatever is there by now.          *)
Replace ==
    /\ pc = "synced"
    /\ disk' \in Effects(change, disk)
    /\ writer' = "agent"
    /\ pc' = "replaced"
    /\ temp' = FALSE
    /\ raced' = FALSE
    /\ UNCHANGED <<change, tracker, result>>

(* A step fails before that: the temporary file is removed, and the file   *)
(* is reported to be as it was.  So is one that could not be deleted or    *)
(* renamed.                                                                *)
ApplyFails ==
    /\ pc \in {"granted", "temp", "synced", "checked"}
    /\ temp' = FALSE
    /\ End("unchanged")
    /\ UNCHANGED <<disk, writer, change, tracker, raced>>

(* Mutant of Verify: a file that can be read back is taken for the right   *)
(* one.                                                                    *)
VerifyUncompared ==
    LET f == change.file IN
    /\ pc = "replaced"
    /\ disk[f] # Nothing
    /\ tracker' = [tracker EXCEPT ![f] = disk[f].text]
    /\ End("ok")
    /\ UNCHANGED <<disk, writer, change, temp, raced>>

(* The file is read back and compared with what was approved.              *)
Verify ==
    LET f == change.file IN
    /\ pc = "replaced"
    /\ IF disk[f] # Nothing /\ disk[f].text = change.new
         THEN /\ tracker' = [tracker EXCEPT ![f] = disk[f].text]
              /\ End("ok")
         ELSE /\ End(IF disk[f] = Nothing THEN "unverified" ELSE "mismatch")
              /\ UNCHANGED tracker
    /\ UNCHANGED <<disk, writer, change, temp, raced>>

(* It can not be read, or not as text.                                     *)
VerifyFails ==
    /\ pc = "replaced"
    /\ End("unverified")
    /\ UNCHANGED <<disk, writer, change, tracker, temp, raced>>

-----------------------------------------------------------------------------
(* apply_file_op.                                                          *)

SourceGone ==
    /\ pc = "granted"
    /\ ~Writing
    /\ disk[change.file] = Nothing
    /\ End("gone")
    /\ UNCHANGED <<disk, writer, change, tracker, temp, raced>>

(* os.remove or os.rename, on what it finds; without a source it fails.    *)
(* The tracker forgets the paths.                                          *)
Perform ==
    /\ disk[change.file] # Nothing
    /\ disk' \in Effects(change, disk)
    /\ writer' = "agent"
    /\ tracker' = [f \in File |-> IF f \in {change.file, change.to}
                                   THEN Nothing ELSE tracker[f]]
    /\ End("ok")
    /\ raced' = FALSE
    /\ UNCHANGED <<change, temp>>

Delete ==
    /\ pc = "granted"
    /\ change.kind = "delete"
    /\ Perform

(* A renaming looks at both paths once more before it calls os.rename.     *)
DestinationExists ==
    /\ pc = "granted"
    /\ change.kind = "rename"
    /\ disk[change.file] # Nothing
    /\ disk[change.to] # Nothing
    /\ End("exists")
    /\ UNCHANGED <<disk, writer, change, tracker, temp, raced>>

(* Mutant of CheckRename: the destination is not looked at again.          *)
CheckSourceOnly ==
    /\ pc = "granted"
    /\ change.kind = "rename"
    /\ disk[change.file] # Nothing
    /\ pc' = "checked"
    /\ raced' = FALSE
    /\ UNCHANGED <<disk, writer, change, tracker, temp, result>>

CheckRename ==
    /\ pc = "granted"
    /\ change.kind = "rename"
    /\ disk[change.file] # Nothing
    /\ disk[change.to] = Nothing
    /\ pc' = "checked"
    /\ raced' = FALSE
    /\ UNCHANGED <<disk, writer, change, tracker, temp, result>>

Rename ==
    /\ pc = "checked"
    /\ Perform

-----------------------------------------------------------------------------
(* Others.                                                                 *)

World(f, c) ==
    /\ c # disk[f]
    /\ disk' = [disk EXCEPT ![f] = c]
    /\ writer' = "other"
    /\ raced' = (raced \/ (change # NoChange /\ f \in {change.file, change.to}))
    /\ UNCHANGED <<pc, change, tracker, temp, result>>

(* Mutant of Interrupt: the handler is for errors only.                    *)
InterruptUnhandled ==
    /\ pc # "idle"
    /\ End("interrupted")
    /\ UNCHANGED <<disk, writer, change, tracker, temp, raced>>

(* Ctrl+C in the CLI: an exception that passes through _atomic_write's     *)
(* handler.                                                                *)
Interrupt ==
    /\ pc # "idle"
    /\ temp' = FALSE
    /\ End("interrupted")
    /\ UNCHANGED <<disk, writer, change, tracker, raced>>

(* The process dies, and another one starts with nothing recorded.  The    *)
(* temporary file stays, and nobody looks at it again.                     *)
Crash ==
    /\ pc # "idle"
    /\ temp' = FALSE
    /\ change' = NoChange
    /\ tracker' = [f \in File |-> Nothing]
    /\ End("none")
    /\ raced' = FALSE
    /\ UNCHANGED <<disk, writer>>

-----------------------------------------------------------------------------
Proposal ==
    \E f \in File :
      \/ \E new \in Text \cup RawText :
           \/ \E overwrite \in BOOLEAN : ProposeEdit(f, new, overwrite)
           \/ ProposeCreate(f, new)
      \/ ProposeDelete(f)
      \/ \E g \in File : ProposeRename(f, g)

Apply ==
    \/ MakeTemp \/ FillTemp \/ Replace \/ ApplyFails \/ Verify \/ VerifyFails
    \/ SourceGone \/ Delete \/ DestinationExists \/ CheckRename \/ Rename

Next ==
    \/ \E f \in File : Read(f)
    \/ Proposal \/ Approve \/ Reject
    \/ Apply
    \/ \E f \in File, c \in Contents \cup {Nothing} : World(f, c)
    \/ Interrupt \/ Crash

Spec == Init /\ [][Next]_vars

-----------------------------------------------------------------------------
(* Properties.                                                             *)

(* Every variable stays within its type.                                   *)
TypeOK ==
    /\ disk \in Disks
    /\ writer \in {"agent", "other"}
    /\ pc \in {"idle", "asked", "granted", "temp", "synced", "replaced",
               "checked"}
    /\ change \in Change \cup {NoChange}
    /\ change = NoChange => pc = "idle"
    /\ pc \in {"temp", "synced", "replaced"} => Writing
    /\ pc = "checked" => change.kind = "rename"
    /\ tracker \in [File -> Text \cup {Nothing}]
    /\ temp \in BOOLEAN
    /\ result \in {"none", "rejected", "ok", "unchanged", "unverified",
                   "mismatch", "gone", "exists", "interrupted"}
    /\ raced \in BOOLEAN

(* _atomic_write cleans up (editing.py:469-475): a temporary file exists   *)
(* only while it is being written, whatever cuts the write short, the      *)
(* death of the process excepted.                                          *)
TempBelongsToWrite == temp <=> pc \in {"temp", "synced"}

TextAt(f) == IF disk[f] = Nothing THEN Nothing ELSE disk[f].text

(* Success is reported only of what is so (editing.py:494-497): if nobody  *)
(* else has touched the files since the agent wrote them, they hold the    *)
(* approved text in the proposed line endings, are gone, or have moved.    *)
SuccessIsTrue ==
    result = "ok" /\ ~raced =>
      IF Writing
        THEN disk[change.file] = [text |-> change.new, newline |-> change.newline]
        ELSE /\ disk[change.file] = Nothing
             /\ change.kind = "rename" => disk[change.to] # Nothing

(* "The original file was left unchanged" (editing.py:504 and 511) and the *)
(* refusals of file operations are true: if nobody else has touched the    *)
(* files since the proposal, they are as the human saw them.               *)
FailureLeavesFiles ==
    result \in {"unchanged", "gone", "exists", "rejected"} /\ ~raced =>
      /\ Writing => TextAt(change.file) = change.old
      /\ change.kind \in {"delete", "rename"} => disk[change.file] # Nothing
      /\ change.kind = "rename" => disk[change.to] = Nothing

(* A renaming overwrites nothing that was there when it last looked        *)
(* (file_ops.py:121-127); a file created after that look is lost.          *)
RenameOverwritesNothing ==
    [][pc = "checked" /\ result' = "ok" /\ ~raced
         => disk[change.to] = Nothing]_vars

(* What editing.py:419-421 relies on: the human has seen the text that the *)
(* edit or overwrite they approved replaces.                               *)
OverwritesOnlyWhatWasShown ==
    [][pc = "synced" /\ pc' = "replaced" /\ change.kind = "edit"
         => TextAt(change.file) = change.old]_vars

(* The change ApprovedChange would let the agent perform.                  *)
Granted ==
    IF pc \in {"granted", "temp", "synced", "checked"} THEN change ELSE NoChange

Approved == INSTANCE ApprovedChange WITH granted <- Granted

(* The tools keep the promise of ApprovedChange: a file is changed only by *)
(* an approved change, whole and once, whatever fails, is interrupted or   *)
(* dies on the way.                                                        *)
ImplementsApproved == Approved!Spec
=============================================================================
