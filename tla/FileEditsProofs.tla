--------------------------- MODULE FileEditsProofs ---------------------------
(***************************************************************************)
(* Theorems about the editing tools: about FileEdits, for all sets of      *)
(* files and texts, and in the second half about EditMatch, for texts of   *)
(* any length.  The two modules share no state.                            *)
(***************************************************************************)
EXTENDS FileEdits, EditMatch, TLAPS, WellFoundedInduction, SequenceTheorems, FiniteSetTheorems

-----------------------------------------------------------------------------
(* Lemmas.                                                                 *)

(* Whatever is proposed is a change.                                       *)
LEMMA ProposalsAreChanges ==
    /\ \A f \in File, old \in Text \cup {Nothing}, new \in Text \cup RawText,
          kind \in {"edit", "create"}, newline \in {"lf", "crlf"} :
         TextChange(kind, f, old, new, newline) \in Change
    /\ \A f \in File, g \in File :
         /\ FileOp("delete", f, g) \in Change
         /\ f # g => FileOp("rename", f, g) \in Change
  BY DEF TextChange, FileOp, Change

(* The disk stays a disk under any change, and a writing change leaves a   *)
(* file.                                                                   *)
LEMMA EffectsAreDisks ==
    ASSUME NEW ch \in Change, NEW d \in Disks, NEW e \in Effects(ch, d)
    PROVE  /\ e \in Disks
           /\ ch.kind \in {"edit", "create"} =>
                /\ e[ch.file] \in Written(ch)
                /\ e[ch.file] \in Contents
  <1>1. ch.file \in File /\ ch.to \in File /\ ch.newline \in {"lf", "crlf"}
    BY DEF Change
  <1>2. Written(ch) \subseteq Contents
    BY <1>1 DEF Written, Contents
  <1>3. CASE ch.kind \in {"edit", "create"}
    <2>1. PICK c \in Written(ch) : e = [d EXCEPT ![ch.file] = c]
      BY <1>3 DEF Effects
    <2> QED
      BY <1>1, <1>2, <2>1 DEF Disks
  <1>4. CASE ch.kind = "delete"
    BY <1>1, <1>4 DEF Effects, Disks
  <1>5. CASE ch.kind = "rename"
    BY <1>1, <1>5 DEF Effects, Disks
  <1> QED
    BY <1>3, <1>4, <1>5 DEF Change

(* A file has a text, and a newline style it is written back with.         *)
LEMMA ContentsType ==
    ASSUME NEW d \in Disks, NEW f \in File, d[f] # Nothing
    PROVE  /\ d[f] \in Contents
           /\ d[f].text \in Text
           /\ Dominant(d[f]) \subseteq {"lf", "crlf"}
  BY DEF Disks, Contents, Dominant

-----------------------------------------------------------------------------
(* The inductive invariant.                                                *)

(* Until it is performed, a change is what the human was shown, of files   *)
(* that are as they were then; FailureLeavesFiles says so only of changes  *)
(* that are over.                                                          *)
AsShown ==
    /\ Writing => TextAt(change.file) = change.old
    /\ change.kind \in {"delete", "rename"} => disk[change.file] # Nothing
    /\ change.kind = "rename" => disk[change.to] = Nothing

Open == {"asked", "granted", "temp", "synced", "checked"}

(* What the properties need of the states in mid change: the file written  *)
(* is the one approved until someone touches it, and a result belongs to   *)
(* a change that is over.                                                  *)
Mid ==
    /\ pc # "idle" => result = "none"
    /\ pc \in Open /\ ~raced => AsShown
    /\ pc = "replaced" /\ ~raced => disk[change.file] \in Written(change)
    /\ result \in {"ok", "unchanged", "gone", "exists", "rejected"}
         => change # NoChange

IInv ==
    /\ TypeOK
    /\ TempBelongsToWrite
    /\ Mid
    /\ SuccessIsTrue
    /\ FailureLeavesFiles

LEMMA InitHolds == Init => IInv
  <1> SUFFICES ASSUME Init PROVE IInv
    OBVIOUS
  <1>1. TypeOK /\ TempBelongsToWrite
    BY DEF Init, TypeOK, TempBelongsToWrite
  <1>2. Mid /\ SuccessIsTrue /\ FailureLeavesFiles
    BY DEF Init, Mid, Open, SuccessIsTrue, FailureLeavesFiles
  <1> QED
    BY <1>1, <1>2 DEF IInv

(* A change that is proposed is shown as it is.                            *)
LEMMA ProposeHolds ==
    ASSUME IInv, NEW ch \in Change, Propose(ch),
           ch.kind \in {"edit", "create"} => TextAt(ch.file) = ch.old,
           ch.kind \in {"delete", "rename"} => disk[ch.file] # Nothing,
           ch.kind = "rename" => disk[ch.to] = Nothing
    PROVE  IInv'
  <1>1. TypeOK'
    BY ChangeAssumption DEF IInv, TypeOK, Propose
  <1>2. TempBelongsToWrite'
    BY DEF IInv, TempBelongsToWrite, Propose
  <1>3. Mid'
    <2>1. AsShown'
      BY DEF Propose, AsShown, Writing, TextAt
    <2> QED
      BY <2>1 DEF Mid, Propose
  <1>4. SuccessIsTrue' /\ FailureLeavesFiles'
    BY DEF Propose, SuccessIsTrue, FailureLeavesFiles
  <1> QED
    BY <1>1, <1>2, <1>3, <1>4 DEF IInv

LEMMA ProposalHolds == ASSUME IInv, Proposal PROVE IInv'
  <1> PICK f \in File :
        \/ \E new \in Text \cup RawText :
             \/ \E overwrite \in BOOLEAN : ProposeEdit(f, new, overwrite)
             \/ ProposeCreate(f, new)
        \/ ProposeDelete(f)
        \/ \E g \in File : ProposeRename(f, g)
    BY DEF Proposal
  <1>1. disk \in Disks
    BY DEF IInv, TypeOK
  <1>2. ASSUME NEW new \in Text \cup RawText, NEW overwrite \in BOOLEAN,
               ProposeEdit(f, new, overwrite)
        PROVE  IInv'
    <2>1. PICK newline \in Dominant(disk[f]) :
            Propose(TextChange("edit", f, disk[f].text, new, newline))
      BY <1>2 DEF ProposeEdit
    <2>2. disk[f] # Nothing /\ newline \in {"lf", "crlf"} /\ disk[f].text \in Text
      BY <1>1, <1>2, ContentsType DEF ProposeEdit
    <2> DEFINE ch == TextChange("edit", f, disk[f].text, new, newline)
    <2>3. ch \in Change
      BY <2>2, ProposalsAreChanges
    <2>4. ch.kind = "edit" /\ ch.file = f /\ ch.old = disk[f].text
      BY DEF TextChange
    <2> QED
      BY <2>1, <2>2, <2>3, <2>4, ProposeHolds DEF TextAt
  <1>3. ASSUME NEW new \in Text \cup RawText, ProposeCreate(f, new)
        PROVE  IInv'
    <2> DEFINE ch == TextChange("create", f, Nothing, new, "lf")
    <2>1. ch \in Change
      BY ProposalsAreChanges
    <2>2. ch.kind = "create" /\ ch.file = f /\ ch.old = Nothing
      BY DEF TextChange
    <2> QED
      BY <1>3, <2>1, <2>2, ProposeHolds DEF ProposeCreate, TextAt
  <1>4. ASSUME ProposeDelete(f)
        PROVE  IInv'
    <2> DEFINE ch == FileOp("delete", f, f)
    <2>1. ch \in Change
      BY ProposalsAreChanges
    <2>2. ch.kind = "delete" /\ ch.file = f
      BY DEF FileOp
    <2> QED
      BY <1>4, <2>1, <2>2, ProposeHolds DEF ProposeDelete
  <1>5. ASSUME NEW g \in File, ProposeRename(f, g)
        PROVE  IInv'
    <2> DEFINE ch == FileOp("rename", f, g)
    <2>1. ch \in Change
      BY <1>5, ProposalsAreChanges DEF ProposeRename
    <2>2. ch.kind = "rename" /\ ch.file = f /\ ch.to = g
      BY DEF FileOp
    <2> QED
      BY <1>5, <2>1, <2>2, ProposeHolds DEF ProposeRename
  <1> QED
    BY <1>2, <1>3, <1>4, <1>5

(* What the type invariant says of the change in hand.                     *)
LEMMA InHand ==
    ASSUME TypeOK, pc # "idle"
    PROVE  /\ change \in Change /\ change # NoChange
           /\ change.file \in File /\ change.to \in File
           /\ change.kind \in {"edit", "create", "delete", "rename"}
           /\ disk \in Disks
  BY ChangeAssumption DEF TypeOK, Change

(* The steps of a write.                                                   *)
LEMMA WriteHolds ==
    ASSUME IInv, MakeTemp \/ FillTemp \/ Replace \/ Verify \/ VerifyFails
    PROVE  IInv'
  <1>0. /\ TypeOK /\ TempBelongsToWrite /\ Mid
        /\ change \in Change /\ change # NoChange
        /\ change.file \in File /\ disk \in Disks
    BY InHand
    DEF IInv, MakeTemp, FillTemp, Replace, Verify, VerifyFails
  <1>1. CASE MakeTemp \/ FillTemp
    <2>1. pc \in Open /\ pc' \in {"temp", "synced"} /\ result = "none"
      BY <1>0, <1>1 DEF MakeTemp, FillTemp, Open, Mid
    <2>2. TypeOK' /\ TempBelongsToWrite'
      BY <1>0, <1>1
      DEF MakeTemp, FillTemp, TypeOK, TempBelongsToWrite, Writing
    <2>3. Mid'
      BY <1>0, <1>1, <2>1
      DEF MakeTemp, FillTemp, Mid, AsShown, TextAt, Writing, Open
    <2>4. SuccessIsTrue' /\ FailureLeavesFiles'
      BY <1>1, <2>1 DEF MakeTemp, FillTemp, SuccessIsTrue, FailureLeavesFiles
    <2> QED
      BY <2>2, <2>3, <2>4 DEF IInv
  <1>2. CASE Replace
    <2>1. Writing /\ result = "none"
      BY <1>0, <1>2 DEF Replace, TypeOK, Mid
    <2>2. disk' \in Disks /\ disk'[change.file] \in Written(change)
      BY <1>0, <1>2, <2>1, EffectsAreDisks DEF Replace, Writing
    <2>3. TypeOK' /\ TempBelongsToWrite'
      BY <1>0, <1>2, <2>1, <2>2
      DEF Replace, TypeOK, TempBelongsToWrite, Writing
    <2>4. Mid'
      BY <1>0, <1>2, <2>1, <2>2 DEF Replace, Mid, Open
    <2>5. SuccessIsTrue' /\ FailureLeavesFiles'
      BY <1>2, <2>1 DEF Replace, SuccessIsTrue, FailureLeavesFiles
    <2> QED
      BY <2>3, <2>4, <2>5 DEF IInv
  <1>3. CASE Verify
    <2> DEFINE f == change.file
    <2>1. CASE disk[f] # Nothing /\ disk[f].text = change.new
      <3>1. disk[f].text \in Text
        BY <1>0, <2>1, ContentsType
      <3>2. /\ tracker' = [tracker EXCEPT ![f] = disk[f].text]
            /\ pc' = "idle" /\ result' = "ok"
            /\ UNCHANGED <<disk, writer, change, temp, raced>>
        BY <1>3, <2>1 DEF Verify, End
      <3>3. TypeOK' /\ TempBelongsToWrite'
        BY <1>0, <1>3, <3>1, <3>2
        DEF Verify, TypeOK, TempBelongsToWrite, Writing
      <3>4. Mid' /\ FailureLeavesFiles'
        BY <1>0, <3>2 DEF Mid, Open, FailureLeavesFiles
      <3>5. SuccessIsTrue'
        <4>1. SUFFICES ASSUME ~raced
              PROVE disk[f] = [text |-> change.new, newline |-> change.newline]
          BY <1>0, <1>3, <3>2 DEF SuccessIsTrue, Writing, TypeOK, Verify
        <4>2. disk[f] \in Written(change)
          BY <1>0, <1>3, <4>1 DEF Verify, Mid
        <4>3. change.new \in Text
          BY <2>1, <3>1
        <4> QED
          BY <4>2, <4>3 DEF Written
      <3> QED
        BY <3>3, <3>4, <3>5 DEF IInv
    <2>2. CASE ~(disk[f] # Nothing /\ disk[f].text = change.new)
      <3>1. /\ pc' = "idle" /\ result' \in {"unverified", "mismatch"}
            /\ UNCHANGED <<disk, writer, change, tracker, temp, raced>>
        BY <1>3, <2>2 DEF Verify, End
      <3>2. TypeOK' /\ TempBelongsToWrite'
        BY <1>0, <1>3, <3>1 DEF Verify, TypeOK, TempBelongsToWrite, Writing
      <3>3. Mid' /\ SuccessIsTrue' /\ FailureLeavesFiles'
        BY <1>0, <3>1 DEF Mid, Open, SuccessIsTrue, FailureLeavesFiles
      <3> QED
        BY <3>2, <3>3 DEF IInv
    <2> QED
      BY <2>1, <2>2
  <1>4. CASE VerifyFails
    <2>1. TypeOK' /\ TempBelongsToWrite'
      BY <1>0, <1>4 DEF VerifyFails, End, TypeOK, TempBelongsToWrite, Writing
    <2>2. Mid' /\ SuccessIsTrue' /\ FailureLeavesFiles'
      BY <1>0, <1>4
      DEF VerifyFails, End, Mid, Open, SuccessIsTrue, FailureLeavesFiles
    <2> QED
      BY <2>1, <2>2 DEF IInv
  <1> QED
    BY <1>1, <1>2, <1>3, <1>4

(* What a step that ends a call leaves: the result it reports must be true *)
(* of the disk as it is.                                                   *)
LEMMA EndHolds ==
    ASSUME IInv, NEW how, End(how), temp' = FALSE,
           UNCHANGED <<disk, writer, change, raced>>,
           pc # "idle",
           tracker' \in [File -> Text \cup {Nothing}],
           \/ how \in {"rejected", "unchanged", "gone", "exists"} /\ pc \in Open
           \/ how \in {"unverified", "mismatch", "interrupted"}
    PROVE  IInv'
  <1>0. /\ TypeOK /\ Mid /\ change \in Change /\ change # NoChange
        /\ pc' = "idle" /\ result' = how
    BY InHand DEF IInv, End
  <1>1. TypeOK' /\ TempBelongsToWrite'
    BY <1>0 DEF TypeOK, TempBelongsToWrite, Writing
  <1>2. Mid' /\ SuccessIsTrue'
    BY <1>0 DEF Mid, Open, SuccessIsTrue
  <1>3. FailureLeavesFiles'
    <2>1. pc \in Open /\ ~raced => AsShown
      BY <1>0 DEF Mid
    <2> QED
      BY <1>0, <2>1 DEF FailureLeavesFiles, AsShown, Writing, TextAt
  <1> QED
    BY <1>1, <1>2, <1>3 DEF IInv

(* Refusals, failures and interruptions.                                   *)
LEMMA RefusalHolds ==
    ASSUME IInv,
           \/ Reject \/ ApplyFails \/ SourceGone \/ DestinationExists
           \/ Interrupt
    PROVE  IInv'
  <1>0. TempBelongsToWrite /\ tracker \in [File -> Text \cup {Nothing}]
    BY DEF IInv, TypeOK
  <1>1. CASE Reject
    <2>1. pc = "asked" /\ temp' = FALSE
      BY <1>0, <1>1 DEF Reject, TempBelongsToWrite
    <2> QED
      BY <1>0, <1>1, <2>1, EndHolds DEF Reject, Open
  <1>2. CASE ApplyFails
    BY <1>0, <1>2, EndHolds DEF ApplyFails, Open
  <1>3. CASE SourceGone
    <2>1. pc = "granted" /\ temp' = FALSE
      BY <1>0, <1>3 DEF SourceGone, TempBelongsToWrite
    <2> QED
      BY <1>0, <1>3, <2>1, EndHolds DEF SourceGone, Open
  <1>4. CASE DestinationExists
    <2>1. pc = "granted" /\ temp' = FALSE
      BY <1>0, <1>4 DEF DestinationExists, TempBelongsToWrite
    <2> QED
      BY <1>0, <1>4, <2>1, EndHolds DEF DestinationExists, Open
  <1>5. CASE Interrupt
    BY <1>0, <1>5, EndHolds DEF Interrupt
  <1> QED
    BY <1>1, <1>2, <1>3, <1>4, <1>5

(* A deletion or a renaming that is performed leaves what it reports.      *)
LEMMA PerformHolds ==
    ASSUME IInv, Delete \/ Rename
    PROVE  IInv'
  <1>0. /\ TypeOK /\ TempBelongsToWrite /\ disk \in Disks
        /\ change \in Change /\ change # NoChange
        /\ change.file \in File /\ change.to \in File
        /\ pc \notin {"temp", "synced"}
        /\ change.kind \in {"delete", "rename"}
    BY InHand DEF IInv, Delete, Rename, TypeOK
  <1>1. /\ disk' \in Effects(change, disk) /\ writer' = "agent"
        /\ tracker' = [f \in File |-> IF f \in {change.file, change.to}
                                       THEN Nothing ELSE tracker[f]]
        /\ pc' = "idle" /\ result' = "ok" /\ raced' = FALSE
        /\ change' = change /\ temp' = temp
        /\ disk[change.file] # Nothing
    BY DEF Delete, Rename, Perform, End
  <1>2. disk' \in Disks
    BY <1>0, <1>1, EffectsAreDisks
  <1>3. tracker' \in [File -> Text \cup {Nothing}]
    BY <1>0, <1>1 DEF TypeOK
  <1>4. TypeOK' /\ TempBelongsToWrite'
    BY <1>0, <1>1, <1>2, <1>3 DEF TypeOK, TempBelongsToWrite
  <1>5. Mid' /\ FailureLeavesFiles'
    BY <1>0, <1>1 DEF Mid, Open, FailureLeavesFiles
  <1>6. SuccessIsTrue'
    <2>1. CASE change.kind = "delete"
      BY <1>0, <1>1, <2>1 DEF SuccessIsTrue, Writing, Effects, Disks
    <2>2. CASE change.kind = "rename"
      BY <1>0, <1>1, <2>2 DEF SuccessIsTrue, Writing, Effects, Disks, Change
    <2> QED
      BY <1>0, <2>1, <2>2
  <1> QED
    BY <1>4, <1>5, <1>6 DEF IInv

(* A read, the approval, the second look of a renaming.                    *)
LEMMA LookHolds ==
    ASSUME IInv, (\E f \in File : Read(f)) \/ Approve \/ CheckRename
    PROVE  IInv'
  <1>1. ASSUME NEW f \in File, Read(f) PROVE IInv'
    <2>1. disk[f].text \in Text
      BY <1>1, ContentsType DEF Read, IInv, TypeOK
    <2>2. TypeOK' /\ TempBelongsToWrite'
      BY <1>1, <2>1 DEF Read, IInv, TypeOK, TempBelongsToWrite, Writing
    <2>3. Mid' /\ SuccessIsTrue' /\ FailureLeavesFiles'
      BY <1>1
      DEF Read, IInv, Mid, Open, AsShown, SuccessIsTrue, FailureLeavesFiles,
          Writing, TextAt
    <2> QED
      BY <2>2, <2>3 DEF IInv
  <1>2. CASE Approve
    <2>1. pc = "asked" /\ result = "none" /\ change # NoChange
      BY <1>2, InHand DEF Approve, IInv, Mid
    <2>2. TypeOK' /\ TempBelongsToWrite'
      BY <1>2, <2>1 DEF Approve, IInv, TypeOK, TempBelongsToWrite, Writing
    <2>3. Mid'
      BY <1>2, <2>1 DEF Approve, IInv, Mid, Open, AsShown, Writing, TextAt
    <2>4. SuccessIsTrue' /\ FailureLeavesFiles'
      BY <1>2, <2>1 DEF Approve, SuccessIsTrue, FailureLeavesFiles
    <2> QED
      BY <2>2, <2>3, <2>4 DEF IInv
  <1>3. CASE CheckRename
    <2>1. result = "none" /\ change # NoChange
      BY <1>3, InHand DEF CheckRename, IInv, Mid
    <2>2. TypeOK' /\ TempBelongsToWrite'
      BY <1>3, <2>1 DEF CheckRename, IInv, TypeOK, TempBelongsToWrite, Writing
    <2>3. Mid'
      BY <1>3, <2>1
      DEF CheckRename, IInv, Mid, Open, AsShown, Writing, TextAt
    <2>4. SuccessIsTrue' /\ FailureLeavesFiles'
      BY <1>3, <2>1 DEF CheckRename, SuccessIsTrue, FailureLeavesFiles
    <2> QED
      BY <2>2, <2>3, <2>4 DEF IInv
  <1> QED
    BY <1>1, <1>2, <1>3

(* What others do to a file is not held against the agent.                 *)
LEMMA WorldHolds ==
    ASSUME IInv, NEW f \in File, NEW c \in Contents \cup {Nothing}, World(f, c)
    PROVE  IInv'
  <1>1. TypeOK' /\ TempBelongsToWrite'
    BY DEF World, IInv, TypeOK, TempBelongsToWrite, Writing, Disks
  <1>2. CASE change = NoChange
    <2>1. pc = "idle" /\ result \notin {"ok", "unchanged", "gone", "exists", "rejected"}
      BY <1>2 DEF IInv, TypeOK, Mid
    <2> QED
      BY <1>1, <1>2, <2>1
      DEF World, IInv, Mid, Open, SuccessIsTrue, FailureLeavesFiles
  <1>3. CASE change # NoChange /\ f \in {change.file, change.to}
    <2>1. raced' = TRUE
      BY <1>3 DEF World
    <2> QED
      BY <1>1, <1>3, <2>1
      DEF World, IInv, Mid, SuccessIsTrue, FailureLeavesFiles
  <1>4. CASE change # NoChange /\ f \notin {change.file, change.to}
    <2>1. change.file \in File /\ change.to \in File /\ disk \in Disks
      BY <1>4 DEF IInv, TypeOK, Change
    <2>2. /\ disk'[change.file] = disk[change.file]
          /\ disk'[change.to] = disk[change.to]
      BY <1>4, <2>1 DEF World, Disks
    <2>3. raced' = raced
      BY <1>4 DEF World, IInv, TypeOK
    <2> QED
      BY <1>1, <2>2, <2>3
      DEF World, IInv, Mid, Open, AsShown, SuccessIsTrue, FailureLeavesFiles,
          Writing, TextAt
  <1> QED
    BY <1>2, <1>3, <1>4

LEMMA CrashHolds == ASSUME IInv, Crash PROVE IInv'
  <1>1. TypeOK' /\ TempBelongsToWrite'
    BY DEF Crash, End, IInv, TypeOK, TempBelongsToWrite
  <1>2. Mid' /\ SuccessIsTrue' /\ FailureLeavesFiles'
    BY DEF Crash, End, Mid, Open, SuccessIsTrue, FailureLeavesFiles
  <1> QED
    BY <1>1, <1>2 DEF IInv

LEMMA IInvStep == IInv /\ [Next]_vars => IInv'
  <1> SUFFICES ASSUME IInv, [Next]_vars PROVE IInv'
    OBVIOUS
  <1>1. CASE Next
    BY <1>1, ProposalHolds, WriteHolds, RefusalHolds, PerformHolds, LookHolds,
       WorldHolds, CrashHolds
    DEF Next, Apply
  <1>2. CASE UNCHANGED vars
    BY <1>2
    DEF vars, IInv, TypeOK, TempBelongsToWrite, Mid, Open, AsShown,
        SuccessIsTrue, FailureLeavesFiles, Writing, TextAt
  <1> QED
    BY <1>1, <1>2

-----------------------------------------------------------------------------
(* The invariants.                                                         *)

THEOREM IInvHolds == Spec => []IInv
  BY InitHolds, IInvStep, PTL DEF Spec

(* Every variable stays within its type.                                   *)
THEOREM TypeCorrect == Spec => []TypeOK
  BY IInvHolds, PTL DEF IInv

(* _atomic_write cleans up after itself: no way out of it but the death of *)
(* the process leaves a temporary file.                                    *)
THEOREM TempCleaned == Spec => []TempBelongsToWrite
  BY IInvHolds, PTL DEF IInv

(* apply_change and apply_file_op report success only of what is so.       *)
THEOREM SuccessTrue == Spec => []SuccessIsTrue
  BY IInvHolds, PTL DEF IInv

(* "The original file was left unchanged" is true, and so are refusals.    *)
THEOREM FailureTrue == Spec => []FailureLeavesFiles
  BY IInvHolds, PTL DEF IInv

(* A renaming overwrites nothing that was there when it looked.            *)
THEOREM RenameSafe == Spec => RenameOverwritesNothing
  <1>1. ASSUME IInv, [Next]_vars
        PROVE  [pc = "checked" /\ result' = "ok" /\ ~raced
                  => disk[change.to] = Nothing]_vars
    <2> SUFFICES ASSUME pc = "checked", ~raced PROVE disk[change.to] = Nothing
      OBVIOUS
    <2>1. change.kind = "rename"
      BY <1>1 DEF IInv, TypeOK
    <2>2. AsShown
      BY <1>1 DEF IInv, Mid, Open
    <2> QED
      BY <2>1, <2>2 DEF AsShown
  <1> QED
    BY <1>1, IInvHolds, PTL DEF Spec, RenameOverwritesNothing

-----------------------------------------------------------------------------
(* The refinement.                                                         *)

(* Both specifications speak of the same files and changes.                *)
LEMMA SameChanges ==
    /\ Approved!Contents = Contents
    /\ Approved!Disks = Disks
    /\ Approved!Change = Change
    /\ \A ch, d : Approved!Effects(ch, d) = Effects(ch, d)
  <1>1. Approved!Contents = Contents
    BY DEF Contents, Approved!Contents
  <1>2. \A ch : Approved!Written(ch) = Written(ch)
    BY <1>1 DEF Written, Approved!Written
  <1> QED
    BY <1>1, <1>2
    DEF Disks, Approved!Disks, Change, Approved!Change, Effects, Approved!Effects

(* A step that leaves the disk and what is granted stutters; one that      *)
(* leaves the disk and grants nothing withdraws.                           *)
LEMMA StuttersOrWithdraws ==
    ASSUME disk' = disk, writer' = writer, Granted' \in {Granted, NoChange}
    PROVE  [Approved!Next]_<<disk, writer, Granted>>
  BY DEF Approved!Next, Approved!Withdraw

(* Every step of the tools is a step of ApprovedChange, or a stutter.      *)
LEMMA StepImplements ==
    ASSUME IInv, [Next]_vars
    PROVE  [Approved!Next]_<<disk, writer, Granted>>
  <1>0. TypeOK
    BY DEF IInv
  <1>1. CASE Proposal \/ Reject \/ \E f \in File : Read(f)
    <2>1. disk' = disk /\ writer' = writer /\ Granted' = NoChange
      BY <1>1
      DEF Proposal, ProposeEdit, ProposeCreate, ProposeDelete, ProposeRename,
          Propose, Reject, End, Read, Granted
    <2> QED
      BY <2>1, StuttersOrWithdraws
  <1>2. CASE Approve
    <2>1. change \in Change /\ Granted = NoChange /\ Granted' = change
      BY <1>0, <1>2, InHand DEF Approve, Granted
    <2>2. Approved!Grant(change)
      BY <1>2, <2>1 DEF Approve, Approved!Grant
    <2> QED
      BY <2>1, <2>2, SameChanges DEF Approved!Next
  <1>3. CASE MakeTemp \/ FillTemp \/ CheckRename
    <2>1. disk' = disk /\ writer' = writer /\ Granted' = Granted
      BY <1>3 DEF MakeTemp, FillTemp, CheckRename, Granted
    <2> QED
      BY <2>1, StuttersOrWithdraws
  <1>4. CASE Replace \/ Delete \/ Rename
    <2>1. /\ disk' \in Effects(change, disk) /\ writer' = "agent"
          /\ pc \in {"granted", "synced", "checked"}
          /\ pc' \in {"replaced", "idle"}
      BY <1>4 DEF Replace, Delete, Rename, Perform, End
    <2>2. Granted = change /\ change # NoChange /\ Granted' = NoChange
      BY <1>0, <2>1, InHand DEF Granted
    <2>3. Approved!Commit
      BY <2>1, <2>2, SameChanges DEF Approved!Commit
    <2> QED
      BY <2>3 DEF Approved!Next
  <1>5. CASE \/ ApplyFails \/ Verify \/ VerifyFails \/ SourceGone
             \/ DestinationExists \/ Interrupt \/ Crash
    <2>1. disk' = disk /\ writer' = writer /\ Granted' = NoChange
      BY <1>5
      DEF ApplyFails, Verify, VerifyFails, SourceGone, DestinationExists,
          Interrupt, Crash, End, Granted
    <2> QED
      BY <2>1, StuttersOrWithdraws
  <1>6. ASSUME NEW f \in File, NEW c \in Contents \cup {Nothing}, World(f, c)
        PROVE  [Approved!Next]_<<disk, writer, Granted>>
    <2>1. Approved!World(f, c)
      BY <1>6 DEF World, Granted, Approved!World
    <2> QED
      BY <2>1, SameChanges DEF Approved!Next
  <1>7. CASE UNCHANGED vars
    <2>1. disk' = disk /\ writer' = writer /\ Granted' = Granted
      BY <1>7 DEF vars, Granted
    <2> QED
      BY <2>1, StuttersOrWithdraws
  <1> QED
    BY <1>1, <1>2, <1>3, <1>4, <1>5, <1>6, <1>7 DEF Next, Apply

(* The editing tools keep the promise of ApprovedChange: every change of a *)
(* file is one that was approved, whole and once, whatever goes wrong.     *)
THEOREM EditsImplementApproved == Spec => ImplementsApproved
  <1>1. Init => Approved!Init
    BY SameChanges DEF Init, Granted, Approved!Init
  <1> QED
    BY <1>1, StepImplements, IInvHolds, PTL
    DEF Spec, ImplementsApproved, Approved!Spec, Approved!approvedVars

-----------------------------------------------------------------------------
(* EditMatch.  First, induction over numbers.                              *)

(* A set of numbers has a least.                                           *)
LEMMA Least ==
    ASSUME NEW S \in SUBSET Nat, S # {}
    PROVE  \E i \in S : \A j \in S : i <= j
<1>1. \E i \in S : \A j \in S : ~ (<<j, i>> \in OpToRel(<, Nat))
  BY NatLessThanWellFounded, WFMin
<1>2. ASSUME NEW i \in Nat, NEW j \in Nat, j < i
      PROVE  <<j, i>> \in OpToRel(<, Nat)
  BY <1>2 DEF OpToRel
<1>3. PICK i \in S : \A j \in S : ~ (<<j, i>> \in OpToRel(<, Nat))
  BY <1>1
<1>4. \A j \in S : ~ (j < i)
  BY <1>2, <1>3
<1>. QED
  BY <1>4

(* Numbers that are closed under the successor are all numbers.            *)
LEMMA AllNumbers ==
    ASSUME NEW S, 0 \in S, \A n \in Nat : n \in S => n + 1 \in S
    PROVE  Nat \subseteq S
<1> SUFFICES ASSUME NEW k \in Nat, k \notin S
             PROVE  FALSE
  OBVIOUS
<1> DEFINE bad == {n \in Nat : n \notin S}
<1>1. PICK m \in bad : \A n \in bad : m <= n
  BY Least
<1>2. m # 0 /\ m \in Nat /\ m \notin S
  BY <1>1
<1>3. m - 1 \in Nat /\ m - 1 \notin bad /\ (m - 1) + 1 = m
  BY <1>1, <1>2
<1>. QED
  BY <1>2, <1>3

-----------------------------------------------------------------------------
(* The places where a text is found.                                       *)
Taken(whole, part, before, i) ==
    IF /\ OccursAt(whole, part, i)
       /\ \A j \in before : j + Len(part) <= i
    THEN before \cup {i} ELSE before

Scan(whole, part, f, n) ==
    f = [i \in 0..n |-> IF i = 0 THEN {} ELSE Taken(whole, part, f[i - 1], i)]

LEMMA ScanExists ==
    ASSUME NEW whole, NEW part, NEW n \in Nat
    PROVE  \E f : Scan(whole, part, f, n)
<1> DEFINE S == {m \in Nat : \E f : Scan(whole, part, f, m)}
<1>1. 0 \in S
  <2> DEFINE f == [i \in 0..0 |-> {}]
  <2>1. Scan(whole, part, f, 0)
    BY DEF Scan
  <2>. QED
    BY <2>1
<1>2. ASSUME NEW m \in Nat, m \in S
      PROVE  m + 1 \in S
  <2>1. PICK f : Scan(whole, part, f, m)
    BY <1>2
  <2> DEFINE g == [i \in 0..(m + 1) |->
                     IF i = m + 1 THEN Taken(whole, part, f[m], m + 1) ELSE f[i]]
  <2>2. \A i \in 0..m : f[i] = IF i = 0 THEN {} ELSE Taken(whole, part, f[i - 1], i)
    BY <2>1 DEF Scan
  <2>3. \A i \in 0..m : g[i] = f[i]
    OBVIOUS
  <2>4. ASSUME NEW i \in 0..(m + 1)
        PROVE  g[i] = IF i = 0 THEN {} ELSE Taken(whole, part, g[i - 1], i)
    <3>1. CASE i = m + 1
      <4>1. m \in 0..m /\ i - 1 = m /\ i # 0
        BY <3>1
      <4>2. g[i] = Taken(whole, part, f[m], i)
        BY <3>1
      <4>. QED
        BY <2>3, <4>1, <4>2
    <3>2. CASE i # m + 1
      <4>1. i \in 0..m /\ (i # 0 => i - 1 \in 0..m)
        BY <3>2
      <4>. QED
        BY <2>2, <2>3, <4>1
    <3>. QED
      BY <3>1, <3>2
  <2>5. g = [i \in 0..(m + 1) |-> g[i]]
    OBVIOUS
  <2> HIDE DEF g
  <2>6. Scan(whole, part, g, m + 1)
    BY <2>4, <2>5 DEF Scan
  <2>. QED
    BY <2>6
<1>. QED
  BY <1>1, <1>2, AllNumbers

(* Every place is one where the text stands, and no other place where it   *)
(* stands is free of them.                                                 *)
Covers(whole, part, S, n) ==
    /\ S \subseteq 1..n
    /\ \A i \in S : OccursAt(whole, part, i)
    /\ \A i \in 1..n : OccursAt(whole, part, i) =>
         i \in S \/ \E q \in S : q < i /\ i < q + Len(part)

LEMMA FoundCovers ==
    ASSUME NEW whole, NEW part, Len(whole) \in Nat, Len(part) \in Nat
    PROVE  Covers(whole, part, Found(whole, part), Len(whole) + 1)
<1> DEFINE n == Len(whole) + 1
           upTo == CHOOSE f : Scan(whole, part, f, n)
           S == {m \in Nat : m \in 0..n => Covers(whole, part, upTo[m], m)}
<1>1. Found(whole, part) = upTo[n]
  BY DEF Found, Scan, Taken
<1>2. n \in Nat
  OBVIOUS
<1> HIDE DEF n
<1>3. Scan(whole, part, upTo, n)
  BY <1>2, ScanExists
<1> HIDE DEF upTo
<1>4. \A m \in 0..n : upTo[m] = IF m = 0 THEN {} ELSE Taken(whole, part, upTo[m - 1], m)
  BY <1>3 DEF Scan
<1>5. 0 \in S
  <2>1. upTo[0] = {}
    BY <1>2, <1>4
  <2>2. Covers(whole, part, {}, 0)
    BY DEF Covers
  <2>. QED
    BY <2>1, <2>2
<1>6. ASSUME NEW m \in Nat, m \in S, m + 1 \in 0..n
      PROVE  Covers(whole, part, upTo[m + 1], m + 1)
  <2> DEFINE T == upTo[m]
             U == upTo[m + 1]
  <2>1. Covers(whole, part, T, m)
    BY <1>2, <1>6
  <2>2. U = Taken(whole, part, T, m + 1)
    BY <1>2, <1>4, <1>6
  <2> HIDE DEF T, U
  <2>3. T \subseteq U /\ U \subseteq T \cup {m + 1} /\ T \subseteq 1..m
    BY <2>1, <2>2 DEF Taken, Covers
  <2>4. \A i \in U : OccursAt(whole, part, i)
    BY <2>1, <2>2 DEF Taken, Covers
  <2>5. ASSUME NEW i \in 1..(m + 1), OccursAt(whole, part, i)
        PROVE  i \in U \/ \E q \in U : q < i /\ i < q + Len(part)
    <3>1. CASE i = m + 1
      <4>1. i \in U \/ \E q \in T : ~(q + Len(part) <= i)
        BY <2>2, <2>5, <3>1 DEF Taken
      <4>2. ASSUME NEW q \in T, ~(q + Len(part) <= i)
            PROVE  q \in U /\ q < i /\ i < q + Len(part)
        BY <2>3, <3>1, <4>2
      <4>. QED
        BY <4>1, <4>2
    <3>2. CASE i # m + 1
      <4>1. i \in 1..m
        BY <3>2
      <4>2. i \in T \/ \E q \in T : q < i /\ i < q + Len(part)
        BY <2>1, <2>5, <4>1 DEF Covers
      <4>. QED
        BY <2>3, <4>2
    <3>. QED
      BY <3>1, <3>2
  <2>6. U \subseteq 1..(m + 1)
    BY <2>3
  <2>7. Covers(whole, part, U, m + 1)
    BY <2>4, <2>5, <2>6 DEF Covers
  <2>. QED
    BY <2>7 DEF U
<1>7. \A m \in Nat : m \in S => m + 1 \in S
  BY <1>6
<1>8. Nat \subseteq S
  BY <1>5, <1>7, AllNumbers
<1>9. n \in 0..n
  BY <1>2
<1>10. Covers(whole, part, upTo[n], n)
  BY <1>2, <1>8, <1>9
<1>. QED
  BY <1>1, <1>10 DEF n

-----------------------------------------------------------------------------
(* Lines, and what is put together from them.                              *)

LEMMA Greatest ==
    ASSUME NEW N \in Nat, NEW S \in SUBSET (0..N), S # {}
    PROVE  \E b \in S : \A n \in S : n <= b
<1> DEFINE D == {N - n : n \in S}
<1>1. D \in SUBSET Nat /\ D # {}
  <2>1. \A n \in S : N - n \in Nat
    OBVIOUS
  <2>2. PICK s \in S : TRUE
    OBVIOUS
  <2>. QED
    BY <2>1, <2>2
<1>2. PICK d \in D : \A e \in D : d <= e
  BY <1>1, Least
<1>3. PICK b \in S : d = N - b
  BY <1>2
<1>4. ASSUME NEW n \in S
      PROVE  n <= b
  <2>1. N - b <= N - n
    BY <1>2, <1>3
  <2>. QED
    BY <2>1
<1>. QED
  BY <1>4

(* The k-th of a set of numbers is one of them.  Of those with k - 1 below *)
(* them or more, the least has exactly k - 1.                              *)
LEMMA KthExists ==
    ASSUME NEW N \in Nat, NEW S \in SUBSET (0..N), NEW k \in 1..Cardinality(S)
    PROVE  \E n \in S : Cardinality({m \in S : m < n}) = k - 1
<1> DEFINE below(n) == {m \in S : m < n}
           rank(n) == Cardinality(below(n))
           T == {n \in S : rank(n) >= k - 1}
<1>1. /\ IsFiniteSet(S) /\ Cardinality(S) \in Nat
      /\ \A n \in S : n \in Nat
  <2>1. IsFiniteSet(0..N)
    BY FS_Interval
  <2>2. \A n \in S : n \in Nat
    OBVIOUS
  <2>. QED
    BY <2>1, <2>2, FS_Subset, FS_CardinalityType
<1>2. ASSUME NEW n
      PROVE  /\ below(n) \in SUBSET (0..N) /\ IsFiniteSet(below(n))
             /\ Cardinality(below(n)) \in Nat
  <2>1. below(n) \subseteq S
    OBVIOUS
  <2>. QED
    BY <1>1, <2>1, FS_Subset, FS_CardinalityType
<1>3. k \in Nat /\ k - 1 \in Nat /\ k <= Cardinality(S) /\ S # {}
  BY <1>1, FS_EmptySet
<1>4. \E n \in S : rank(n) >= k - 1
  <2>1. PICK b \in S : \A n \in S : n <= b
    BY <1>3, Greatest
  <2>2. below(b) = S \ {b}
    <3>1. \A m \in S : m < b <=> m # b
      BY <1>1, <2>1
    <3>. QED
      BY <3>1
  <2>3. Cardinality(S \ {b}) = Cardinality(S) - 1
    BY <1>1, <2>1, FS_RemoveElement
  <2>4. Cardinality(S) - 1 >= k - 1
    BY <1>1, <1>3
  <2>. QED
    BY <2>1, <2>2, <2>3, <2>4
<1>5. PICK n \in T : \A m \in T : n <= m
  BY <1>1, <1>4, Least
<1>6. ASSUME rank(n) # k - 1
      PROVE  FALSE
  <2>1. rank(n) \in Nat /\ rank(n) >= k /\ n \in S
    <3>1. rank(n) \in Nat /\ rank(n) >= k - 1 /\ n \in S
      BY <1>2, <1>5
    <3> HIDE DEF rank
    <3>. QED
      BY <1>3, <1>6, <3>1
  <2>2. below(n) # {}
    <3>1. Cardinality(below(n)) # 0
      BY <1>3, <2>1
    <3>. QED
      BY <3>1, FS_EmptySet
  <2>3. PICK p \in below(n) : \A m \in below(n) : m <= p
    <3> HIDE DEF below
    <3>. QED
      BY <1>2, <2>2, Greatest
  <2>4. below(n) = below(p) \cup {p} /\ p \notin below(p) /\ p \in S /\ p < n
    <3>1. p \in S /\ p < n /\ n \in S
      BY <2>1, <2>3
    <3>2. ASSUME NEW m \in S
          PROVE  m < n <=> m < p \/ m = p
      <4>1. m < n => m <= p
        BY <2>3
      <4>. QED
        BY <1>1, <3>1, <4>1
    <3>3. ~(p < p)
      BY <1>1, <3>1
    <3>. QED
      BY <3>1, <3>2, <3>3
  <2>5. rank(n) = rank(p) + 1
    <3> HIDE DEF below
    <3>. QED
      BY <1>2, <2>4, FS_AddElement
  <2>6. rank(p) >= k - 1 /\ p \in Nat /\ n \in Nat
    <3>1. rank(p) \in Nat
      BY <1>2
    <3>2. p \in Nat /\ n \in Nat
      BY <1>1, <2>1, <2>4
    <3> HIDE DEF rank
    <3>. QED
      BY <1>3, <2>1, <2>5, <3>1, <3>2
  <2>7. p \in T
    BY <2>4, <2>6
  <2>8. n <= p
    BY <1>5, <2>7
  <2>. QED
    BY <2>4, <2>6, <2>8
<1>. QED
  BY <1>5, <1>6

LEMMA InOrderIn ==
    ASSUME NEW N \in Nat, NEW S \in SUBSET (0..N)
    PROVE  /\ Cardinality(S) \in Nat
           /\ Len(InOrder(S)) = Cardinality(S)
           /\ \A k \in 1..Cardinality(S) : InOrder(S)[k] \in S
<1>1. Cardinality(S) \in Nat
  <2>1. IsFiniteSet(0..N)
    BY FS_Interval
  <2>. QED
    BY <2>1, FS_Subset, FS_CardinalityType
<1> DEFINE c(k) == CHOOSE n \in S : Cardinality({m \in S : m < n}) = k - 1
<1>2. InOrder(S) = [k \in 1..Cardinality(S) |-> c(k)]
  BY DEF InOrder
<1>3. ASSUME NEW k \in 1..Cardinality(S)
      PROVE  c(k) \in S
  BY KthExists
<1> HIDE DEF c
<1>. QED
  BY <1>1, <1>2, <1>3

LEMMA LinesTyped ==
    ASSUME NEW X, NEW t \in Seq(X)
    PROVE  Lines(t) \in Seq(Seq(X))
<1> DEFINE n == Len(t)
           S == {i \in DOMAIN t : t[i] = "nl"} \cup {0, n + 1}
           cuts == InOrder(S)
           line(k) == SubSeq(t, cuts[k] + 1, cuts[k + 1] - 1)
<1>1. n \in Nat /\ DOMAIN t = 1..n /\ \A i \in 1..n : t[i] \in X
  BY LenProperties, ElementOfSeq
<1>2. S \in SUBSET (0..(n + 1)) /\ n + 1 \in Nat
  BY <1>1
<1>3. 0 \in S
  OBVIOUS
<1>4. Lines(t) = [k \in 1..(Len(cuts) - 1) |-> line(k)]
  BY DEF Lines
<1> HIDE DEF S
<1>5. /\ Cardinality(S) \in Nat /\ Len(cuts) = Cardinality(S)
      /\ \A k \in 1..Cardinality(S) : cuts[k] \in S
  BY <1>2, InOrderIn
<1>6. Len(cuts) - 1 \in Nat
  <2>1. IsFiniteSet(S)
    <3>1. IsFiniteSet(0..(n + 1))
      BY <1>2, FS_Interval
    <3>. QED
      BY <1>2, <3>1, FS_Subset
  <2>2. Cardinality(S) # 0
    BY <1>3, <2>1, FS_EmptySet
  <2>. QED
    BY <1>5, <2>2
<1> HIDE DEF cuts
<1>7. ASSUME NEW k \in 1..(Len(cuts) - 1)
      PROVE  line(k) \in Seq(X)
  <2>1. k \in 1..Cardinality(S) /\ k + 1 \in 1..Cardinality(S)
    BY <1>5, <1>6
  <2>2. cuts[k] \in 0..(n + 1) /\ cuts[k + 1] \in 0..(n + 1)
    BY <1>2, <1>5, <2>1
  <2>3. \A i \in (cuts[k] + 1)..(cuts[k + 1] - 1) : t[i] \in X
    BY <1>1, <2>2
  <2>. QED
    BY <2>2, <2>3, SubSeqProperties
<1>. QED
  BY <1>4, <1>6, <1>7

(* What FlattenSeq computes, step by step.                                 *)
Flattens(ss, f, n) ==
    f = [i \in 1..n |-> IF i = 1 THEN ss[i] ELSE f[i - 1] \o ss[i]]

LEMMA FlattensExists ==
    ASSUME NEW ss, NEW n \in Nat
    PROVE  \E f : Flattens(ss, f, n)
<1> DEFINE S == {m \in Nat : \E f : Flattens(ss, f, m)}
<1>1. 0 \in S
  <2> DEFINE f == [i \in 1..0 |-> ss[i]]
  <2>1. Flattens(ss, f, 0)
    BY DEF Flattens
  <2>. QED
    BY <2>1
<1>2. ASSUME NEW m \in Nat, m \in S
      PROVE  m + 1 \in S
  <2>1. PICK f : Flattens(ss, f, m)
    BY <1>2
  <2> DEFINE g == [i \in 1..(m + 1) |->
                     IF i \in 1..m THEN f[i]
                     ELSE IF i = 1 THEN ss[i] ELSE f[i - 1] \o ss[i]]
  <2>2. \A i \in 1..m : f[i] = IF i = 1 THEN ss[i] ELSE f[i - 1] \o ss[i]
    BY <2>1 DEF Flattens
  <2>3. \A i \in 1..m : g[i] = f[i]
    OBVIOUS
  <2>4. ASSUME NEW i \in 1..(m + 1)
        PROVE  g[i] = IF i = 1 THEN ss[i] ELSE g[i - 1] \o ss[i]
    <3>1. i # 1 => i - 1 \in 1..m
      OBVIOUS
    <3>2. CASE i \in 1..m
      BY <2>2, <2>3, <3>1, <3>2
    <3>3. CASE i \notin 1..m
      <4>1. g[i] = IF i = 1 THEN ss[i] ELSE f[i - 1] \o ss[i]
        BY <3>3
      <4>. QED
        BY <2>3, <3>1, <4>1
    <3>. QED
      BY <3>2, <3>3
  <2>5. g = [i \in 1..(m + 1) |-> g[i]]
    OBVIOUS
  <2> HIDE DEF g
  <2>6. Flattens(ss, g, m + 1)
    BY <2>4, <2>5 DEF Flattens
  <2>. QED
    BY <2>6
<1>. QED
  BY <1>1, <1>2, AllNumbers

LEMMA FlattenSteps ==
    ASSUME NEW ss, Len(ss) \in Nat, Len(ss) # 0
    PROVE  \E f : /\ FlattenSeq(ss) = f[Len(ss)]
                  /\ \A i \in 1..Len(ss) :
                       f[i] = IF i = 1 THEN ss[i] ELSE f[i - 1] \o ss[i]
<1> DEFINE n == Len(ss)
           f == CHOOSE f : Flattens(ss, f, n)
<1>1. FlattenSeq(ss) = f[n]
  BY DEF FlattenSeq, Flattens
<1>2. Flattens(ss, f, n)
  BY FlattensExists
<1> HIDE DEF f
<1>3. \A i \in 1..n : f[i] = IF i = 1 THEN ss[i] ELSE f[i - 1] \o ss[i]
  BY <1>2 DEF Flattens
<1>. QED
  BY <1>1, <1>3

(* Induction from 1 up to a number.                                        *)
LEMMA UpTo ==
    ASSUME NEW n \in Nat, NEW S, 1 \in S,
           \A m \in 1..(n - 1) : m \in S => m + 1 \in S
    PROVE  1..n \subseteq S
<1> DEFINE T == {m \in Nat : m \in 1..n => m \in S}
<1>1. 0 \in T
  OBVIOUS
<1>2. ASSUME NEW m \in Nat, m \in T
      PROVE  m + 1 \in T
  <2>1. CASE m = 0
    BY <2>1
  <2>2. CASE m # 0 /\ m + 1 \in 1..n
    <3>1. m \in 1..n /\ m \in 1..(n - 1)
      BY <2>2
    <3>. QED
      BY <1>2, <3>1
  <2>3. CASE m + 1 \notin 1..n
    BY <2>3
  <2>. QED
    BY <2>1, <2>2, <2>3
<1>3. Nat \subseteq T
  BY <1>1, <1>2, AllNumbers
<1>. QED
  BY <1>3

LEMMA FlattenTyped ==
    ASSUME NEW X, NEW ss \in Seq(Seq(X))
    PROVE  FlattenSeq(ss) \in Seq(X)
<1>1. Len(ss) \in Nat /\ DOMAIN ss = 1..Len(ss) /\ \A i \in 1..Len(ss) : ss[i] \in Seq(X)
  BY LenProperties, ElementOfSeq
<1>2. CASE Len(ss) = 0
  <2>1. ss = << >> /\ FlattenSeq(ss) = ss
    BY <1>2, EmptySeq DEF FlattenSeq
  <2>. QED
    BY <2>1, EmptySeq
<1>3. CASE Len(ss) # 0
  <2>1. PICK f : /\ FlattenSeq(ss) = f[Len(ss)]
                 /\ \A i \in 1..Len(ss) :
                      f[i] = IF i = 1 THEN ss[i] ELSE f[i - 1] \o ss[i]
    BY <1>1, <1>3, FlattenSteps
  <2> DEFINE n == Len(ss)
             S == {m \in 1..n : f[m] \in Seq(X)}
  <2>2. 1 \in S
    BY <1>1, <1>3, <2>1
  <2>3. ASSUME NEW m \in 1..(n - 1), m \in S
        PROVE  m + 1 \in S
    <3>1. m + 1 \in 1..n /\ m + 1 # 1 /\ (m + 1) - 1 = m
      BY <1>1, <2>3
    <3>2. f[m + 1] = f[m] \o ss[m + 1]
      BY <2>1, <3>1
    <3>3. f[m + 1] \in Seq(X)
      BY <1>1, <2>3, <3>1, <3>2, ConcatProperties
    <3>. QED
      BY <3>1, <3>3
  <2>4. 1..n \subseteq S
    <3> HIDE DEF S
    <3>. QED
      BY <1>1, <2>2, <2>3, UpTo
  <2>5. n \in 1..n
    BY <1>1, <1>3
  <2>. QED
    BY <2>1, <2>4, <2>5
<1>. QED
  BY <1>2, <1>3

(* The first character that is not a space.                                *)
LEMMA IndentTyped ==
    ASSUME NEW X, NEW line \in Seq(X)
    PROVE  Indent(line) \in Nat
<1>1. Len(line) \in Nat /\ DOMAIN line = 1..Len(line)
  BY LenProperties
<1>2. CASE Ink(line) = {}
  BY <1>1, <1>2 DEF Indent
<1>3. CASE Ink(line) # {}
  <2>1. Ink(line) \in SUBSET (1..Len(line))
    BY <1>1 DEF Ink
  <2>2. \E i \in Ink(line) : \A j \in Ink(line) : i <= j
    <3>1. Ink(line) \in SUBSET Nat
      BY <2>1
    <3>. QED
      BY <1>3, <3>1, Least
  <2>3. Min(Ink(line)) \in Ink(line)
    BY <2>2 DEF Min
  <2>4. Min(Ink(line)) \in 1..Len(line)
    BY <2>1, <2>3
  <2>5. Indent(line) = Min(Ink(line)) - 1
    BY <1>3 DEF Indent
  <2>. QED
    BY <1>1, <2>4, <2>5
<1>. QED
  BY <1>2, <1>3

LEMMA UnnumberedTyped ==
    ASSUME NEW X, NEW line \in Seq(X)
    PROVE  Unnumbered(line) \in Seq(X)
<1>1. Len(line) \in Nat /\ DOMAIN line = 1..Len(line) /\ \A i \in 1..Len(line) : line[i] \in X
  BY LenProperties, ElementOfSeq
<1> DEFINE n == Indent(line) + 1
           m == IF n < Len(line) /\ line[n + 1] = "sp" THEN n + 1 ELSE n
<1>2. n \in Nat /\ n >= 1
  BY IndentTyped
<1> HIDE DEF n
<1>3. m + 1 \in Nat /\ m + 1 >= 1
  BY <1>2
<1>4. Unnumbered(line) = SubSeq(line, m + 1, Len(line))
  BY DEF Unnumbered, n
<1> HIDE DEF m
<1>5. \A i \in (m + 1)..Len(line) : line[i] \in X
  BY <1>1, <1>3
<1>. QED
  BY <1>1, <1>3, <1>4, <1>5, SubSeqProperties

(* A text without its line numbers is a text.                              *)
LEMMA StripNumbersTyped ==
    ASSUME NEW t \in Seq(Symbol)
    PROVE  StripNumbers(t) \in Seq(Symbol)
<1> DEFINE lines == Lines(t)
           bare == [k \in DOMAIN lines |->
                      IF k \in Meaningful(lines) THEN Unnumbered(lines[k]) ELSE lines[k]]
           pieces == [k \in DOMAIN bare |->
                        IF k = 1 THEN bare[k] ELSE <<"nl">> \o bare[k]]
<1>1. StripNumbers(t) \in {t, FlattenSeq(pieces)}
  BY DEF StripNumbers, Joined
<1>2. lines \in Seq(Seq(Symbol))
  BY LinesTyped
<1> HIDE DEF lines
<1>3. /\ Len(lines) \in Nat /\ DOMAIN lines = 1..Len(lines)
      /\ \A k \in 1..Len(lines) : lines[k] \in Seq(Symbol)
  BY <1>2, LenProperties, ElementOfSeq
<1>4. DOMAIN bare = 1..Len(lines) /\ \A k \in 1..Len(lines) : bare[k] \in Seq(Symbol)
  BY <1>3, UnnumberedTyped
<1> HIDE DEF bare
<1>5. <<"nl">> \in Seq(Symbol)
  BY DEF Symbol
<1>6. \A k \in 1..Len(lines) : pieces[k] \in Seq(Symbol)
  <2> TAKE k \in 1..Len(lines)
  <2>1. bare[k] \in Seq(Symbol) /\ k \in DOMAIN bare
    BY <1>4
  <2>2. <<"nl">> \o bare[k] \in Seq(Symbol)
    BY <1>5, <2>1, ConcatProperties
  <2>. QED
    BY <2>1, <2>2
<1>7. pieces = [k \in 1..Len(lines) |-> pieces[k]]
  BY <1>4
<1> HIDE DEF pieces
<1>8. pieces \in Seq(Seq(Symbol))
  BY <1>3, <1>6, <1>7
<1>. QED
  BY <1>1, <1>8, FlattenTyped

-----------------------------------------------------------------------------
(* Replacing at one place.                                                 *)

LEMMA OneMore ==
    ASSUME NEW X, NEW w \in Seq(X), NEW a \in 1..(Len(w) + 1), NEW m \in (a - 1)..(Len(w) - 1)
    PROVE  SubSeq(w, a, m) \o <<w[m + 1]>> = SubSeq(w, a, m + 1)
<1>1. Len(w) \in Nat /\ \A i \in 1..Len(w) : w[i] \in X
  BY LenProperties, ElementOfSeq
<1>2. m + 1 \in 1..Len(w) /\ m + 1 \in Int /\ m \in (a - 1)..Len(w) /\ m + 1 \in m..Len(w)
  BY <1>1
<1>3. SubSeq(w, m + 1, m + 1) = <<w[m + 1]>>
  <2> DEFINE s == SubSeq(w, m + 1, m + 1)
             t == <<w[m + 1]>>
  <2>1. \A i \in (m + 1)..(m + 1) : w[i] \in X
    BY <1>1, <1>2
  <2>2. /\ s \in Seq(X)
        /\ Len(s) = IF m + 1 <= m + 1 THEN (m + 1) - (m + 1) + 1 ELSE 0
        /\ \A i \in 1..((m + 1) - (m + 1) + 1) : s[i] = w[(m + 1) + i - 1]
    BY <1>2, <2>1, SubSeqProperties
  <2>3. t \in Seq(X) /\ Len(t) = 1 /\ t[1] = w[m + 1]
    BY <1>1, <1>2
  <2> HIDE DEF s, t
  <2>4. Len(s) = 1 /\ s[1] = w[m + 1]
    BY <1>2, <2>2
  <2>5. s = t
    BY <2>2, <2>3, <2>4, SeqEqual
  <2>. QED
    BY <2>5 DEF s, t
<1>5. SubSeq(w, a, m) \o SubSeq(w, m + 1, m + 1) = SubSeq(w, a, m + 1)
  BY <1>2, ConcatAdjacentSubSeq
<1>. QED
  BY <1>3, <1>5

LEMMA OneMoreAfter ==
    ASSUME NEW X, NEW w \in Seq(X), NEW s \in Seq(X),
           NEW a \in 1..(Len(w) + 1), NEW m \in (a - 1)..(Len(w) - 1)
    PROVE  (s \o SubSeq(w, a, m)) \o <<w[m + 1]>> = s \o SubSeq(w, a, m + 1)
<1> DEFINE t == SubSeq(w, a, m)
           u == <<w[m + 1]>>
<1>1. \A i \in 1..Len(w) : w[i] \in X
  BY ElementOfSeq
<1>2. u \in Seq(X)
  BY <1>1
<1>3. t \in Seq(X)
  <2>1. \A i \in a..m : w[i] \in X
    BY <1>1
  <2>. QED
    BY <2>1, SubSeqProperties
<1>4. t \o u = SubSeq(w, a, m + 1)
  BY OneMore
<1> HIDE DEF t, u
<1>5. (s \o t) \o u = s \o (t \o u)
  BY <1>2, <1>3, ConcatAssociative
<1>. QED
  BY <1>4, <1>5 DEF t, u

LEMMA ReplacedAt ==
    ASSUME NEW X, NEW w \in Seq(X), NEW part \in Seq(X), NEW by \in Seq(X),
           NEW p \in 1..Len(w), Len(part) # 0, p + Len(part) <= Len(w) + 1
    PROVE  Replaced(w, part, by, {p})
             = SubSeq(w, 1, p - 1) \o by \o SubSeq(w, p + Len(part), Len(w))
<1> DEFINE n == Len(w)
           q == p + Len(part)
           put(i) == IF i \in {p} THEN by ELSE <<>>
           kept(i) == IF i > Len(w) \/ \E r \in {p} : r <= i /\ i < r + Len(part)
                      THEN <<>> ELSE <<w[i]>>
           ss == [i \in 1..(Len(w) + 1) |-> put(i) \o kept(i)]
           front(m) == SubSeq(w, 1, m)
           pb == front(p - 1) \o by
           back(m) == SubSeq(w, q, m)
           W(m) == IF m < p THEN front(m) ELSE pb \o back(IF m > n THEN n ELSE m)
<1>1. /\ n \in Nat /\ \A i \in 1..n : w[i] \in X
      /\ Len(part) \in Nat /\ p \in Nat /\ q \in Nat
      /\ p < q /\ q <= n + 1 /\ p <= n /\ p >= 1
  BY LenProperties, ElementOfSeq
<1>2. Replaced(w, part, by, {p}) = FlattenSeq(ss)
  BY DEF Replaced
<1>3. Len(ss) = n + 1 /\ \A i \in 1..(n + 1) : ss[i] = put(i) \o kept(i)
  <2>1. DOMAIN ss = 1..(n + 1) /\ n + 1 \in Nat
    BY <1>1
  <2> HIDE DEF put, kept
  <2>. QED
    BY <2>1
<1>4. /\ put(p) = by /\ \A i \in 1..(n + 1) : i # p => put(i) = <<>>
      /\ \A i \in 1..n : i < p \/ i >= q => kept(i) = <<w[i]>>
      /\ \A i \in 1..(n + 1) : p <= i /\ (i < q \/ i = n + 1) => kept(i) = <<>>
  <2>1. put(p) = by /\ \A i \in 1..(n + 1) : i # p => put(i) = <<>>
    OBVIOUS
  <2>2. ASSUME NEW i \in 1..n, i < p \/ i >= q
        PROVE  kept(i) = <<w[i]>>
    <3>1. ~(i > n) /\ ~(p <= i /\ i < q)
      BY <1>1, <2>2
    <3>. QED
      BY <3>1
  <2>3. ASSUME NEW i \in 1..(n + 1), p <= i, i < q \/ i = n + 1
        PROVE  kept(i) = <<>>
    <3>1. i > n \/ (p <= i /\ i < q)
      BY <1>1, <2>3
    <3>. QED
      BY <3>1
  <2> HIDE DEF put, kept
  <2>. QED
    BY <2>1, <2>2, <2>3
<1>5. <<>> \in Seq(X) /\ \A i \in 1..n : <<w[i]>> \in Seq(X)
  BY <1>1
<1>6. pb \in Seq(X) /\ \A m \in 1..n : front(m) \in Seq(X) /\ back(m) \in Seq(X)
  <2>1. \A m \in 0..n : front(m) \in Seq(X) /\ back(m) \in Seq(X)
    <3> TAKE m \in 0..n
    <3>1. \A i \in 1..m : w[i] \in X
      BY <1>1
    <3>2. \A i \in q..m : w[i] \in X
      BY <1>1
    <3>. QED
      BY <1>1, <3>1, <3>2, SubSeqProperties
  <2>2. p - 1 \in 0..n
    BY <1>1
  <2> HIDE DEF front, back
  <2>. QED
    BY <2>1, <2>2, ConcatProperties
<1>7. /\ front(0) = <<>>
      /\ \A m \in 0..(n - 1) : front(m) \o <<w[m + 1]>> = front(m + 1)
      /\ \A m \in 0..n : m < q => back(m) = <<>>
      /\ \A m \in (q - 1)..(n - 1) : (pb \o back(m)) \o <<w[m + 1]>> = pb \o back(m + 1)
  <2>1. front(0) = <<>>
    BY SubSeqEmpty
  <2>2. \A m \in 0..(n - 1) : front(m) \o <<w[m + 1]>> = front(m + 1)
    <3> TAKE m \in 0..(n - 1)
    <3>1. 1 \in 1..(n + 1) /\ m \in (1 - 1)..(n - 1)
      BY <1>1
    <3>. QED
      BY <3>1, OneMore
  <2>3. \A m \in 0..n : m < q => back(m) = <<>>
    BY <1>1, SubSeqEmpty
  <2>4. \A m \in (q - 1)..(n - 1) : (pb \o back(m)) \o <<w[m + 1]>> = pb \o back(m + 1)
    <3> TAKE m \in (q - 1)..(n - 1)
    <3>1. q \in 1..(n + 1) /\ pb \in Seq(X)
      BY <1>1, <1>6
    <3> HIDE DEF pb
    <3>. QED
      BY <3>1, OneMoreAfter
  <2> HIDE DEF front, back, pb
  <2>. QED
    BY <2>1, <2>2, <2>3, <2>4
<1> HIDE DEF ss, put, kept
<1>8. PICK f : /\ FlattenSeq(ss) = f[n + 1]
               /\ \A i \in 1..(n + 1) : f[i] = IF i = 1 THEN ss[i] ELSE f[i - 1] \o ss[i]
  <2>1. Len(ss) \in Nat /\ Len(ss) # 0
    BY <1>1, <1>3
  <2>2. PICK f : /\ FlattenSeq(ss) = f[Len(ss)]
                 /\ \A i \in 1..Len(ss) :
                      f[i] = IF i = 1 THEN ss[i] ELSE f[i - 1] \o ss[i]
    BY <2>1, FlattenSteps
  <2>3. Len(ss) = n + 1
    BY <1>3
  <2> HIDE DEF n
  <2>. QED
    BY <2>2, <2>3
<1> HIDE DEF front, back
<1>9. pb = front(p - 1) \o by
  OBVIOUS
<1> HIDE DEF pb, n, q
<1>10. /\ \A m \in 1..n : m < p => W(m) = front(m)
       /\ \A m \in 1..n : p <= m => W(m) = pb \o back(m)
       /\ W(n + 1) = pb \o back(n)
  <2>1. ASSUME NEW m \in 1..n
        PROVE  /\ m < p => W(m) = front(m)
               /\ p <= m => W(m) = pb \o back(m)
    <3>1. ~(m > n) /\ (p <= m => ~(m < p))
      BY <1>1
    <3>. QED
      BY <3>1
  <2>2. W(n + 1) = pb \o back(n)
    <3>1. n + 1 > n /\ ~(n + 1 < p)
      BY <1>1
    <3>. QED
      BY <3>1
  <2> HIDE DEF W
  <2>. QED
    BY <2>1, <2>2
<1> HIDE DEF W
<1>11. \A s \in Seq(X) : <<>> \o s = s /\ s \o <<>> = s
  BY ConcatEmptySeq
<1> DEFINE S == {m \in 1..(n + 1) : f[m] = W(m)}
<1>12. 1 \in S
  <2>1. 1 \in 1..n /\ 1 \in 1..(n + 1)
    BY <1>1
  <2>2. f[1] = put(1) \o kept(1)
    BY <1>3, <1>8, <2>1
  <2>3. CASE p = 1
    <3>1. put(1) = by /\ kept(1) = <<>>
      BY <1>1, <1>4, <2>1, <2>3
    <3>2. W(1) = pb \o back(1) /\ back(1) = <<>>
      BY <1>1, <1>7, <1>10, <2>1, <2>3
    <3>3. pb = by
      BY <1>7, <1>9, <1>11, <2>3
    <3>. QED
      BY <1>11, <2>1, <2>2, <3>1, <3>2, <3>3
  <2>4. CASE p # 1
    <3>1. put(1) = <<>> /\ kept(1) = <<w[1]>>
      BY <1>1, <1>4, <2>1, <2>4
    <3>2. W(1) = front(1)
      BY <1>1, <1>10, <2>1, <2>4
    <3>3. front(1) = front(0) \o <<w[1]>>
      <4>1. 0 \in 0..(n - 1) /\ 0 + 1 = 1
        BY <1>1
      <4>. QED
        BY <1>7, <4>1
    <3>. QED
      BY <1>7, <2>1, <2>2, <3>1, <3>2, <3>3
  <2>. QED
    BY <2>3, <2>4
<1>13. ASSUME NEW m \in 1..n, m \in S
       PROVE  m + 1 \in S
  <2>1. /\ m + 1 \in 1..(n + 1) /\ m + 1 # 1 /\ (m + 1) - 1 = m
        /\ m \in 1..(n + 1) /\ m \in 0..n
    BY <1>1
  <2>2. f[m + 1] = W(m) \o (put(m + 1) \o kept(m + 1))
    <3>1. f[m] = W(m)
      BY <1>13
    <3>. QED
      BY <1>3, <1>8, <2>1, <3>1
  <2>3. CASE m + 1 < p
    <3>1. W(m) = front(m) /\ W(m + 1) = front(m + 1)
      BY <1>1, <1>10, <2>1, <2>3
    <3>2. put(m + 1) = <<>> /\ kept(m + 1) = <<w[m + 1]>> /\ m + 1 \in 1..n
      BY <1>1, <1>4, <2>1, <2>3
    <3>3. front(m) \o <<w[m + 1]>> = front(m + 1)
      BY <1>1, <1>7, <2>1, <2>3
    <3>4. <<>> \o <<w[m + 1]>> = <<w[m + 1]>>
      BY <1>5, <1>11, <3>2
    <3>. QED
      BY <2>1, <2>2, <3>1, <3>2, <3>3, <3>4
  <2>4. CASE m + 1 = p
    <3>1. W(m) = front(m) /\ m = p - 1
      BY <1>1, <1>10, <2>1, <2>4
    <3>2. W(m + 1) = pb \o back(m + 1) /\ back(m + 1) = <<>>
      BY <1>1, <1>7, <1>10, <2>1, <2>4
    <3>3. put(m + 1) = by /\ kept(m + 1) = <<>>
      BY <1>1, <1>4, <2>1, <2>4
    <3>4. pb \o <<>> = pb /\ by \o <<>> = by
      BY <1>6, <1>11
    <3>. QED
      BY <1>9, <2>1, <2>2, <3>1, <3>2, <3>3, <3>4
  <2>5. CASE m + 1 > p /\ m + 1 < q
    <3>1. /\ W(m) = pb \o back(m) /\ back(m) = <<>>
          /\ W(m + 1) = pb \o back(m + 1) /\ back(m + 1) = <<>>
      <4>1. m + 1 \in 1..n /\ m + 1 \in 0..n /\ p <= m /\ p <= m + 1 /\ m < q
        BY <1>1, <2>1, <2>5
      <4>. QED
        BY <1>7, <1>10, <2>1, <2>5, <4>1
    <3>2. put(m + 1) = <<>> /\ kept(m + 1) = <<>>
      BY <1>1, <1>4, <2>1, <2>5
    <3>3. pb \o <<>> = pb /\ <<>> \o <<>> = <<>>
      BY <1>5, <1>6, <1>11
    <3>. QED
      BY <2>1, <2>2, <3>1, <3>2, <3>3
  <2>6. CASE m + 1 >= q /\ m + 1 <= n
    <3>1. W(m) = pb \o back(m) /\ W(m + 1) = pb \o back(m + 1) /\ m + 1 \in 1..n
      <4>1. m + 1 \in 1..n /\ p <= m /\ p <= m + 1
        BY <1>1, <2>1, <2>6
      <4>. QED
        BY <1>10, <4>1
    <3>2. put(m + 1) = <<>> /\ kept(m + 1) = <<w[m + 1]>>
      BY <1>1, <1>4, <2>1, <2>6
    <3>3. (pb \o back(m)) \o <<w[m + 1]>> = pb \o back(m + 1)
      <4>1. m \in (q - 1)..(n - 1)
        BY <1>1, <2>1, <2>6
      <4>. QED
        BY <1>7, <4>1
    <3>4. <<>> \o <<w[m + 1]>> = <<w[m + 1]>>
      BY <1>5, <1>11, <3>1
    <3>. QED
      BY <2>1, <2>2, <3>1, <3>2, <3>3, <3>4
  <2>7. CASE m = n
    <3>1. W(m) = pb \o back(m) /\ W(m + 1) = pb \o back(m)
      BY <1>1, <1>10, <2>1, <2>7
    <3>2. put(m + 1) = <<>> /\ kept(m + 1) = <<>>
      BY <1>1, <1>4, <2>1, <2>7
    <3>3. (pb \o back(m)) \o <<>> = pb \o back(m) /\ <<>> \o <<>> = <<>>
      BY <1>5, <1>6, <1>11, ConcatProperties
    <3>. QED
      BY <2>1, <2>2, <3>1, <3>2, <3>3
  <2>. QED
    BY <1>1, <2>1, <2>3, <2>4, <2>5, <2>6, <2>7
<1>14. 1..(n + 1) \subseteq S
  <2>1. (n + 1) - 1 = n /\ n + 1 \in Nat
    BY <1>1
  <2> HIDE DEF S
  <2>. QED
    BY <1>12, <1>13, <2>1, UpTo
<1>15. f[n + 1] = W(n + 1)
  <2>1. n + 1 \in 1..(n + 1)
    BY <1>1
  <2>. QED
    BY <1>14, <2>1
<1>16. FlattenSeq(ss) = pb \o back(n)
  BY <1>8, <1>10, <1>15
<1>. QED
  BY <1>2, <1>9, <1>16 DEF n, q, front, back

-----------------------------------------------------------------------------
(* One place.                                                              *)

LEMMA FoundOne ==
    ASSUME NEW whole, NEW part, Len(whole) \in Nat, Len(part) \in Nat,
           Found(whole, part) # {}, ~(Cardinality(Found(whole, part)) > 1)
    PROVE  \E p \in 1..(Len(whole) + 1) : Found(whole, part) = {p}
<1> DEFINE F == Found(whole, part)
           n == Len(whole) + 1
<1>1. F \subseteq 1..n /\ n \in Nat
  BY FoundCovers DEF Covers
<1> HIDE DEF F, n
<1>2. IsFiniteSet(F)
  <2>1. IsFiniteSet(1..n)
    BY <1>1, FS_Interval
  <2>. QED
    BY <1>1, <2>1, FS_Subset
<1>3. Cardinality(F) \in Nat /\ Cardinality(F) # 0 /\ ~(Cardinality(F) > 1)
  BY <1>2, FS_CardinalityType, FS_EmptySet DEF F
<1>4. Cardinality(F) = 1
  BY <1>3
<1>5. PICK p : F = {p}
  BY <1>2, <1>4, FS_Singleton
<1>6. p \in 1..n
  BY <1>1, <1>5
<1>. QED
  BY <1>5, <1>6 DEF F, n

(* Where a search finds one place, every place the text stands at overlaps *)
(* it.                                                                     *)
LEMMA OnePlace ==
    ASSUME NEW whole, NEW part, Len(whole) \in Nat, Len(part) \in Nat,
           NEW p \in 1..(Len(whole) + 1), Found(whole, part) = {p},
           NEW i \in 1..(Len(whole) + 1), OccursAt(whole, part, i)
    PROVE  i = p \/ (p < i /\ i < p + Len(part))
<1>1. i \in Found(whole, part)
        \/ \E q \in Found(whole, part) : q < i /\ i < q + Len(part)
  BY FoundCovers DEF Covers
<1>. QED
  BY <1>1

(* A text that stands at one place is found there.                         *)
LEMMA FoundThere ==
    ASSUME NEW whole, NEW part, Len(whole) \in Nat, Len(part) \in Nat, Len(part) # 0,
           NEW i \in 1..Len(whole), \A j \in 1..Len(whole) : OccursAt(whole, part, j) <=> j = i
    PROVE  Found(whole, part) = {i} /\ OccursAt(whole, part, i)
<1> DEFINE F == Found(whole, part)
           n == Len(whole)
<1>1. /\ F \subseteq 1..(n + 1)
      /\ \A j \in F : OccursAt(whole, part, j)
      /\ i \in F \/ \E q \in F : q < i /\ i < q + Len(part)
  <2>1. OccursAt(whole, part, i) /\ i \in 1..(n + 1)
    OBVIOUS
  <2>. QED
    BY <2>1, FoundCovers DEF Covers
<1> HIDE DEF F
<1>2. ASSUME NEW j \in F
      PROVE  j = i
  <2>1. j + Len(part) <= n + 1 /\ j \in 1..(n + 1)
    BY <1>1, <1>2 DEF OccursAt
  <2>2. j \in 1..n
    BY <2>1
  <2>. QED
    BY <1>1, <1>2, <2>2
<1>3. F = {i}
  BY <1>1, <1>2
<1>. QED
  BY <1>3 DEF F

-----------------------------------------------------------------------------
(* The call.                                                               *)

(* What one call of edit_file makes of its arguments.                      *)
Decided ==
    IF args.old = <<>> \/ args.old = args.new
    THEN Refused(IF args.old = <<>> THEN "empty" ELSE "identical")
    ELSE LET found == ResolveReplacement(normalized, args.old, args.new, args.all)
         IN  IF found.kind = "matched" /\ found.text = normalized
             THEN Refused("unchanged") ELSE found

MatchInv ==
    /\ normalized \in Seq(Symbol)
    /\ args \in [old : Seq(Symbol), new : Seq(Symbol), all : BOOLEAN]
    /\ resolved \in {Waiting, Decided}

(* Until it is decided a call has no outcome, and then the outcome that    *)
(* _edit_file and _resolve_replacement work out from its arguments and the *)
(* file, which are texts.                                                  *)
THEOREM MatchInvHolds == MatchSpec => []MatchInv
<1>1. MatchInit => MatchInv
  BY MatchAssumption DEF MatchInit, MatchInv
<1>2. MatchInv /\ [MatchNext]_matchVars => MatchInv'
  <2> SUFFICES ASSUME MatchInv, [MatchNext]_matchVars
               PROVE  MatchInv'
    OBVIOUS
  <2>1. CASE RejectEdit
    <3>1. Decided' = Decided
      BY <2>1 DEF RejectEdit, Decided
    <3>2. resolved' = Decided
      BY <2>1 DEF RejectEdit, Decided
    <3>. QED
      BY <2>1, <3>1, <3>2 DEF RejectEdit, MatchInv
  <2>2. CASE EditFile
    <3>1. Decided' = Decided
      BY <2>2 DEF EditFile, Decided
    <3>2. resolved' = Decided
      BY <2>2 DEF EditFile, Decided
    <3>. QED
      BY <2>2, <3>1, <3>2 DEF EditFile, MatchInv
  <2>3. CASE UNCHANGED matchVars
    <3>1. Decided' = Decided
      BY <2>3 DEF matchVars, Decided
    <3>. QED
      BY <2>3, <3>1 DEF matchVars, MatchInv, Waiting, Refused
  <2>. QED
    BY <2>1, <2>2, <2>3 DEF MatchNext
<1>. QED
  BY <1>1, <1>2, PTL DEF MatchSpec

(* The strategy that was used, and what it requires.                       *)
LEMMA Strategies ==
    ASSUME MatchInv, Accepted
    PROVE  /\ \/ /\ resolved.strategy \in {"literal", "unnumbered"}
                 /\ Anchor \in Seq(Symbol)
                 /\ Found(normalized, Anchor) # {}
                 /\ args.all \/ ~(Cardinality(Found(normalized, Anchor)) > 1)
              \/ /\ resolved.strategy = "lines"
                 /\ Starts # {}
                 /\ args.all \/ ~(Cardinality(Starts) > 1)
<1> DEFINE bareOld == StripNumbers(args.old)
           bareNew == StripNumbers(args.new)
           found == ResolveReplacement(normalized, args.old, args.new, args.all)
<1>1. args.old \in Seq(Symbol) /\ bareOld \in Seq(Symbol)
  BY StripNumbersTyped DEF MatchInv
<1>2. resolved = found /\ found.kind = "matched"
  BY DEF MatchInv, Accepted, Decided, Waiting, Refused
<1>3. ASSUME NEW how, NEW part, NEW by, found = ApplyLiteral(how, normalized, part, by, args.all)
      PROVE  /\ found.strategy = how
             /\ args.all \/ ~(Cardinality(Found(normalized, part)) > 1)
  BY <1>2, <1>3 DEF ApplyLiteral, Refused, Matched
<1>4. ASSUME found = ApplyWhitespaceInsensitive(normalized, bareOld, bareNew, args.all)
      PROVE  /\ found.strategy = "lines" /\ Starts # {}
             /\ args.all \/ ~(Cardinality(Starts) > 1)
  BY <1>2, <1>4 DEF ApplyWhitespaceInsensitive, Refused, Matched, Starts, FileLines, OldBlock
<1>5. \/ /\ Found(normalized, args.old) # {}
         /\ found = ApplyLiteral("literal", normalized, args.old, args.new, args.all)
      \/ /\ Found(normalized, bareOld) # {}
         /\ found = ApplyLiteral("unnumbered", normalized, bareOld, bareNew, args.all)
      \/ found = ApplyWhitespaceInsensitive(normalized, bareOld, bareNew, args.all)
  BY <1>2 DEF ResolveReplacement, Refused
<1> HIDE DEF found
<1>6. CASE /\ Found(normalized, args.old) # {}
           /\ found = ApplyLiteral("literal", normalized, args.old, args.new, args.all)
  <2>1. resolved.strategy = "literal" /\ Anchor = args.old
    BY <1>2, <1>3, <1>6 DEF Anchor
  <2>. QED
    BY <1>1, <1>3, <1>6, <2>1
<1>7. CASE /\ Found(normalized, bareOld) # {}
           /\ found = ApplyLiteral("unnumbered", normalized, bareOld, bareNew, args.all)
  <2>1. resolved.strategy = "unnumbered" /\ Anchor = bareOld
    BY <1>2, <1>3, <1>7 DEF Anchor
  <2>. QED
    BY <1>1, <1>3, <1>7, <2>1
<1>8. CASE found = ApplyWhitespaceInsensitive(normalized, bareOld, bareNew, args.all)
  BY <1>2, <1>4, <1>8
<1>. QED
  BY <1>5, <1>6, <1>7, <1>8

(* Without replace_all nothing else could have been meant by an edit that  *)
(* is accepted.                                                            *)
THEOREM OneTarget == MatchSpec => []OneTargetUnlessAll
<1>1. ASSUME MatchInv
      PROVE  OneTargetUnlessAll
  <2> SUFFICES ASSUME Accepted, ~args.all
               PROVE  IF resolved.strategy = "lines"
                      THEN Cardinality(Starts) = 1
                      ELSE \A i, j \in 1 .. Len(normalized) + 1 :
                              /\ OccursAt(normalized, Anchor, i)
                              /\ OccursAt(normalized, Anchor, j)
                              => i = j \/ (i < j + Len(Anchor) /\ j < i + Len(Anchor))
    BY DEF OneTargetUnlessAll
  <2>1. CASE resolved.strategy = "lines"
    <3>1. Starts # {} /\ ~(Cardinality(Starts) > 1)
      BY <1>1, <2>1, Strategies
    <3>2. FileLines \in Seq(Seq(Symbol))
      BY <1>1, LinesTyped DEF MatchInv, FileLines
    <3>3. Starts \subseteq 1..Len(FileLines) /\ Len(FileLines) \in Nat
      BY <3>2, LenProperties DEF Starts, Windows
    <3>4. IsFiniteSet(Starts)
      <4>1. IsFiniteSet(1..Len(FileLines))
        BY <3>3, FS_Interval
      <4>. QED
        BY <3>3, <4>1, FS_Subset
    <3>5. Cardinality(Starts) \in Nat /\ Cardinality(Starts) # 0
      BY <3>1, <3>4, FS_CardinalityType, FS_EmptySet
    <3>6. Cardinality(Starts) = 1
      BY <3>1, <3>5
    <3>. QED
      BY <2>1, <3>6
  <2>2. CASE resolved.strategy # "lines"
    <3>1. /\ Anchor \in Seq(Symbol) /\ Found(normalized, Anchor) # {}
          /\ ~(Cardinality(Found(normalized, Anchor)) > 1)
      BY <1>1, <2>2, Strategies
    <3>2. Len(normalized) \in Nat /\ Len(Anchor) \in Nat
      BY <1>1, <3>1, LenProperties DEF MatchInv
    <3>3. PICK p \in 1..(Len(normalized) + 1) : Found(normalized, Anchor) = {p}
      BY <3>1, <3>2, FoundOne
    <3>4. ASSUME NEW i \in 1..(Len(normalized) + 1), NEW j \in 1..(Len(normalized) + 1),
                 OccursAt(normalized, Anchor, i), OccursAt(normalized, Anchor, j)
          PROVE  i = j \/ (i < j + Len(Anchor) /\ j < i + Len(Anchor))
      <4>1. i = p \/ (p < i /\ i < p + Len(Anchor))
        BY <3>2, <3>3, <3>4, OnePlace
      <4>2. j = p \/ (p < j /\ j < p + Len(Anchor))
        BY <3>2, <3>3, <3>4, OnePlace
      <4>. QED
        BY <3>2, <4>1, <4>2
    <3>. QED
      BY <2>2, <3>4
  <2>. QED
    BY <2>1, <2>2
<1>. QED
  BY <1>1, MatchInvHolds, PTL

LEMMA OccursIs ==
    ASSUME NEW whole, NEW part, NEW i, OccursAt(whole, part, i)
    PROVE  /\ i + Len(part) <= Len(whole) + 1
           /\ SubSeq(whole, i, i + Len(part) - 1) = part
  BY DEF OccursAt

(* What stands at the one place is what was searched for: what replaces it *)
(* changes the text.                                                       *)
LEMMA ReplacingChanges ==
    ASSUME NEW X, NEW w \in Seq(X), NEW part \in Seq(X), NEW by \in Seq(X),
           NEW i \in 1..Len(w), Len(part) # 0
    PROVE  /\ OccursAt(w, part, i)
           /\ SubSeq(w, 1, i - 1) \o by \o SubSeq(w, i + Len(part), Len(w)) = w
           => by = part
<1> DEFINE n == Len(w)
           q == i + Len(part)
           pre == SubSeq(w, 1, i - 1)
           post == SubSeq(w, q, n)
<1>0. SUFFICES ASSUME OccursAt(w, part, i), (pre \o by) \o post = w
               PROVE  by = part
  BY Zenon
<1>1. i + Len(part) <= Len(w) + 1 /\ SubSeq(w, i, i + Len(part) - 1) = part
  BY <1>0, OccursIs
<1> HIDE DEF pre, post
<1>2. /\ n \in Nat /\ \A k \in 1..n : w[k] \in X
      /\ Len(part) \in Nat /\ i <= q - 1 /\ q - 1 <= n /\ q \in Nat
  <2>1. n \in Nat /\ Len(part) \in Nat /\ \A k \in 1..n : w[k] \in X
    BY LenProperties, ElementOfSeq
  <2>. QED
    BY <1>1, <2>1
<1>3. pre \in Seq(X) /\ post \in Seq(X)
  <2>1. \A k \in 1..(i - 1) : w[k] \in X
    BY <1>2
  <2>2. \A k \in q..n : w[k] \in X
    BY <1>2
  <2>. QED
    BY <1>2, <2>1, <2>2, SubSeqProperties DEF pre, post
<1>4. pre \o part = SubSeq(w, 1, q - 1)
  <2>1. 1 \in 1..(n + 1) /\ i - 1 \in (1 - 1)..n /\ q - 1 \in (i - 1)..n /\ (i - 1) + 1 = i
    BY <1>2
  <2>2. SubSeq(w, 1, i - 1) \o SubSeq(w, (i - 1) + 1, q - 1) = SubSeq(w, 1, q - 1)
    BY <2>1, ConcatAdjacentSubSeq
  <2>. QED
    BY <1>1, <2>1, <2>2 DEF pre
<1>5. (pre \o part) \o post = w
  <2>1. 1 \in 1..(n + 1) /\ q - 1 \in (1 - 1)..n /\ n \in (q - 1)..n /\ (q - 1) + 1 = q
    BY <1>2
  <2>2. SubSeq(w, 1, q - 1) \o SubSeq(w, (q - 1) + 1, n) = SubSeq(w, 1, n)
    BY <2>1, ConcatAdjacentSubSeq
  <2>3. SubSeq(w, 1, n) = w
    BY SubSeqFull
  <2>. QED
    BY <1>4, <2>1, <2>2, <2>3 DEF post
<1>6. (pre \o by) \o post = (pre \o part) \o post
  BY <1>0, <1>5
<1>7. pre \o by = pre \o part
  <2>1. pre \o by \in Seq(X) /\ pre \o part \in Seq(X)
    BY <1>3, ConcatProperties
  <2>. QED
    BY <1>3, <1>6, <2>1, ConcatSimplifications
<1>. QED
  BY <1>3, <1>7, ConcatSimplifications

(* An edit whose old_text stands at one place is made there, with new_text *)
(* as it is.                                                               *)
THEOREM LiteralFirst == MatchSpec => []LiteralWins
<1>1. ASSUME MatchInv
      PROVE  LiteralWins
  <2> DEFINE n == Len(normalized)
             made(i) == SubSeq(normalized, 1, i - 1) \o args.new
                          \o SubSeq(normalized, i + Len(args.old), Len(normalized))
  <2>1. SUFFICES ASSUME resolved # Waiting, args.old # <<>>, args.old # args.new,
                        NEW i \in DOMAIN normalized,
                        \A j \in DOMAIN normalized :
                            OccursAt(normalized, args.old, j) <=> j = i
                 PROVE  Accepted /\ resolved.text = made(i)
    BY DEF LiteralWins
  <2>2. /\ normalized \in Seq(Symbol) /\ args.old \in Seq(Symbol) /\ args.new \in Seq(Symbol)
        /\ resolved = Decided
    BY <1>1, <2>1 DEF MatchInv
  <2>3. n \in Nat /\ DOMAIN normalized = 1..n /\ Len(args.old) \in Nat /\ Len(args.old) # 0
    BY <2>1, <2>2, LenProperties, EmptySeq
  <2>4. Found(normalized, args.old) = {i} /\ OccursAt(normalized, args.old, i)
    BY <2>1, <2>3, FoundThere
  <2>5. ~(Cardinality(Found(normalized, args.old)) > 1)
    <3>1. Cardinality({i}) = 1
      BY FS_Singleton
    <3>. QED
      BY <2>4, <3>1
  <2>6. Replaced(normalized, args.old, args.new, {i}) = made(i)
    <3>1. i \in 1..n /\ i + Len(args.old) <= n + 1
      BY <2>1, <2>3, <2>4 DEF OccursAt
    <3>. QED
      BY <2>2, <2>3, <3>1, ReplacedAt
  <2>7. made(i) # normalized
    <3>1. i \in 1..Len(normalized)
      BY <2>3
    <3>2. made(i) = normalized => args.new = args.old
      BY <2>2, <2>3, <2>4, <3>1, ReplacingChanges
    <3> HIDE DEF made
    <3>. QED
      BY <2>1, <3>2
  <2> HIDE DEF made
  <2>8. ResolveReplacement(normalized, args.old, args.new, args.all)
          = Matched("literal", made(i))
    BY <2>4, <2>5, <2>6 DEF ResolveReplacement, ApplyLiteral
  <2>9. Decided = Matched("literal", made(i))
    BY <2>1, <2>7, <2>8 DEF Decided, Matched
  <2>. QED
    BY <2>2, <2>9 DEF Accepted, Matched
<1>. QED
  BY <1>1, MatchInvHolds, PTL

-----------------------------------------------------------------------------
(* Lines put together and taken apart again.                               *)

LEMMA Rising ==
    ASSUME NEW K \in Nat, NEW c \in [1..K -> Nat],
           \A k \in 1..(K - 1) : c[k] < c[k + 1]
    PROVE  \A i, j \in 1..K : i < j => c[i] < c[j]
<1> DEFINE S == {m \in Nat : \A i, j \in 1..K : i < j /\ j <= m => c[i] < c[j]}
<1>1. 0 \in S
  OBVIOUS
<1>2. ASSUME NEW m \in Nat, m \in S
      PROVE  m + 1 \in S
  <2> SUFFICES ASSUME NEW i \in 1..K, NEW j \in 1..K, i < j, j <= m + 1
               PROVE  c[i] < c[j]
    OBVIOUS
  <2>1. CASE j <= m
    BY <1>2, <2>1
  <2>2. CASE j = m + 1
    <3>1. m \in 1..K /\ m \in 1..(K - 1) /\ i <= m
      BY <2>2
    <3>2. c[m] < c[m + 1] /\ c[i] \in Nat /\ c[m] \in Nat /\ c[m + 1] \in Nat
      BY <2>2, <3>1
    <3>3. i = m \/ c[i] < c[m]
      BY <1>2, <3>1
    <3>. QED
      BY <2>2, <3>2, <3>3
  <2>. QED
    BY <2>1, <2>2
<1>3. K \in S
  BY <1>1, <1>2, AllNumbers
<1>. QED
  BY <1>3

(* Numbers that rise are their set in order.                               *)
LEMMA InOrderOf ==
    ASSUME NEW K \in Nat, NEW c \in [1..K -> Nat],
           \A k \in 1..(K - 1) : c[k] < c[k + 1]
    PROVE  InOrder({c[k] : k \in 1..K}) = c
<1> DEFINE S == {c[k] : k \in 1..K}
           upto(m) == {c[k] : k \in 1..m}
           rank(n) == Cardinality({m \in S : m < n})
<1>1. \A i, j \in 1..K : i < j => c[i] < c[j]
  BY Rising
<1>2. \A i \in 1..K : c[i] \in Nat
  OBVIOUS
<1>3. \A i, j \in 1..K : (c[i] < c[j] <=> i < j) /\ (c[i] = c[j] => i = j)
  <2> TAKE i, j \in 1..K
  <2>1. i < j \/ i = j \/ j < i
    OBVIOUS
  <2>. QED
    BY <1>1, <1>2, <2>1
<1> DEFINE good(m) == IsFiniteSet(upto(m)) /\ Cardinality(upto(m)) = m
           G == {m \in Nat : m <= K => good(m)}
<1>4. 0 \in G
  <2>1. upto(0) = {}
    OBVIOUS
  <2> HIDE DEF upto
  <2>2. good(0)
    BY <2>1, FS_EmptySet
  <2> HIDE DEF good
  <2>. QED
    BY <2>2
<1>5. ASSUME NEW m \in Nat, m \in G
      PROVE  m + 1 \in G
  <2> SUFFICES ASSUME m + 1 <= K
               PROVE  good(m + 1)
    <3> HIDE DEF good
    <3>. QED
      OBVIOUS
  <2>1. good(m)
    <3> HIDE DEF good
    <3>. QED
      BY <1>5
  <2>2. upto(m + 1) = upto(m) \cup {c[m + 1]}
    <3>1. \A k : k \in 1..(m + 1) <=> k \in 1..m \/ k = m + 1
      OBVIOUS
    <3>. QED
      BY <3>1
  <2>3. c[m + 1] \notin upto(m)
    <3>1. m + 1 \in 1..K /\ \A k \in 1..m : k \in 1..K /\ k # m + 1
      OBVIOUS
    <3>. QED
      BY <1>3, <3>1
  <2> HIDE DEF upto
  <2>4. Cardinality(upto(m) \cup {c[m + 1]}) = Cardinality(upto(m)) + 1
    BY <2>1, <2>3, FS_AddElement
  <2>5. IsFiniteSet(upto(m) \cup {c[m + 1]})
    BY <2>1, FS_AddElement
  <2>. QED
    BY <2>1, <2>2, <2>4, <2>5
<1>6. \A m \in 0..K : good(m)
  <2> HIDE DEF good
  <2>1. \A m \in Nat : m \in G => m + 1 \in G
    BY <1>5
  <2>2. Nat \subseteq G
    <3> HIDE DEF G
    <3>. QED
      BY <1>4, <2>1, AllNumbers
  <2>. QED
    BY <2>2
<1>7. \A k \in 1..K : rank(c[k]) = k - 1
  <2> TAKE k \in 1..K
  <2>1. {m \in S : m < c[k]} = upto(k - 1)
    <3>1. \A i \in 1..K : i < k <=> i \in 1..(k - 1)
      OBVIOUS
    <3>2. \A i \in 1..(k - 1) : i \in 1..K
      OBVIOUS
    <3>. QED
      BY <1>3, <3>1, <3>2
  <2>2. k - 1 \in 0..K
    OBVIOUS
  <2>3. good(k - 1)
    <3> HIDE DEF good
    <3>. QED
      BY <1>6, <2>2
  <2> HIDE DEF upto
  <2>. QED
    BY <2>1, <2>3
<1>8. Cardinality(S) = K
  <2>1. K \in 0..K
    OBVIOUS
  <2>. QED
    BY <1>6, <2>1
<1>9. InOrder(S) = [k \in 1..K |-> CHOOSE n \in S : rank(n) = k - 1]
  BY <1>8 DEF InOrder
<1> HIDE DEF rank
<1>10. ASSUME NEW k \in 1..K
       PROVE  (CHOOSE n \in S : rank(n) = k - 1) = c[k]
  <2>1. c[k] \in S /\ rank(c[k]) = k - 1
    BY <1>7
  <2>2. ASSUME NEW n \in S, rank(n) = k - 1
        PROVE  n = c[k]
    <3>1. PICK j \in 1..K : n = c[j]
      OBVIOUS
    <3>2. j - 1 = k - 1
      BY <1>7, <2>2, <3>1
    <3>3. j = k
      BY <3>2
    <3>. QED
      BY <3>1, <3>3
  <2> HIDE DEF S
  <2>. QED
    BY <2>1, <2>2
<1>11. InOrder(S) = [k \in 1..K |-> c[k]]
  BY <1>9, <1>10
<1>. QED
  BY <1>11

(* The lines of lines that were joined are the lines.                      *)
LEMMA LinesOfJoined ==
    ASSUME NEW X, "nl" \notin X, NEW ls \in Seq(Seq(X)), ls # <<>>
    PROVE  Lines(Joined(ls)) = ls
<1> DEFINE n == Len(ls)
           Y == X \cup {"nl"}
           nl == <<"nl">>
           piece == [k \in DOMAIN ls |-> IF k = 1 THEN ls[k] ELSE <<"nl">> \o ls[k]]
<1>1. /\ n \in Nat /\ n >= 1 /\ DOMAIN ls = 1..n
      /\ \A k \in 1..n : ls[k] \in Seq(X) /\ ls[k] \in Seq(Y) /\ Len(ls[k]) \in Nat
      /\ \A k \in 1..n : \A i \in 1..Len(ls[k]) : ls[k][i] \in X
  <2>1. n \in Nat /\ n # 0 /\ DOMAIN ls = 1..n /\ \A k \in 1..n : ls[k] \in Seq(X)
    BY EmptySeq, LenProperties, ElementOfSeq
  <2>2. \A s \in Seq(X) : s \in Seq(Y) /\ Len(s) \in Nat /\ \A i \in 1..Len(s) : s[i] \in X
    BY LenProperties, ElementOfSeq
  <2>. QED
    BY <2>1, <2>2
<1>2. nl \in Seq(Y) /\ Len(nl) = 1 /\ nl[1] = "nl"
  OBVIOUS
<1>3. piece = [k \in 1..n |-> IF k = 1 THEN ls[k] ELSE nl \o ls[k]]
  BY <1>1
<1> HIDE DEF piece, nl, Y
<1>4. Len(piece) = n
  BY <1>1, <1>3
<1>5. PICK f : /\ FlattenSeq(piece) = f[n]
               /\ \A k \in 1..n : f[k] = IF k = 1 THEN piece[k] ELSE f[k - 1] \o piece[k]
  <2>1. Len(piece) \in Nat /\ Len(piece) # 0
    BY <1>1, <1>4
  <2>2. PICK f : /\ FlattenSeq(piece) = f[Len(piece)]
                 /\ \A k \in 1..Len(piece) :
                      f[k] = IF k = 1 THEN piece[k] ELSE f[k - 1] \o piece[k]
    BY <2>1, FlattenSteps
  <2> HIDE DEF n
  <2>. QED
    BY <1>4, <2>2
<1>6. Joined(ls) = f[n]
  BY <1>5 DEF Joined, piece
<1>7. /\ f[1] = ls[1]
      /\ \A k \in 1..(n - 1) : f[k + 1] = f[k] \o (nl \o ls[k + 1])
  <2>1. 1 \in 1..n
    BY <1>1
  <2>2. f[1] = ls[1]
    BY <1>3, <1>5, <2>1
  <2>3. ASSUME NEW k \in 1..(n - 1)
        PROVE  f[k + 1] = f[k] \o (nl \o ls[k + 1])
    <3>1. k + 1 \in 1..n /\ k + 1 # 1 /\ (k + 1) - 1 = k
      BY <1>1
    <3>. QED
      BY <1>3, <1>5, <3>1
  <2>. QED
    BY <2>2, <2>3
<1> HIDE DEF n
(* c[k] is where the line end before line k stands.                        *)
<1> DEFINE c == [k \in 1..(n + 1) |-> IF k = 1 THEN 0 ELSE Len(f[k - 1]) + 1]
           Joint(k) ==
             /\ f[k] \in Seq(Y)
             /\ c[k] \in Nat
             /\ Len(f[k]) = c[k] + Len(ls[k])
             /\ \A j \in 1..k : c[j] \in Nat /\ c[j] + Len(ls[j]) <= Len(f[k])
             /\ \A j \in 1..k : \A i \in 1..Len(ls[j]) : f[k][c[j] + i] = ls[j][i]
             /\ \A j \in 2..k : f[k][c[j]] = "nl"
             /\ \A p \in 1..Len(f[k]) : \/ \E j \in 2..k : p = c[j]
                                        \/ \E j \in 1..k : \E i \in 1..Len(ls[j]) : p = c[j] + i
<1>8. c[1] = 0 /\ \A k \in 1..n : c[k + 1] = Len(f[k]) + 1
  <2>1. 1 \in 1..(n + 1)
    BY <1>1
  <2>2. \A k \in 1..n : k + 1 \in 1..(n + 1) /\ k + 1 # 1 /\ (k + 1) - 1 = k
    BY <1>1
  <2>. QED
    BY <2>1, <2>2
<1>9. c = [k \in 1..(n + 1) |-> c[k]]
  OBVIOUS
<1> HIDE DEF c
<1>10. Joint(1)
  <2>1. 1 \in 1..n /\ f[1] = ls[1] /\ c[1] = 0 /\ f[1] \in Seq(Y) /\ Len(f[1]) \in Nat
    BY <1>1, <1>7, <1>8
  <2>2. \A i \in 1..Len(f[1]) : c[1] + i = i
    BY <2>1
  <2>3. \A j \in 1..1 : j = 1
    OBVIOUS
  <2>. QED
    BY <2>1, <2>2, <2>3
<1>11. ASSUME NEW k \in 1..(n - 1), Joint(k)
       PROVE  Joint(k + 1)
  <2> DEFINE s == f[k]
             t == f[k + 1]
             line == ls[k + 1]
             more == nl \o line
             at == c[k + 1]
  <2>1. /\ k \in 1..n /\ k + 1 \in 1..n /\ k \in Nat
        /\ t = s \o more /\ at = Len(s) + 1
        /\ line \in Seq(Y) /\ Len(line) \in Nat
    <3>1. k \in 1..n /\ k + 1 \in 1..n /\ k \in Nat
      BY <1>1
    <3>2. t = s \o more
      BY <1>7
    <3>3. at = Len(s) + 1
      BY <1>8, <3>1
    <3>4. line \in Seq(Y) /\ Len(line) \in Nat
      BY <1>1, <3>1
    <3> HIDE DEF t, s, at, line, more
    <3>. QED
      BY <3>1, <3>2, <3>3, <3>4
  <2>2. /\ s \in Seq(Y) /\ Len(s) \in Nat
        /\ \A j \in 1..k : c[j] \in Nat /\ c[j] + Len(ls[j]) <= Len(s)
        /\ \A j \in 1..k : \A i \in 1..Len(ls[j]) : s[c[j] + i] = ls[j][i]
        /\ \A j \in 2..k : s[c[j]] = "nl"
        /\ \A p \in 1..Len(s) : \/ \E j \in 2..k : p = c[j]
                                \/ \E j \in 1..k : \E i \in 1..Len(ls[j]) : p = c[j] + i
    BY <1>11, LenProperties
  <2>3. /\ more \in Seq(Y) /\ Len(more) = 1 + Len(line) /\ more[1] = "nl"
        /\ \A i \in 1..Len(line) : more[1 + i] = line[i]
    <3>1. /\ more \in Seq(Y) /\ Len(more) = Len(nl) + Len(line)
          /\ \A i \in 1..(Len(nl) + Len(line)) :
               more[i] = IF i <= Len(nl) THEN nl[i] ELSE line[i - Len(nl)]
      BY <1>2, <2>1, ConcatProperties
    <3> HIDE DEF more, line
    <3>2. 1 \in 1..(1 + Len(line)) /\ 1 <= 1
      BY <2>1
    <3>3. \A i \in 1..Len(line) : 1 + i \in 1..(1 + Len(line)) /\ ~(1 + i <= 1) /\ (1 + i) - 1 = i
      BY <2>1
    <3>. QED
      BY <1>2, <3>1, <3>2, <3>3
  <2> HIDE DEF s, more, t, at, line
  <2>4. /\ t \in Seq(Y) /\ Len(t) = Len(s) + Len(more)
        /\ \A i \in 1..(Len(s) + Len(more)) :
             t[i] = IF i <= Len(s) THEN s[i] ELSE more[i - Len(s)]
    <3>1. s \in Seq(Y) /\ more \in Seq(Y) /\ t = s \o more
      BY <2>1, <2>2, <2>3
    <3>. QED
      BY <3>1, ConcatProperties
  <2>5. at \in Nat /\ at > Len(s) /\ Len(t) = at + Len(line)
    BY <2>1, <2>2, <2>3, <2>4
  <2>6. /\ \A i \in 1..Len(s) : t[i] = s[i]
        /\ t[at] = "nl"
        /\ \A i \in 1..Len(line) : t[at + i] = line[i]
    <3>1. \A i \in 1..Len(s) : i \in 1..(Len(s) + Len(more)) /\ i <= Len(s)
      BY <2>2, <2>3, <2>1
    <3>2. at \in 1..(Len(s) + Len(more)) /\ ~(at <= Len(s)) /\ at - Len(s) = 1
      BY <2>1, <2>2, <2>3
    <3>3. \A i \in 1..Len(line) : /\ at + i \in 1..(Len(s) + Len(more)) /\ ~(at + i <= Len(s))
                                  /\ (at + i) - Len(s) = 1 + i
      BY <2>1, <2>2, <2>3
    <3>. QED
      BY <2>3, <2>4, <3>1, <3>2, <3>3
  <2>7. /\ \A j \in 1..(k + 1) : j \in 1..k \/ j = k + 1
        /\ \A j \in 1..k : j \in 1..n
    BY <1>1
  <2>8. \A j \in 1..(k + 1) : c[j] \in Nat /\ c[j] + Len(ls[j]) <= Len(t)
    <3> TAKE j \in 1..(k + 1)
    <3>1. CASE j \in 1..k
      <4>1. j \in 1..n
        BY <2>7, <3>1
      <4>2. Len(ls[j]) \in Nat /\ c[j] \in Nat /\ c[j] + Len(ls[j]) <= Len(s)
        BY <1>1, <2>2, <3>1, <4>1
      <4>. QED
        BY <2>1, <2>2, <2>5, <4>2
    <3>2. CASE j = k + 1
      <4>1. Len(t) = c[j] + Len(ls[j]) /\ c[j] \in Nat /\ Len(ls[j]) \in Nat
        BY <2>1, <2>5, <3>2 DEF at, line
      <4>. QED
        BY <4>1
    <3>. QED
      BY <2>7, <3>1, <3>2
  <2>9. \A j \in 1..(k + 1) : \A i \in 1..Len(ls[j]) : t[c[j] + i] = ls[j][i]
    <3> TAKE j \in 1..(k + 1)
    <3> TAKE i \in 1..Len(ls[j])
    <3>1. CASE j \in 1..k
      <4>1. j \in 1..n
        BY <2>7, <3>1
      <4>2. Len(ls[j]) \in Nat /\ c[j] \in Nat /\ c[j] + Len(ls[j]) <= Len(s)
        BY <1>1, <2>2, <3>1, <4>1
      <4>3. c[j] + i \in 1..Len(s)
        BY <2>2, <4>2
      <4>. QED
        BY <2>2, <2>6, <3>1, <4>3
    <3>2. CASE j = k + 1
      BY <2>6, <3>2 DEF at, line
    <3>. QED
      BY <2>7, <3>1, <3>2
  <2>10. \A j \in 2..(k + 1) : t[c[j]] = "nl"
    <3> TAKE j \in 2..(k + 1)
    <3>0. j \in 2..k \/ j = k + 1
      BY <2>1
    <3>1. CASE j \in 2..k
      <4>0. s[c[j]] = "nl"
        BY <2>2, <3>1
      <4>1. j \in 1..k /\ j \in 1..n /\ j - 1 \in 1..n /\ (j - 1) + 1 = j
        BY <1>1, <2>1, <3>1
      <4>2. c[j] \in Nat /\ c[j] + Len(ls[j]) <= Len(s) /\ Len(ls[j]) \in Nat
        BY <1>1, <2>2, <4>1
      <4>3. j - 1 \in 1..k
        BY <2>1, <3>1
      <4>4. c[j] # 0
        <5>1. c[j] = Len(f[j - 1]) + 1
          BY <1>8, <4>1
        <5>2. c[j] = 0 => Len(f[j - 1]) + 1 = 0
          BY <5>1
        <5>. QED
          BY <4>2, <5>1
      <4>5. c[j] \in 1..Len(s)
        BY <2>2, <4>2, <4>4
      <4>. QED
        BY <2>6, <4>0, <4>5
    <3>2. CASE j = k + 1
      BY <2>6, <3>2 DEF at
    <3>. QED
      BY <3>0, <3>1, <3>2
  <2>11. ASSUME NEW p \in 1..Len(t)
         PROVE  \/ \E j \in 2..(k + 1) : p = c[j]
                \/ \E j \in 1..(k + 1) : \E i \in 1..Len(ls[j]) : p = c[j] + i
    <3>1. p \in 1..Len(s) \/ p = at \/ p - at \in 1..Len(line)
      BY <2>1, <2>2, <2>5
    <3>2. CASE p \in 1..Len(s)
      <4>1. \A j \in 1..k : j \in 1..(k + 1)
        BY <2>1
      <4>2. \A j \in 2..k : j \in 2..(k + 1)
        BY <2>1
      <4>. QED
        BY <2>2, <3>2, <4>1, <4>2
    <3>3. CASE p = at
      <4>1. k + 1 \in 2..(k + 1)
        BY <2>1
      <4>. QED
        BY <3>3, <4>1 DEF at
    <3>4. CASE p - at \in 1..Len(line)
      <4>1. k + 1 \in 1..(k + 1) /\ p = at + (p - at)
        BY <2>1, <2>5
      <4>. QED
        BY <3>4, <4>1 DEF at, line
    <3>. QED
      BY <3>1, <3>2, <3>3, <3>4
  <2>. QED
    BY <2>4, <2>5, <2>8, <2>9, <2>10, <2>11 DEF t, at, line
<1>12. \A k \in 1..n : Joint(k)
  <2> DEFINE S == {k \in 1..n : Joint(k)}
  <2>1. 1 \in S
    <3>1. 1 \in 1..n
      BY <1>1
    <3> HIDE DEF Joint
    <3>. QED
      BY <1>10, <3>1
  <2>2. \A k \in 1..(n - 1) : k \in S => k + 1 \in S
    <3>1. \A k \in 1..(n - 1) : k + 1 \in 1..n
      BY <1>1
    <3> HIDE DEF Joint
    <3>. QED
      BY <1>11, <3>1
  <2>3. 1..n \subseteq S
    <3> HIDE DEF S
    <3>. QED
      BY <1>1, <2>1, <2>2, UpTo
  <2> HIDE DEF Joint
  <2>. QED
    BY <2>3
<1> DEFINE text == f[n]
<1>13. /\ text \in Seq(Y) /\ Len(text) \in Nat /\ DOMAIN text = 1..Len(text)
       /\ \A j \in 1..n : c[j] \in Nat /\ c[j] + Len(ls[j]) <= Len(text)
       /\ \A j \in 1..n : \A i \in 1..Len(ls[j]) : text[c[j] + i] = ls[j][i]
       /\ \A j \in 2..n : text[c[j]] = "nl"
       /\ \A p \in 1..Len(text) : \/ \E j \in 2..n : p = c[j]
                                  \/ \E j \in 1..n : \E i \in 1..Len(ls[j]) : p = c[j] + i
  <2>1. Joint(n) /\ n \in 1..n
    <3>1. n \in 1..n
      BY <1>1
    <3> HIDE DEF Joint
    <3>. QED
      BY <1>12, <3>1
  <2>2. f[n] \in Seq(Y)
    BY <2>1
  <2>. QED
    BY <2>1, <2>2, LenProperties
<1>14. \A k \in 1..n : c[k + 1] = c[k] + Len(ls[k]) + 1 /\ c[k] \in Nat /\ c[k + 1] \in Nat
  <2> TAKE k \in 1..n
  <2>1. Len(f[k]) = c[k] + Len(ls[k]) /\ c[k] \in Nat
    BY <1>12
  <2>. QED
    BY <1>1, <1>8, <2>1
<1> HIDE DEF Joint
<1>15. c[n + 1] = Len(text) + 1
  BY <1>1, <1>8
<1> HIDE DEF text
<1> DEFINE ends == {i \in DOMAIN text : text[i] = "nl"}
           S == {c[k] : k \in 1..(n + 1)}
<1>16. ends \cup {0, Len(text) + 1} = S
  <2>1. ASSUME NEW p \in ends
        PROVE  p \in S
    <3>1. p \in 1..Len(text) /\ text[p] = "nl"
      BY <1>13
    <3>2. ASSUME NEW j \in 1..n, NEW i \in 1..Len(ls[j]), p = c[j] + i
          PROVE  FALSE
      <4>1. ls[j][i] \in X /\ text[p] = ls[j][i]
        BY <1>1, <1>13, <3>2
      <4>. QED
        BY <3>1, <4>1
    <3>3. PICK j \in 2..n : p = c[j]
      BY <1>13, <3>1, <3>2
    <3>4. j \in 1..(n + 1)
      BY <1>1
    <3>. QED
      BY <3>3, <3>4
  <2>2. 0 \in S /\ Len(text) + 1 \in S
    <3>1. 1 \in 1..(n + 1) /\ n + 1 \in 1..(n + 1)
      BY <1>1
    <3>. QED
      BY <1>8, <1>15, <3>1
  <2>3. ASSUME NEW k \in 1..(n + 1)
        PROVE  c[k] \in ends \cup {0, Len(text) + 1}
    <3>1. k = 1 \/ k = n + 1 \/ k \in 2..n
      BY <1>1
    <3>2. CASE k \in 2..n
      <4>1. k \in 1..n /\ k - 1 \in 1..n /\ (k - 1) + 1 = k
        BY <1>1, <3>2
      <4>2. c[k] = c[k - 1] + Len(ls[k - 1]) + 1 /\ c[k - 1] \in Nat /\ Len(ls[k - 1]) \in Nat
        BY <1>1, <1>14, <4>1
      <4>3. c[k] \in Nat /\ c[k] + Len(ls[k]) <= Len(text) /\ Len(ls[k]) \in Nat
        BY <1>1, <1>13, <4>1
      <4>4. c[k] \in 1..Len(text)
        <5> DEFINE before == c[k - 1]
                   m == Len(ls[k - 1])
                   l == Len(ls[k])
                   p == c[k]
                   t == Len(text)
        <5>1. t \in Nat
          BY <1>13
        <5>2. /\ p = before + m + 1 /\ before \in Nat /\ m \in Nat
              /\ p \in Nat /\ l \in Nat /\ p + l <= t
          BY <4>2, <4>3
        <5> HIDE DEF before, m, l, p, t
        <5>3. p \in 1..t
          BY <5>1, <5>2
        <5>. QED
          BY <5>3 DEF p, t
      <4>. QED
        BY <1>13, <3>2, <4>4
    <3>. QED
      BY <1>8, <1>15, <3>1, <3>2
  <2>. QED
    BY <2>1, <2>2, <2>3
<1>17. InOrder(S) = c
  <2>1. n + 1 \in Nat /\ (n + 1) - 1 = n
    BY <1>1
  <2>2. \A k \in 1..(n + 1) : c[k] \in Nat
    <3>1. \A k \in 1..(n + 1) : k \in 1..n \/ k = n + 1
      BY <1>1
    <3>2. c[n + 1] \in Nat
      BY <1>13, <1>15
    <3>. QED
      BY <1>14, <3>1, <3>2
  <2>3. c \in [1..(n + 1) -> Nat]
    BY <1>9, <2>2
  <2>4. \A k \in 1..((n + 1) - 1) : c[k] < c[k + 1]
    <3> TAKE k \in 1..((n + 1) - 1)
    <3>1. k \in 1..n
      BY <2>1
    <3>2. c[k + 1] = c[k] + Len(ls[k]) + 1 /\ c[k] \in Nat /\ Len(ls[k]) \in Nat
      BY <1>1, <1>14, <3>1
    <3>. QED
      BY <3>2
  <2>. QED
    BY <2>1, <2>3, <2>4, InOrderOf
<1>18. Len(c) - 1 = n
  <2>1. DOMAIN c = 1..(n + 1)
    BY <1>9
  <2>. QED
    BY <1>1, <2>1
<1>19. Lines(text) = [k \in 1..n |-> SubSeq(text, c[k] + 1, c[k + 1] - 1)]
  <2>1. Lines(text) = [k \in 1..(Len(c) - 1) |-> SubSeq(text, c[k] + 1, c[k + 1] - 1)]
    BY <1>16, <1>17 DEF Lines
  <2>. QED
    BY <1>18, <2>1
<1>20. ASSUME NEW k \in 1..n
       PROVE  SubSeq(text, c[k] + 1, c[k + 1] - 1) = ls[k]
  <2> DEFINE s == SubSeq(text, c[k] + 1, c[k + 1] - 1)
             line == ls[k]
             a == c[k] + 1
             b == c[k + 1] - 1
  <2>1. /\ c[k] \in Nat /\ b = c[k] + Len(line) /\ b <= Len(text)
        /\ Len(line) \in Nat /\ line \in Seq(Y)
    <3>1. Len(line) \in Nat /\ line \in Seq(Y)
      BY <1>1
    <3>2. c[k] \in Nat /\ c[k + 1] = c[k] + Len(line) + 1
      BY <1>14
    <3>3. c[k] + Len(line) <= Len(text)
      BY <1>13
    <3> HIDE DEF line
    <3>. QED
      BY <3>1, <3>2, <3>3
  <2>2. \A i \in 1..Len(line) : text[c[k] + i] = line[i]
    BY <1>13
  <2>3. /\ s \in Seq(Y) /\ Len(s) = IF a <= b THEN b - a + 1 ELSE 0
        /\ \A i \in 1..(b - a + 1) : s[i] = text[a + i - 1]
    <3>1. \A i \in a..b : text[i] \in Y
      <4> TAKE i \in a..b
      <4>1. i \in 1..Len(text)
        BY <1>13, <2>1
      <4>. QED
        BY <1>13, <4>1, ElementOfSeq
    <3>2. a \in Int /\ b \in Int
      BY <2>1
    <3>3. s = SubSeq(text, a, b)
      OBVIOUS
    <3> HIDE DEF s, a, b
    <3>. QED
      BY <3>1, <3>2, <3>3, SubSeqProperties
  <2>5. \A i \in 1..Len(line) : a + i - 1 = c[k] + i
    BY <2>1
  <2> HIDE DEF s, line, b
  <2>4. Len(s) = Len(line) /\ b - a + 1 = Len(line)
    <3>1. a = c[k] + 1 /\ c[k] \in Nat /\ b = c[k] + Len(line) /\ Len(line) \in Nat
      BY <2>1
    <3>2. Len(s) = IF a <= b THEN b - a + 1 ELSE 0
      BY <2>3
    <3>3. b - a + 1 = Len(line) /\ (a <= b \/ Len(line) = 0)
      BY <3>1
    <3>. QED
      BY <3>2, <3>3, Zenon
  <2>6. \A i \in 1..Len(s) : s[i] = line[i]
    BY <2>2, <2>3, <2>4, <2>5
  <2>7. s = line
    BY <2>1, <2>3, <2>4, <2>6, SeqEqual
  <2>. QED
    BY <2>7 DEF s, line
<1>21. Lines(text) = [k \in 1..n |-> ls[k]]
  BY <1>19, <1>20
<1>22. ls = [k \in 1..n |-> ls[k]]
  BY <1>1
<1>. QED
  BY <1>6, <1>21, <1>22 DEF text

-----------------------------------------------------------------------------
(* The windows, one after the other.                                       *)

(* What the fold of SpliceAll computes, from the first places on.          *)
Folds(lines, seq, span, block, h, n) ==
    h = [s \in SUBSET (1..n) |->
           IF s = {} THEN lines
           ELSE Splice(h[s \ {Max(s)}], seq[Max(s)], span, block)]

LEMMA MaxIs ==
    ASSUME NEW n \in Nat, NEW s \in SUBSET (1..n), n \in s
    PROVE  Max(s) = n
<1>1. n \in s /\ \A y \in s : n >= y
  OBVIOUS
<1>2. ASSUME NEW x \in s, \A y \in s : x >= y
      PROVE  x = n
  BY <1>2
<1>. QED
  BY <1>1, <1>2 DEF Max

LEMMA FoldsExists ==
    ASSUME NEW lines, NEW seq, NEW span, NEW block, NEW n \in Nat
    PROVE  \E h : Folds(lines, seq, span, block, h, n)
<1> DEFINE F(h, m) == Folds(lines, seq, span, block, h, m)
           next(h, s) == Splice(h[s \ {Max(s)}], seq[Max(s)], span, block)
           S == {m \in Nat : \E h : F(h, m)}
<1>1. 0 \in S
  <2> DEFINE h == [s \in SUBSET (1..0) |-> lines]
  <2>1. \A s \in SUBSET (1..0) : s = {}
    OBVIOUS
  <2>2. F(h, 0)
    BY <2>1 DEF Folds
  <2>. QED
    BY <2>2
<1>2. ASSUME NEW m \in Nat, m \in S
      PROVE  m + 1 \in S
  <2>1. PICK h : F(h, m)
    BY <1>2
  <2> DEFINE g == [s \in SUBSET (1..(m + 1)) |->
                     IF m + 1 \in s THEN next(h, s) ELSE h[s]]
  <2>2. \A s \in SUBSET (1..m) : h[s] = IF s = {} THEN lines ELSE next(h, s)
    BY <2>1 DEF Folds
  <2>3. \A s \in SUBSET (1..m) : s \in SUBSET (1..(m + 1)) /\ m + 1 \notin s /\ g[s] = h[s]
    <3> TAKE s \in SUBSET (1..m)
    <3>1. s \in SUBSET (1..(m + 1)) /\ m + 1 \notin s
      OBVIOUS
    <3> HIDE DEF next
    <3>. QED
      BY <3>1
  <2>4. ASSUME NEW s \in SUBSET (1..(m + 1))
        PROVE  g[s] = IF s = {} THEN lines ELSE next(g, s)
    <3>1. CASE m + 1 \in s
      <4>1. Max(s) = m + 1
        BY <3>1, MaxIs
      <4>2. s \ {m + 1} \in SUBSET (1..m)
        OBVIOUS
      <4>3. g[s \ {m + 1}] = h[s \ {m + 1}]
        BY <2>3, <4>2
      <4>4. next(g, s) = next(h, s)
        <5> HIDE DEF g
        <5>. QED
          BY <4>1, <4>3
      <4>5. g[s] = next(h, s) /\ s # {}
        <5> HIDE DEF next
        <5>. QED
          BY <3>1
      <4> HIDE DEF g, next
      <4>. QED
        BY <4>4, <4>5
    <3>2. CASE m + 1 \notin s
      <4>1. s \in SUBSET (1..m)
        BY <3>2
      <4>2. g[s] = h[s]
        BY <2>3, <4>1
      <4>3. CASE s = {}
        <5> HIDE DEF g, next
        <5>. QED
          BY <2>2, <4>1, <4>2, <4>3
      <4>4. CASE s # {}
        <5>1. s \ {Max(s)} \in SUBSET (1..m)
          BY <4>1
        <5>2. g[s \ {Max(s)}] = h[s \ {Max(s)}]
          BY <2>3, <5>1
        <5>3. next(g, s) = next(h, s)
          <6> HIDE DEF g
          <6>. QED
            BY <5>2
        <5> HIDE DEF g, next
        <5>. QED
          BY <2>2, <4>1, <4>2, <4>4, <5>3
      <4>. QED
        BY <4>3, <4>4
    <3>. QED
      BY <3>1, <3>2
  <2>5. g = [s \in SUBSET (1..(m + 1)) |-> g[s]]
    OBVIOUS
  <2> HIDE DEF g
  <2>6. F(g, m + 1)
    BY <2>4, <2>5 DEF Folds
  <2> HIDE DEF F
  <2>. QED
    BY <2>6
<1> HIDE DEF F
<1>3. n \in S
  BY <1>1, <1>2, AllNumbers
<1>. QED
  BY <1>3 DEF F

(* The lines after each of n windows, of which the last is the result.     *)
Stages(lines, starts, span, block, g, n) ==
    /\ SpliceAll(lines, starts, span, block) = g[n]
    /\ g[0] = lines
    /\ \A k \in 1..n :
         g[k] = Splice(g[k - 1], Reverse(InOrder(starts))[k], span, block)

LEMMA StagesExist ==
    ASSUME NEW lines, NEW starts, NEW span, NEW block, NEW n \in Nat,
           DOMAIN Reverse(InOrder(starts)) = 1..n
    PROVE  \E g : Stages(lines, starts, span, block, g, n)
<1> DEFINE seq == Reverse(InOrder(starts))
           h == CHOOSE h : Folds(lines, seq, span, block, h, n)
           g == [k \in 0..n |-> h[1..k]]
<1> HIDE DEF seq
<1>1. SpliceAll(lines, starts, span, block) = h[DOMAIN seq]
  BY DEF SpliceAll, FoldLeft, MapThenFoldSet, Folds, seq
<1>2. DOMAIN seq = 1..n
  BY DEF seq
<1>3. Folds(lines, seq, span, block, h, n)
  BY FoldsExists
<1> HIDE DEF h
<1>4. \A s \in SUBSET (1..n) :
        h[s] = IF s = {} THEN lines
               ELSE Splice(h[s \ {Max(s)}], seq[Max(s)], span, block)
  BY <1>3 DEF Folds
<1>5. SpliceAll(lines, starts, span, block) = g[n]
  BY <1>1, <1>2
<1>6. g[0] = lines
  <2>1. 1..0 = {} /\ {} \in SUBSET (1..n)
    OBVIOUS
  <2>2. h[{}] = lines
    BY <1>4, <2>1
  <2>. QED
    BY <2>1, <2>2
<1>7. ASSUME NEW k \in 1..n
      PROVE  g[k] = Splice(g[k - 1], seq[k], span, block)
  <2>1. /\ 1..k \in SUBSET (1..n) /\ 1..k # {} /\ Max(1..k) = k
        /\ (1..k) \ {k} = 1..(k - 1) /\ k \in 0..n /\ k - 1 \in 0..n
    <3>1. k \in 1..k /\ k \in Nat
      OBVIOUS
    <3>2. Max(1..k) = k
      BY <3>1, MaxIs
    <3>3. \A i : i \in (1..k) \ {k} <=> i \in 1..(k - 1)
      OBVIOUS
    <3>4. 1..k \in SUBSET (1..n)
      OBVIOUS
    <3>5. (1..k) \ {k} = 1..(k - 1)
      BY <3>3, Zenon
    <3>6. k \in 0..n /\ k - 1 \in 0..n /\ 1..k # {}
      BY <3>1
    <3>. QED
      BY <3>2, <3>4, <3>5, <3>6
  <2>2. h[1..k] = Splice(h[1..(k - 1)], seq[k], span, block)
    BY <1>4, <2>1
  <2>. QED
    BY <2>1, <2>2
<1> HIDE DEF g
<1>. QED
  BY <1>5, <1>6, <1>7 DEF seq, Stages

-----------------------------------------------------------------------------
(* Indentation.                                                            *)

LEMMA MinIs ==
    ASSUME NEW S \in SUBSET Nat, NEW m \in S, \A n \in S : m <= n
    PROVE  Min(S) = m
<1>1. ASSUME NEW x \in S, \A y \in S : x <= y
      PROVE  x = m
  <2>1. x <= m /\ m <= x /\ x \in Nat /\ m \in Nat
    BY <1>1
  <2>. QED
    BY <2>1
<1>2. \E x \in S : \A y \in S : x <= y
  OBVIOUS
<1>3. Min(S) \in S /\ \A y \in S : Min(S) <= y
  BY <1>2 DEF Min
<1>. QED
  BY <1>1, <1>3

LEMMA GreatestIs ==
    ASSUME NEW S \in SUBSET Nat, NEW m \in S, \A n \in S : n <= m
    PROVE  Max(S) = m
<1>1. ASSUME NEW x \in S, \A y \in S : x >= y
      PROVE  x = m
  <2>1. x >= m /\ x <= m /\ x \in Nat /\ m \in Nat
    BY <1>1
  <2>. QED
    BY <2>1
<1>2. \E x \in S : \A y \in S : x >= y
  <2>1. \A y \in S : m >= y
    <3> TAKE y \in S
    <3>1. y <= m /\ y \in Nat /\ m \in Nat
      OBVIOUS
    <3>. QED
      BY <3>1
  <2>. QED
    BY <2>1
<1>3. Max(S) \in S /\ \A y \in S : Max(S) >= y
  BY <1>2 DEF Max
<1>. QED
  BY <1>1, <1>3

LEMMA IndentIs ==
    ASSUME NEW line, Len(line) \in Nat, DOMAIN line = 1..Len(line),
           NEW d \in 0..(Len(line) - 1),
           \A i \in 1..d : line[i] = "sp", line[d + 1] # "sp"
    PROVE  Ink(line) # {} /\ Indent(line) = d /\ Min(Ink(line)) = d + 1
<1>1. d + 1 \in 1..Len(line) /\ d + 1 \in Nat /\ (d + 1) - 1 = d
  OBVIOUS
<1>2. d + 1 \in Ink(line) /\ Ink(line) \in SUBSET Nat
  BY <1>1 DEF Ink
<1>3. ASSUME NEW n \in Ink(line)
      PROVE  d + 1 <= n
  <2>1. n \in 1..Len(line) /\ line[n] # "sp"
    BY <1>3 DEF Ink
  <2>2. n \notin 1..d
    BY <2>1
  <2>. QED
    BY <2>1, <2>2
<1>4. Min(Ink(line)) = d + 1
  BY <1>2, <1>3, MinIs
<1>. QED
  BY <1>1, <1>2, <1>4 DEF Indent

LEMMA IndentOf ==
    ASSUME NEW line, Len(line) \in Nat, DOMAIN line = 1..Len(line), Ink(line) # {}
    PROVE  /\ Indent(line) \in 0..(Len(line) - 1)
           /\ \A i \in 1..Indent(line) : line[i] = "sp"
           /\ line[Indent(line) + 1] # "sp"
<1>1. Ink(line) \in SUBSET (1..Len(line)) /\ Ink(line) \in SUBSET Nat
  BY DEF Ink
<1>2. PICK m \in Ink(line) : \A n \in Ink(line) : m <= n
  BY <1>1, Least
<1>3. Min(Ink(line)) = m
  BY <1>1, <1>2, MinIs
<1>4. Indent(line) = m - 1
  BY <1>3 DEF Indent
<1>5. m \in 1..Len(line) /\ line[m] # "sp"
  BY <1>2 DEF Ink
<1>6. ASSUME NEW i \in 1..(m - 1)
      PROVE  line[i] = "sp"
  <2>1. i \in 1..Len(line) /\ ~(m <= i)
    BY <1>5
  <2>2. i \notin Ink(line)
    BY <1>2, <2>1
  <2>. QED
    BY <2>1, <2>2 DEF Ink
<1>7. m - 1 \in 0..(Len(line) - 1) /\ (m - 1) + 1 = m
  BY <1>5
<1>. QED
  BY <1>4, <1>5, <1>6, <1>7

(* A line moved from indentation b to a margin of d.                       *)
ToMargin(line, b, d) == [i \in 1..d |-> "sp"] \o SubSeq(line, b + 1, Len(line))

LEMMA ToMarginIs ==
    ASSUME NEW X, "sp" \in X, NEW line \in Seq(X), NEW b \in 0..Len(line), NEW d \in Nat
    PROVE  /\ ToMargin(line, b, d) \in Seq(X)
           /\ Len(ToMargin(line, b, d)) = d + (Len(line) - b)
           /\ \A i \in 1..d : ToMargin(line, b, d)[i] = "sp"
           /\ \A i \in (d + 1)..(d + (Len(line) - b)) : ToMargin(line, b, d)[i] = line[(b - d) + i]
<1> DEFINE m == [i \in 1..d |-> "sp"]
           n == Len(line)
           rest == SubSeq(line, b + 1, n)
<1>1. n \in Nat /\ \A i \in 1..n : line[i] \in X
  BY LenProperties, ElementOfSeq
<1>2. m \in Seq(X) /\ Len(m) = d /\ \A i \in 1..d : m[i] = "sp"
  OBVIOUS
<1>3. rest \in Seq(X) /\ Len(rest) = n - b /\ \A i \in 1..(n - b) : rest[i] = line[b + i]
  <2>1. /\ rest \in Seq(X)
        /\ Len(rest) = IF b + 1 <= n THEN n - (b + 1) + 1 ELSE 0
        /\ \A i \in 1..(n - (b + 1) + 1) : rest[i] = line[(b + 1) + i - 1]
    <3>1. \A i \in (b + 1)..n : line[i] \in X
      BY <1>1
    <3>2. b + 1 \in Int /\ n \in Int
      BY <1>1
    <3>. QED
      BY <3>1, <3>2, SubSeqProperties
  <2> HIDE DEF rest
  <2>2. n - (b + 1) + 1 = n - b /\ (~(b + 1 <= n) => n - b = 0)
    BY <1>1
  <2>3. \A i \in 1..(n - b) : (b + 1) + i - 1 = b + i
    BY <1>1
  <2>. QED
    BY <2>1, <2>2, <2>3
<1> HIDE DEF m, rest
<1>4. /\ m \o rest \in Seq(X) /\ Len(m \o rest) = Len(m) + Len(rest)
      /\ \A i \in 1..(Len(m) + Len(rest)) :
           (m \o rest)[i] = IF i <= Len(m) THEN m[i] ELSE rest[i - Len(m)]
  BY <1>2, <1>3, ConcatProperties
<1> DEFINE t == m \o rest
<1>5. /\ t \in Seq(X) /\ Len(t) = d + (n - b)
      /\ \A i \in 1..(d + (n - b)) : t[i] = IF i <= d THEN m[i] ELSE rest[i - d]
  BY <1>2, <1>3, <1>4
<1> HIDE DEF t
<1>6. \A i \in 1..d : t[i] = "sp"
  <2> TAKE i \in 1..d
  <2>1. i \in 1..(d + (n - b)) /\ i <= d
    BY <1>1
  <2>. QED
    BY <1>2, <1>5, <2>1
<1>7. \A i \in (d + 1)..(d + (n - b)) : t[i] = line[(b - d) + i]
  <2> TAKE i \in (d + 1)..(d + (n - b))
  <2>1. /\ i \in 1..(d + (n - b)) /\ ~(i <= d) /\ i - d \in 1..(n - b)
        /\ b + (i - d) = (b - d) + i
    BY <1>1
  <2>. QED
    BY <1>3, <1>5, <2>1
<1>8. ToMargin(line, b, d) = t
  BY DEF ToMargin, t, m, rest
<1> HIDE DEF n
<1>. QED
  BY <1>5, <1>6, <1>7, <1>8 DEF n

(* Moving a line changes its indentation and nothing else.                 *)
LEMMA Moved ==
    ASSUME NEW X, "sp" \in X, NEW line \in Seq(X), Ink(line) # {},
           NEW b \in 0..Indent(line), NEW d \in Nat
    PROVE  /\ Ink(ToMargin(line, b, d)) # {}
           /\ Indent(ToMargin(line, b, d)) = d + (Indent(line) - b)
           /\ Stripped(ToMargin(line, b, d)) = Stripped(line)
           /\ SubSeq(ToMargin(line, b, d), d + 1, Len(ToMargin(line, b, d)))
                = SubSeq(line, b + 1, Len(line))
<1> DEFINE t == ToMargin(line, b, d)
           n == Len(line)
           e == Indent(line)
           l == Len(t)
<1>1. n \in Nat /\ DOMAIN line = 1..n /\ \A i \in 1..n : line[i] \in X
  BY LenProperties, ElementOfSeq
<1>2. e \in 0..(n - 1) /\ (\A i \in 1..e : line[i] = "sp") /\ line[e + 1] # "sp"
  BY <1>1, IndentOf
<1>3. b \in 0..n /\ b \in 0..e
  BY <1>1, <1>2
<1>4. /\ t \in Seq(X) /\ l = d + (n - b)
      /\ \A i \in 1..d : t[i] = "sp"
      /\ \A i \in (d + 1)..(d + (n - b)) : t[i] = line[(b - d) + i]
  <2>1. b \in 0..Len(line)
    BY <1>3
  <2> DEFINE u == ToMargin(line, b, d)
  <2>2. u \in Seq(X)
    BY <2>1, ToMarginIs
  <2>3. Len(u) = d + (Len(line) - b)
    BY <2>1, ToMarginIs
  <2>4. \A i \in 1..d : u[i] = "sp"
    BY <2>1, ToMarginIs
  <2>5. \A i \in (d + 1)..(d + (Len(line) - b)) : u[i] = line[(b - d) + i]
    BY <2>1, ToMarginIs
  <2>. QED
    BY <2>2, <2>3, <2>4, <2>5, Zenon
<1>5. DOMAIN t = 1..l /\ l \in Nat /\ \A i \in 1..l : t[i] \in X
  BY <1>4, LenProperties, ElementOfSeq
<1> HIDE DEF t, n, e, l
<1>6. \A i \in 1..l : i > d => i - d \in 1..(n - b) /\ d + (i - d) = i /\ t[i] = line[(b - d) + i]
  <2> TAKE i \in 1..l
  <2> HAVE i > d
  <2>1. i - d \in 1..(n - b) /\ d + (i - d) = i /\ i \in (d + 1)..(d + (n - b))
    BY <1>1, <1>3, <1>4
  <2>. QED
    BY <1>4, <2>1
<1> DEFINE f == d + (e - b)
<1>7. Ink(t) # {} /\ Indent(t) = f /\ Min(Ink(t)) = f + 1
  <2>1. f \in 0..(l - 1)
    BY <1>1, <1>2, <1>3, <1>4
  <2>2. ASSUME NEW i \in 1..f
        PROVE  t[i] = "sp"
    <3>1. CASE i <= d
      BY <1>4, <3>1
    <3>2. CASE i > d
      <4>1. i \in 1..l /\ (b - d) + i \in 1..e
        BY <1>1, <1>2, <1>3, <1>5, <2>1, <3>2
      <4>. QED
        BY <1>2, <1>6, <3>2, <4>1
    <3>. QED
      BY <2>1, <3>1, <3>2
  <2>3. t[f + 1] # "sp"
    <3>1. f + 1 \in 1..l /\ f + 1 > d /\ (b - d) + (f + 1) = e + 1
      BY <1>1, <1>2, <1>3, <1>5, <2>1
    <3>2. t[f + 1] = line[(b - d) + (f + 1)]
      BY <1>6, <3>1
    <3>. QED
      BY <1>2, <3>1, <3>2
  <2> HIDE DEF f
  <2>4. l = Len(t)
    BY DEF l
  <2>. QED
    BY <1>5, <2>1, <2>2, <2>3, <2>4, IndentIs
<1>8. Min(Ink(line)) = e + 1 /\ e = Indent(line) /\ n = Len(line) /\ l = Len(t)
  <2>1. e = Indent(line) /\ n = Len(line) /\ l = Len(t)
    BY DEF e, n, l
  <2>. QED
    BY <1>1, <1>2, <2>1, IndentIs
<1>9. PICK m \in Ink(line) : \A i \in Ink(line) : i <= m
  <2>1. Ink(line) \in SUBSET (0..n)
    BY <1>1 DEF Ink
  <2>. QED
    BY <1>1, <2>1, Greatest
<1>10. Max(Ink(line)) = m /\ m \in (e + 1)..n /\ line[m] # "sp"
  <2>1. m \in 1..n /\ line[m] # "sp" /\ Ink(line) \in SUBSET Nat
    BY <1>1, <1>9 DEF Ink
  <2>2. m \notin 1..e
    BY <1>2, <2>1
  <2>3. Max(Ink(line)) = m
    BY <1>9, <2>1, GreatestIs
  <2>. QED
    BY <1>2, <2>1, <2>2, <2>3
<1> DEFINE g == d + (m - b)
<1>11. g \in (f + 1)..l /\ g > d /\ (b - d) + g = m
  BY <1>1, <1>2, <1>3, <1>4, <1>10
<1>12. Max(Ink(t)) = g
  <2>1. g \in Ink(t) /\ Ink(t) \in SUBSET Nat
    <3>1. g \in 1..l
      BY <1>11, <1>2, <1>3
    <3>2. t[g] = line[(b - d) + g]
      BY <1>6, <1>11, <3>1
    <3>3. t[g] = line[m]
      BY <1>11, <3>2
    <3> HIDE DEF g
    <3>. QED
      BY <1>5, <1>10, <3>1, <3>3 DEF Ink
  <2>2. ASSUME NEW i \in Ink(t)
        PROVE  i <= g
    <3>1. i \in 1..l /\ t[i] # "sp"
      BY <1>5, <2>2 DEF Ink
    <3>2. CASE i <= d
      BY <1>4, <3>1, <3>2
    <3>3. CASE i > d
      <4>1. t[i] = line[(b - d) + i] /\ (b - d) + i \in 1..n
        BY <1>1, <1>3, <1>4, <1>6, <3>1, <3>3
      <4>2. (b - d) + i \in Ink(line)
        BY <1>1, <3>1, <4>1 DEF Ink
      <4>3. (b - d) + i <= m
        BY <1>9, <4>2
      <4>. QED
        BY <1>3, <1>10, <3>1, <4>3
    <3>. QED
      BY <3>1, <3>2, <3>3
  <2> HIDE DEF g
  <2>. QED
    BY <2>1, <2>2, GreatestIs
<1> DEFINE same(i, j, p, q) ==
             SubSeq(t, i, j) = SubSeq(line, p, q)
<1>13. ASSUME NEW j \in (f + 1)..l, NEW i \in (d + 1)..j
       PROVE  same(i, j, (b - d) + i, (b - d) + j)
  <2> DEFINE p == (b - d) + i
             q == (b - d) + j
             u == SubSeq(t, i, j)
             v == SubSeq(line, p, q)
  <2>1. /\ i \in Int /\ j \in Int /\ p \in Int /\ q \in Int
        /\ \A k \in i..j : k \in 1..l
        /\ \A k \in p..q : k \in 1..n
        /\ j - i + 1 = q - p + 1 /\ i <= j /\ p <= q
    BY <1>1, <1>2, <1>3, <1>4
  <2>2. u \in Seq(X) /\ Len(u) = j - i + 1 /\ \A k \in 1..(j - i + 1) : u[k] = t[i + k - 1]
    <3>1. \A k \in i..j : t[k] \in X
      BY <1>5, <2>1
    <3>. QED
      BY <2>1, <3>1, SubSeqProperties
  <2>3. v \in Seq(X) /\ Len(v) = q - p + 1 /\ \A k \in 1..(q - p + 1) : v[k] = line[p + k - 1]
    <3>1. \A k \in p..q : line[k] \in X
      BY <1>1, <2>1
    <3> HIDE DEF p, q
    <3>. QED
      BY <2>1, <3>1, SubSeqProperties
  <2> HIDE DEF u, v
  <2>4. ASSUME NEW k \in 1..(j - i + 1)
        PROVE  u[k] = v[k]
    <3>1. i + k - 1 \in 1..l /\ i + k - 1 > d /\ (b - d) + (i + k - 1) = p + k - 1
      BY <1>2, <1>3, <1>4
    <3>2. t[i + k - 1] = line[(b - d) + (i + k - 1)]
      BY <1>6, <3>1
    <3>3. k \in 1..(q - p + 1)
      BY <2>1
    <3> HIDE DEF p, q
    <3>. QED
      BY <2>2, <2>3, <3>1, <3>2, <3>3
  <2>5. u = v
    <3> HIDE DEF p, q
    <3>1. Len(u) = Len(v) /\ \A k \in 1..Len(u) : u[k] = v[k]
      BY <2>1, <2>2, <2>3, <2>4
    <3>. QED
      BY <2>2, <2>3, <3>1, SeqEqual
  <2>. QED
    BY <2>5 DEF u, v
<1>14. Stripped(t) = Stripped(line)
  <2>1. Stripped(t) = SubSeq(t, f + 1, g) /\ Stripped(line) = SubSeq(line, e + 1, m)
    <3> HIDE DEF f, g
    <3>. QED
      BY <1>7, <1>8, <1>10, <1>12 DEF Stripped
  <2>2. g \in (f + 1)..l /\ f + 1 \in (d + 1)..g
    BY <1>2, <1>3, <1>11
  <2>3. same(f + 1, g, (b - d) + (f + 1), (b - d) + g)
    <3> HIDE DEF f, g, same
    <3>. QED
      BY <1>13, <2>2
  <2>4. (b - d) + (f + 1) = e + 1 /\ (b - d) + g = m
    BY <1>2, <1>3, <1>11
  <2> HIDE DEF f, g
  <2>. QED
    BY <2>1, <2>3, <2>4
<1>15. SubSeq(t, d + 1, l) = SubSeq(line, b + 1, n)
  <2>1. l \in (f + 1)..l /\ d + 1 \in (d + 1)..l
    BY <1>1, <1>2, <1>3, <1>4
  <2>2. same(d + 1, l, (b - d) + (d + 1), (b - d) + l)
    <3> HIDE DEF f, same
    <3>. QED
      BY <1>13, <2>1
  <2>3. (b - d) + (d + 1) = b + 1 /\ (b - d) + l = n
    BY <1>1, <1>3, <1>4
  <2>. QED
    BY <2>2, <2>3
<1>. QED
  BY <1>7, <1>8, <1>14, <1>15 DEF t, e

(* The shallowest of the lines that are not blank.                         *)
LEMMA ShallowestIs ==
    ASSUME NEW X, NEW lines \in Seq(Seq(X)), NEW k \in Meaningful(lines),
           \A j \in Meaningful(lines) : Indent(lines[k]) <= Indent(lines[j])
    PROVE  Shallowest(lines) = Indent(lines[k])
<1> DEFINE S == {Indent(lines[j]) : j \in Meaningful(lines)}
<1>1. \A j \in Meaningful(lines) : Indent(lines[j]) \in Nat
  <2> TAKE j \in Meaningful(lines)
  <2>1. j \in 1..Len(lines)
    BY LenProperties DEF Meaningful
  <2>2. lines[j] \in Seq(X)
    BY <2>1, ElementOfSeq
  <2>. QED
    BY <2>2, IndentTyped
<1>2. Min(S) = Indent(lines[k])
  <2>1. S \in SUBSET Nat /\ Indent(lines[k]) \in S
    BY <1>1
  <2>. QED
    BY <2>1, MinIs
<1>. QED
  BY <1>2 DEF Shallowest

LEMMA ShallowestOf ==
    ASSUME NEW X, NEW lines \in Seq(Seq(X)), Meaningful(lines) # {}
    PROVE  /\ Shallowest(lines) \in Nat
           /\ \E k \in Meaningful(lines) : Shallowest(lines) = Indent(lines[k])
           /\ \A k \in Meaningful(lines) : Shallowest(lines) <= Indent(lines[k])
<1> DEFINE S == {Indent(lines[j]) : j \in Meaningful(lines)}
<1>1. \A j \in Meaningful(lines) : Indent(lines[j]) \in Nat
  <2> TAKE j \in Meaningful(lines)
  <2>1. j \in 1..Len(lines)
    BY LenProperties DEF Meaningful
  <2>2. lines[j] \in Seq(X)
    BY <2>1, ElementOfSeq
  <2>. QED
    BY <2>2, IndentTyped
<1>2. S \in SUBSET Nat /\ S # {}
  BY <1>1
<1>3. PICK m \in S : \A i \in S : m <= i
  <2> HIDE DEF S
  <2>. QED
    BY <1>2, Least
<1>4. PICK k \in Meaningful(lines) : m = Indent(lines[k])
  BY <1>3
<1>5. \A j \in Meaningful(lines) : Indent(lines[k]) <= Indent(lines[j])
  BY <1>3, <1>4
<1>6. Shallowest(lines) = Indent(lines[k])
  BY <1>5, ShallowestIs
<1>. QED
  BY <1>1, <1>5, <1>6

LEMMA ShallowestTyped ==
    ASSUME NEW X, NEW lines \in Seq(Seq(X))
    PROVE  Shallowest(lines) \in Nat
<1>1. CASE Meaningful(lines) = {}
  BY <1>1 DEF Shallowest
<1>2. CASE Meaningful(lines) # {}
  BY <1>2, ShallowestOf
<1>. QED
  BY <1>1, <1>2

(* The lines of new_text as they are put into a file at the margin d.      *)
AtMargin(lines, d) ==
    [k \in DOMAIN lines |->
       IF Ink(lines[k]) = {} THEN <<>> ELSE ToMargin(lines[k], Shallowest(lines), d)]

LEMMA InkLess ==
    /\ Ink(<<>>) = {} /\ Stripped(<<>>) = <<>>
    /\ \A line : Ink(line) = {} => Stripped(line) = <<>>
BY DEF Ink, Stripped

(* A line that is not blank is at least as deep as the shallowest.         *)
LEMMA LineOf ==
    ASSUME NEW X, NEW lines \in Seq(Seq(X)), NEW k \in 1..Len(lines), Ink(lines[k]) # {}
    PROVE  /\ lines[k] \in Seq(X) /\ k \in Meaningful(lines)
           /\ Shallowest(lines) \in 0..Indent(lines[k])
           /\ Indent(lines[k]) \in 0..(Len(lines[k]) - 1)
           /\ Len(lines[k]) \in Nat
<1>1. lines[k] \in Seq(X) /\ k \in Meaningful(lines)
  <2>1. k \in DOMAIN lines
    BY LenProperties
  <2>. QED
    BY <2>1, ElementOfSeq DEF Meaningful
<1>2. Shallowest(lines) \in Nat /\ Shallowest(lines) <= Indent(lines[k])
  BY <1>1, ShallowestOf
<1>3. Len(lines[k]) \in Nat /\ DOMAIN lines[k] = 1..Len(lines[k])
  BY <1>1, LenProperties
<1>4. Indent(lines[k]) \in 0..(Len(lines[k]) - 1)
  BY <1>3, IndentOf
<1>. QED
  BY <1>1, <1>2, <1>3, <1>4

LEMMA AtMarginIs ==
    ASSUME NEW X, "sp" \in X, NEW lines \in Seq(Seq(X)), NEW d \in Nat
    PROVE  /\ AtMargin(lines, d) \in Seq(Seq(X))
           /\ Len(AtMargin(lines, d)) = Len(lines)
           /\ StrippedAll(AtMargin(lines, d)) = StrippedAll(lines)
           /\ Meaningful(lines) # {} =>
                /\ Shallowest(AtMargin(lines, d)) = d
                /\ Dedented(AtMargin(lines, d)) = Dedented(lines)
<1> DEFINE n == Len(lines)
           b == Shallowest(lines)
           r == AtMargin(lines, d)
           line(k) == ToMargin(lines[k], b, d)
<1>1. n \in Nat /\ DOMAIN lines = 1..n
  BY LenProperties
<1>2. r = [k \in 1..n |-> IF Ink(lines[k]) = {} THEN <<>> ELSE line(k)]
  BY <1>1 DEF AtMargin
<1>3. ASSUME NEW k \in 1..n, Ink(lines[k]) # {}
      PROVE  /\ r[k] \in Seq(X)
             /\ Ink(r[k]) # {} /\ Indent(r[k]) = d + (Indent(lines[k]) - b)
             /\ Stripped(r[k]) = Stripped(lines[k])
             /\ SubSeq(r[k], d + 1, Len(r[k])) = SubSeq(lines[k], b + 1, Len(lines[k]))
  <2>1. r[k] = line(k)
    <3> HIDE DEF line, r
    <3>. QED
      BY <1>2, <1>3
  <2>2. /\ lines[k] \in Seq(X) /\ b \in 0..Indent(lines[k]) /\ b \in 0..Len(lines[k])
    <3>1. /\ lines[k] \in Seq(X) /\ b \in 0..Indent(lines[k])
          /\ Indent(lines[k]) \in 0..(Len(lines[k]) - 1) /\ Len(lines[k]) \in Nat
      BY <1>3, LineOf
    <3> HIDE DEF b
    <3>. QED
      BY <3>1
  <2>3. line(k) \in Seq(X)
    <3> HIDE DEF b
    <3>. QED
      BY <2>2, ToMarginIs
  <2>4. /\ Ink(line(k)) # {} /\ Indent(line(k)) = d + (Indent(lines[k]) - b)
        /\ Stripped(line(k)) = Stripped(lines[k])
        /\ SubSeq(line(k), d + 1, Len(line(k))) = SubSeq(lines[k], b + 1, Len(lines[k]))
    <3> HIDE DEF b
    <3>. QED
      BY <1>3, <2>2, Moved
  <2> HIDE DEF line, r, b
  <2>. QED
    BY <2>1, <2>3, <2>4
<1>4. ASSUME NEW k \in 1..n, Ink(lines[k]) = {}
      PROVE  r[k] = <<>>
  <2> HIDE DEF line, r
  <2>. QED
    BY <1>2, <1>4
<1>5. DOMAIN r = 1..n
  <2> HIDE DEF line, r
  <2>. QED
    BY <1>2
<1>6. r = [k \in 1..n |-> r[k]]
  <2> HIDE DEF line, r
  <2>. QED
    BY <1>2
<1> HIDE DEF r, line
<1>7. r \in Seq(Seq(X)) /\ Len(r) = n
  <2>1. \A k \in 1..n : r[k] \in Seq(X)
    <3> TAKE k \in 1..n
    <3>1. <<>> \in Seq(X)
      BY EmptySeq
    <3>. QED
      BY <1>3, <1>4, <3>1
  <2>2. r \in [1..n -> Seq(X)]
    BY <1>6, <2>1
  <2> HIDE DEF n
  <2>3. r \in Seq(Seq(X))
    BY <1>1, <2>2, SeqDef
  <2>4. Len(r) = n
    BY <1>1, <1>5
  <2>. QED
    BY <2>3, <2>4
<1>8. StrippedAll(r) = StrippedAll(lines)
  <2>1. \A k \in 1..n : Stripped(r[k]) = Stripped(lines[k])
    <3> TAKE k \in 1..n
    <3>1. CASE Ink(lines[k]) = {}
      BY <1>4, <3>1, InkLess
    <3>2. CASE Ink(lines[k]) # {}
      BY <1>3, <3>2
    <3>. QED
      BY <3>1, <3>2
  <2>. QED
    BY <1>1, <1>5, <2>1 DEF StrippedAll
<1>9. \A k \in 1..n : Ink(r[k]) = {} <=> Ink(lines[k]) = {}
  BY <1>3, <1>4, InkLess
<1>10. Meaningful(r) = Meaningful(lines)
  BY <1>1, <1>5, <1>9 DEF Meaningful
<1>11. ASSUME Meaningful(lines) # {}
       PROVE  Shallowest(r) = d /\ Dedented(r) = Dedented(lines)
  <2>1. PICK k \in Meaningful(lines) : b = Indent(lines[k])
    BY <1>11, ShallowestOf
  <2>2. ASSUME NEW j \in Meaningful(lines)
        PROVE  /\ j \in 1..n /\ Ink(lines[j]) # {}
               /\ Indent(r[j]) = d + (Indent(lines[j]) - b)
               /\ b \in 0..Indent(lines[j]) /\ Indent(lines[j]) \in Nat
    <3>1. j \in 1..n /\ Ink(lines[j]) # {}
      BY <1>1, <2>2 DEF Meaningful
    <3>2. b \in 0..Indent(lines[j]) /\ Indent(lines[j]) \in Nat
      <4>1. /\ b \in 0..Indent(lines[j])
            /\ Indent(lines[j]) \in 0..(Len(lines[j]) - 1) /\ Len(lines[j]) \in Nat
        BY <3>1, LineOf
      <4> HIDE DEF b
      <4>. QED
        BY <4>1
    <3>. QED
      BY <1>3, <3>1, <3>2
  <2>3. Indent(r[k]) = d /\ k \in Meaningful(r)
    <3>1. Indent(r[k]) = d + (Indent(lines[k]) - b)
      BY <2>2
    <3>2. b \in 0..Indent(lines[k]) /\ Indent(lines[k]) \in Nat
      BY <2>2
    <3>. QED
      BY <1>10, <2>1, <3>1, <3>2
  <2>4. \A j \in Meaningful(r) : Indent(r[k]) <= Indent(r[j])
    <3> TAKE j \in Meaningful(r)
    <3>1. /\ Indent(r[j]) = d + (Indent(lines[j]) - b)
          /\ b \in 0..Indent(lines[j]) /\ Indent(lines[j]) \in Nat
      BY <1>10, <2>2
    <3> HIDE DEF b
    <3>. QED
      BY <2>3, <3>1
  <2>5. Shallowest(r) = d
    BY <1>7, <2>3, <2>4, ShallowestIs
  <2>6. Dedented(r) = [j \in 1..n |-> IF Ink(r[j]) = {} THEN <<>>
                                      ELSE SubSeq(r[j], d + 1, Len(r[j]))]
    BY <1>5, <2>5 DEF Dedented
  <2>7. Dedented(lines) = [j \in 1..n |-> IF Ink(lines[j]) = {} THEN <<>>
                                          ELSE SubSeq(lines[j], b + 1, Len(lines[j]))]
    BY <1>1 DEF Dedented
  <2>8. \A j \in 1..n : Ink(lines[j]) # {} =>
          SubSeq(r[j], d + 1, Len(r[j])) = SubSeq(lines[j], b + 1, Len(lines[j]))
    BY <1>3
  <2> HIDE DEF b
  <2>. QED
    BY <1>9, <2>5, <2>6, <2>7, <2>8
<1>. QED
  BY <1>7, <1>8, <1>11 DEF r

(* What Splice puts in is the block at the margin it finds.                *)
LEMMA IndentedIs ==
    ASSUME NEW X, NEW lines \in Seq(Seq(X)), NEW d \in Nat
    PROVE  [k \in DOMAIN Dedented(lines) |->
              IF Dedented(lines)[k] = <<>> THEN <<>>
              ELSE [i \in 1..d |-> "sp"] \o Dedented(lines)[k]]
             = AtMargin(lines, d)
<1> DEFINE n == Len(lines)
           b == Shallowest(lines)
           D == Dedented(lines)
<1>1. n \in Nat /\ DOMAIN lines = 1..n
  BY LenProperties
<1>2. D = [k \in 1..n |-> IF Ink(lines[k]) = {} THEN <<>>
                          ELSE SubSeq(lines[k], b + 1, Len(lines[k]))]
  BY <1>1 DEF Dedented
<1> HIDE DEF D
<1>3. ASSUME NEW k \in 1..n, Ink(lines[k]) # {}
      PROVE  D[k] = SubSeq(lines[k], b + 1, Len(lines[k])) /\ D[k] # <<>>
  <2>1. D[k] = SubSeq(lines[k], b + 1, Len(lines[k]))
    BY <1>2, <1>3
  <2>2. /\ lines[k] \in Seq(X) /\ b + 1 \in 1..Len(lines[k]) /\ Len(lines[k]) \in Nat
    <3>1. /\ lines[k] \in Seq(X) /\ b \in 0..Indent(lines[k])
          /\ Indent(lines[k]) \in 0..(Len(lines[k]) - 1) /\ Len(lines[k]) \in Nat
      BY <1>3, LineOf
    <3> HIDE DEF b
    <3>. QED
      BY <3>1
  <2>3. Len(SubSeq(lines[k], b + 1, Len(lines[k]))) = Len(lines[k]) - (b + 1) + 1
    <3>1. \A i \in (b + 1)..Len(lines[k]) : lines[k][i] \in X
      <4> TAKE i \in (b + 1)..Len(lines[k])
      <4>1. i \in 1..Len(lines[k])
        BY <2>2
      <4>. QED
        BY <2>2, <4>1, ElementOfSeq
    <3>2. b + 1 <= Len(lines[k]) /\ b + 1 \in Int /\ Len(lines[k]) \in Int
      BY <2>2
    <3> HIDE DEF b
    <3>. QED
      BY <3>1, <3>2, SubSeqProperties
  <2>4. Len(lines[k]) - (b + 1) + 1 # 0
    BY <2>2
  <2>5. Len(<<>>) = 0
    OBVIOUS
  <2> HIDE DEF b
  <2>. QED
    BY <2>1, <2>3, <2>4, <2>5
<1>4. \A k \in 1..n : D[k] = <<>> <=> Ink(lines[k]) = {}
  BY <1>2, <1>3
<1>5. DOMAIN D = 1..n
  BY <1>2
<1>6. AtMargin(lines, d)
        = [k \in 1..n |-> IF Ink(lines[k]) = {} THEN <<>>
                          ELSE [i \in 1..d |-> "sp"] \o SubSeq(lines[k], b + 1, Len(lines[k]))]
  BY <1>1 DEF AtMargin, ToMargin
<1>7. [k \in DOMAIN D |-> IF D[k] = <<>> THEN <<>> ELSE [i \in 1..d |-> "sp"] \o D[k]]
        = [k \in 1..n |-> IF Ink(lines[k]) = {} THEN <<>>
                          ELSE [i \in 1..d |-> "sp"] \o SubSeq(lines[k], b + 1, Len(lines[k]))]
  <2> DEFINE margin == [i \in 1..d |-> "sp"]
  <2> HIDE DEF margin, b
  <2>1. [k \in DOMAIN D |-> IF D[k] = <<>> THEN <<>> ELSE margin \o D[k]]
          = [k \in 1..n |-> IF Ink(lines[k]) = {} THEN <<>>
                            ELSE margin \o SubSeq(lines[k], b + 1, Len(lines[k]))]
    BY <1>3, <1>4, <1>5
  <2>. QED
    BY <2>1 DEF margin
<1>. QED
  BY <1>6, <1>7 DEF D

(* A set of numbers in order rises, and misses none of them.               *)
LEMMA InOrderRises ==
    ASSUME NEW N \in Nat, NEW S \in SUBSET (0..N),
           NEW k \in 1..Cardinality(S), NEW j \in S
    PROVE  /\ InOrder(S)[k] \in S
           /\ Cardinality({m \in S : m < InOrder(S)[k]}) = k - 1
           /\ j < InOrder(S)[k] =>
                Cardinality({m \in S : m < j}) < Cardinality({m \in S : m < InOrder(S)[k]})
           /\ InOrder(S)[k] < j =>
                Cardinality({m \in S : m < InOrder(S)[k]}) < Cardinality({m \in S : m < j})
           /\ Cardinality({m \in S : m < j}) + 1 \in 1..Cardinality(S)
<1> DEFINE below(n) == {m \in S : m < n}
           rank(n) == Cardinality(below(n))
           c == CHOOSE n \in S : rank(n) = k - 1
<1>1. IsFiniteSet(S) /\ Cardinality(S) \in Nat /\ \A n \in S : n \in Nat
  <2>1. IsFiniteSet(0..N)
    BY FS_Interval
  <2>2. \A n \in S : n \in Nat
    OBVIOUS
  <2>. QED
    BY <2>1, <2>2, FS_Subset, FS_CardinalityType
<1>2. InOrder(S)[k] = c
  <2>1. InOrder(S) = [i \in 1..Cardinality(S) |-> CHOOSE n \in S : rank(n) = i - 1]
    BY DEF InOrder
  <2> HIDE DEF rank
  <2>. QED
    BY <2>1
<1>3. c \in S /\ rank(c) = k - 1
  <2>1. \E n \in S : rank(n) = k - 1
    BY KthExists
  <2> HIDE DEF rank
  <2>. QED
    BY <2>1
<1> HIDE DEF c
<1>4. ASSUME NEW i \in S, NEW n \in S, i < n
      PROVE  rank(i) < rank(n)
  <2>1. /\ IsFiniteSet(below(i)) /\ IsFiniteSet(below(n)) /\ i \notin below(i)
        /\ below(i) \cup {i} \subseteq below(n)
    <3>1. below(i) \subseteq S /\ below(n) \subseteq S
      OBVIOUS
    <3>2. IsFiniteSet(below(i)) /\ IsFiniteSet(below(n))
      BY <1>1, <3>1, FS_Subset
    <3>3. i \notin below(i)
      BY <1>1
    <3>4. below(i) \cup {i} \subseteq below(n)
      <4>1. \A m \in S : m < i => m < n
        BY <1>1, <1>4
      <4>. QED
        BY <1>4, <4>1
    <3>. QED
      BY <3>2, <3>3, <3>4
  <2> HIDE DEF below
  <2>2. rank(i) \in Nat /\ rank(n) \in Nat
    BY <2>1, FS_CardinalityType
  <2>3. Cardinality(below(i) \cup {i}) = rank(i) + 1
    BY <2>1, FS_AddElement
  <2>4. Cardinality(below(i) \cup {i}) <= rank(n)
    BY <2>1, FS_Subset
  <2> HIDE DEF rank
  <2>. QED
    BY <2>2, <2>3, <2>4
<1>5. rank(j) + 1 \in 1..Cardinality(S)
  <2>1. below(j) \subseteq S /\ j \notin below(j)
    BY <1>1
  <2>2. IsFiniteSet(below(j)) /\ Cardinality(below(j) \cup {j}) <= Cardinality(S)
    <3>1. below(j) \cup {j} \subseteq S
      OBVIOUS
    <3> HIDE DEF below
    <3>. QED
      BY <1>1, <2>1, <3>1, FS_Subset
  <2> HIDE DEF below
  <2>3. rank(j) \in Nat /\ Cardinality(below(j) \cup {j}) = rank(j) + 1
    BY <2>1, <2>2, FS_AddElement, FS_CardinalityType
  <2> HIDE DEF rank
  <2>. QED
    BY <1>1, <2>2, <2>3
<1>6. (j < c => rank(j) < rank(c)) /\ (c < j => rank(c) < rank(j))
  <2> HIDE DEF rank
  <2>. QED
    BY <1>3, <1>4
<1> HIDE DEF rank
<1>. QED
  BY <1>2, <1>3, <1>5, <1>6 DEF rank

(* No line holds a line end, and there is at least one line.               *)
LEMMA LinesWithout ==
    ASSUME NEW X, NEW t \in Seq(X)
    PROVE  Lines(t) \in Seq(Seq(X \ {"nl"})) /\ Lines(t) # <<>>
<1> DEFINE n == Len(t)
           S == {i \in DOMAIN t : t[i] = "nl"} \cup {0, n + 1}
           cuts == InOrder(S)
           line(k) == SubSeq(t, cuts[k] + 1, cuts[k + 1] - 1)
           rank(i) == Cardinality({m \in S : m < i})
<1>1. n \in Nat /\ DOMAIN t = 1..n /\ \A i \in 1..n : t[i] \in X
  BY LenProperties, ElementOfSeq
<1>2. S \in SUBSET (0..(n + 1)) /\ n + 1 \in Nat
  BY <1>1
<1>3. 0 \in S /\ n + 1 \in S
  OBVIOUS
<1>4. Lines(t) = [k \in 1..(Len(cuts) - 1) |-> line(k)]
  BY DEF Lines
<1>5. \A i \in 1..n : i \notin S => t[i] # "nl"
  BY <1>1
<1> HIDE DEF S
<1>6. Cardinality(S) \in Nat /\ Len(cuts) = Cardinality(S)
  BY <1>2, InOrderIn
<1>7. Len(cuts) - 1 \in Nat /\ Len(cuts) - 1 >= 1
  <2>1. IsFiniteSet(S)
    <3>1. IsFiniteSet(0..(n + 1))
      BY <1>2, FS_Interval
    <3>. QED
      BY <1>2, <3>1, FS_Subset
  <2>2. {0, n + 1} \subseteq S /\ 0 # n + 1
    BY <1>1, <1>3
  <2>3. Cardinality({0, n + 1}) <= Cardinality(S)
    BY <2>1, <2>2, FS_Subset
  <2>4. Cardinality({0, n + 1}) = 2
    <3>1. IsFiniteSet({0}) /\ Cardinality({0}) = 1
      BY FS_Singleton
    <3>2. Cardinality({0} \cup {n + 1}) = Cardinality({0}) + 1
      BY <2>2, <3>1, FS_AddElement
    <3>3. {0} \cup {n + 1} = {0, n + 1}
      OBVIOUS
    <3>4. Cardinality({0, n + 1}) = 1 + 1
      BY <3>1, <3>2, <3>3, Zenon
    <3>. QED
      BY <3>4
  <2>. QED
    BY <1>6, <2>3, <2>4
<1> HIDE DEF cuts, rank
<1>8. ASSUME NEW k \in 1..Cardinality(S)
      PROVE  cuts[k] \in 0..(n + 1)
  BY <1>2, <1>3, InOrderRises DEF cuts
<1>9. ASSUME NEW k \in 1..(Len(cuts) - 1), NEW i \in S
      PROVE  ~(cuts[k] < i /\ i < cuts[k + 1])
  <2>1. k \in 1..Cardinality(S) /\ k + 1 \in 1..Cardinality(S)
    BY <1>6, <1>7
  <2>2. rank(cuts[k]) = k - 1 /\ (cuts[k] < i => rank(cuts[k]) < rank(i))
    BY <1>2, <2>1, InOrderRises DEF cuts, rank
  <2>3. rank(cuts[k + 1]) = (k + 1) - 1 /\ (i < cuts[k + 1] => rank(i) < rank(cuts[k + 1]))
    BY <1>2, <2>1, InOrderRises DEF cuts, rank
  <2>4. rank(i) \in Int
    <3>1. {m \in S : m < i} \subseteq S
      OBVIOUS
    <3>2. IsFiniteSet(0..(n + 1))
      BY <1>2, FS_Interval
    <3>3. IsFiniteSet(S)
      BY <1>2, <3>2, FS_Subset
    <3>4. rank(i) \in Nat
      BY <3>1, <3>3, FS_Subset, FS_CardinalityType DEF rank
    <3>. QED
      BY <3>4
  <2>. QED
    BY <2>1, <2>2, <2>3, <2>4
<1>10. ASSUME NEW k \in 1..(Len(cuts) - 1)
       PROVE  line(k) \in Seq(X \ {"nl"})
  <2>1. k \in 1..Cardinality(S) /\ k + 1 \in 1..Cardinality(S)
    BY <1>6, <1>7
  <2>2. cuts[k] \in 0..(n + 1) /\ cuts[k + 1] \in 0..(n + 1)
    BY <1>8, <2>1
  <2>3. ASSUME NEW i \in (cuts[k] + 1)..(cuts[k + 1] - 1)
        PROVE  t[i] \in X \ {"nl"}
    <3>1. i \in 1..n /\ cuts[k] < i /\ i < cuts[k + 1]
      BY <1>1, <2>2
    <3>2. i \notin S
      BY <1>9, <3>1
    <3>. QED
      BY <1>1, <1>5, <3>1, <3>2
  <2>. QED
    BY <2>2, <2>3, SubSeqProperties
<1> HIDE DEF line
<1> DEFINE r == [k \in 1..(Len(cuts) - 1) |-> line(k)]
<1>11. r \in Seq(Seq(X \ {"nl"})) /\ Len(r) # 0
  <2>1. r \in [1..(Len(cuts) - 1) -> Seq(X \ {"nl"})]
    BY <1>10
  <2>2. DOMAIN r = 1..(Len(cuts) - 1)
    OBVIOUS
  <2> HIDE DEF r
  <2>3. r \in Seq(Seq(X \ {"nl"}))
    BY <1>7, <2>1, SeqDef
  <2>4. Len(r) = Len(cuts) - 1
    BY <1>7, <2>2
  <2>. QED
    BY <1>7, <2>3, <2>4
<1> HIDE DEF r
<1>12. Lines(t) = r
  BY <1>4 DEF r
<1>. QED
  BY <1>11, <1>12, EmptySeq

LEMMA BlockWithout ==
    ASSUME NEW X, NEW t \in Seq(X)
    PROVE  AsBlock(t) \in Seq(Seq(X \ {"nl"})) /\ AsBlock(t) # <<>>
<1> DEFINE Y == Seq(X \ {"nl"})
           lines == Lines(t)
<1>1. lines \in Seq(Y) /\ lines # <<>>
  BY LinesWithout
<1> HIDE DEF lines, Y
<1>2. Len(lines) \in Nat /\ \A i \in 1..Len(lines) : lines[i] \in Y
  BY <1>1, LenProperties, ElementOfSeq
<1>3. CASE Len(lines) > 1 /\ Last(lines) = <<>>
  <2>1. AsBlock(t) = SubSeq(lines, 1, Len(lines) - 1)
    BY <1>3 DEF AsBlock, Front, lines
  <2>2. \A i \in 1..(Len(lines) - 1) : lines[i] \in Y
    BY <1>2
  <2>3. Len(lines) - 1 \in Int /\ 1 <= Len(lines) - 1
    BY <1>2, <1>3
  <2>4. /\ SubSeq(lines, 1, Len(lines) - 1) \in Seq(Y)
        /\ Len(SubSeq(lines, 1, Len(lines) - 1)) = (Len(lines) - 1) - 1 + 1
    BY <2>2, <2>3, SubSeqProperties
  <2>5. (Len(lines) - 1) - 1 + 1 # 0
    BY <1>2, <1>3
  <2>. QED
    BY <2>1, <2>4, <2>5, EmptySeq DEF Y
<1>4. CASE ~(Len(lines) > 1 /\ Last(lines) = <<>>)
  BY <1>1, <1>4 DEF AsBlock, lines, Y
<1>. QED
  BY <1>3, <1>4

(* A sequence with a stretch of it exchanged.                              *)
Exchange(w, by, s, span) ==
    SubSeq(w, 1, s - 1) \o by \o SubSeq(w, s + span, Len(w))

(* What r is made of when it is w with the stretch exchanged.              *)
Exchanging(X, w, by, s, span, r) ==
    /\ r \in Seq(X)
    /\ Len(r) = (Len(w) - span) + Len(by)
    /\ \A i \in 1..(s - 1) : r[i] = w[i]
    /\ \A i \in 1..Len(by) : r[(s - 1) + i] = by[i]
    /\ \A i \in (s + span)..Len(w) : r[(i - span) + Len(by)] = w[i]

LEMMA Exchanged ==
    ASSUME NEW X, NEW w \in Seq(X), NEW by \in Seq(X), NEW s \in 1..Len(w),
           NEW span \in Nat, s + span <= Len(w) + 1
    PROVE  /\ Exchanging(X, w, by, s, span, Exchange(w, by, s, span))
           /\ SubSeq(Exchange(w, by, s, span), s, s + Len(by) - 1) = by
<1> DEFINE n == Len(w)
           l == Len(by)
           pre == SubSeq(w, 1, s - 1)
           post == SubSeq(w, s + span, n)
           half == pre \o by
           r == Exchange(w, by, s, span)
           t == half \o post
<1>1. n \in Nat /\ (\A i \in 1..n : w[i] \in X) /\ l \in Nat /\ \A i \in 1..l : by[i] \in X
  BY LenProperties, ElementOfSeq
<1> HIDE DEF n, l
<1>2. s \in 1..n /\ s + span <= n + 1
  BY DEF n
<1>3. pre \in Seq(X) /\ Len(pre) = s - 1 /\ \A i \in 1..(s - 1) : pre[i] = w[i]
  <2>1. \A i \in 1..(s - 1) : w[i] \in X
    BY <1>1, <1>2
  <2>2. s - 1 \in Int /\ (s - 1) - 1 + 1 = s - 1 /\ (~(1 <= s - 1) => s - 1 = 0)
    BY <1>2
  <2>3. /\ pre \in Seq(X) /\ Len(pre) = IF 1 <= s - 1 THEN (s - 1) - 1 + 1 ELSE 0
        /\ \A i \in 1..((s - 1) - 1 + 1) : pre[i] = w[1 + i - 1]
    BY <2>1, <2>2, SubSeqProperties
  <2> HIDE DEF pre
  <2>4. \A i \in 1..(s - 1) : 1 + i - 1 = i
    BY <1>2
  <2>. QED
    BY <2>2, <2>3, <2>4
<1>4. /\ post \in Seq(X) /\ Len(post) = (n + 1) - (s + span)
      /\ \A i \in 1..((n + 1) - (s + span)) : post[i] = w[(s + span) + i - 1]
  <2>1. \A i \in (s + span)..n : w[i] \in X
    BY <1>1, <1>2
  <2>2. /\ s + span \in Int /\ n \in Int /\ n - (s + span) + 1 = (n + 1) - (s + span)
        /\ (~(s + span <= n) => (n + 1) - (s + span) = 0)
    BY <1>1, <1>2
  <2>3. /\ post \in Seq(X) /\ Len(post) = IF s + span <= n THEN n - (s + span) + 1 ELSE 0
        /\ \A i \in 1..(n - (s + span) + 1) : post[i] = w[(s + span) + i - 1]
    BY <2>1, <2>2, SubSeqProperties
  <2> HIDE DEF post
  <2>. QED
    BY <2>2, <2>3
<1> HIDE DEF pre, post
<1>5. /\ half \in Seq(X) /\ Len(half) = (s - 1) + l
      /\ \A i \in 1..((s - 1) + l) : half[i] = IF i <= s - 1 THEN pre[i] ELSE by[i - (s - 1)]
  <2>1. /\ half \in Seq(X) /\ Len(half) = Len(pre) + Len(by)
        /\ \A i \in 1..(Len(pre) + Len(by)) : half[i] = IF i <= Len(pre) THEN pre[i] ELSE by[i - Len(pre)]
    BY <1>3, ConcatProperties
  <2> HIDE DEF half
  <2>. QED
    BY <1>3, <2>1 DEF l
<1> HIDE DEF half
<1>6. /\ t \in Seq(X) /\ Len(t) = ((s - 1) + l) + ((n + 1) - (s + span))
      /\ \A i \in 1..(((s - 1) + l) + ((n + 1) - (s + span))) :
           t[i] = IF i <= (s - 1) + l THEN half[i] ELSE post[i - ((s - 1) + l)]
  <2>1. /\ t \in Seq(X) /\ Len(t) = Len(half) + Len(post)
        /\ \A i \in 1..(Len(half) + Len(post)) : t[i] = IF i <= Len(half) THEN half[i] ELSE post[i - Len(half)]
    BY <1>4, <1>5, ConcatProperties
  <2> HIDE DEF t
  <2>. QED
    BY <1>4, <1>5, <2>1
<1>7. r = t
  <2>1. half = SubSeq(w, 1, s - 1) \o by
    BY Zenon DEF half, pre
  <2>2. post = SubSeq(w, s + span, Len(w))
    BY Zenon DEF post, n
  <2>3. r = SubSeq(w, 1, s - 1) \o by \o SubSeq(w, s + span, Len(w))
    BY Zenon DEF r, Exchange
  <2>. QED
    BY <2>1, <2>2, <2>3
<1> HIDE DEF t, r
<1>8. Len(r) = (n - span) + l
  <2>1. Len(r) = ((s - 1) + l) + ((n + 1) - (s + span))
    BY <1>6, <1>7
  <2>2. s \in Int /\ n \in Int /\ l \in Int /\ span \in Int
    BY <1>1, <1>2
  <2>. QED
    BY <2>1, <2>2
<1>9. \A i \in 1..(s - 1) : r[i] = w[i]
  <2> TAKE i \in 1..(s - 1)
  <2>1. /\ i \in 1..(((s - 1) + l) + ((n + 1) - (s + span))) /\ i <= (s - 1) + l
        /\ i \in 1..((s - 1) + l) /\ i <= s - 1
    BY <1>1, <1>2
  <2>. QED
    BY <1>3, <1>5, <1>6, <1>7, <2>1
<1>10. \A i \in 1..l : r[(s - 1) + i] = by[i]
  <2> TAKE i \in 1..l
  <2>1. /\ (s - 1) + i \in 1..(((s - 1) + l) + ((n + 1) - (s + span)))
        /\ (s - 1) + i <= (s - 1) + l
        /\ (s - 1) + i \in 1..((s - 1) + l) /\ ~((s - 1) + i <= s - 1)
        /\ ((s - 1) + i) - (s - 1) = i
    BY <1>1, <1>2
  <2>. QED
    BY <1>5, <1>6, <1>7, <2>1
<1>11. \A i \in (s + span)..n : r[(i - span) + l] = w[i]
  <2> TAKE i \in (s + span)..n
  <2> DEFINE j == (i - span) + l
             k == j - ((s - 1) + l)
  <2>1. /\ j \in 1..(((s - 1) + l) + ((n + 1) - (s + span))) /\ ~(j <= (s - 1) + l)
        /\ k \in 1..((n + 1) - (s + span)) /\ (s + span) + k - 1 = i
    <3>1. s \in Int /\ s >= 1 /\ n \in Int /\ l \in Int /\ l >= 0 /\ span \in Int
      BY <1>1, <1>2
    <3>2. i \in Int /\ s + span <= i /\ i <= n
      BY <3>1
    <3>3. j \in Int /\ j >= 1 /\ j <= ((s - 1) + l) + ((n + 1) - (s + span))
      BY <3>1, <3>2
    <3>4. j > (s - 1) + l
      BY <3>1, <3>2
    <3>5. k = (i + 1) - (s + span)
      BY <3>1, <3>2
    <3> HIDE DEF j, k
    <3>. QED
      BY <3>1, <3>2, <3>3, <3>4, <3>5
  <2>2. r[j] = post[k]
    BY <1>6, <1>7, <2>1
  <2>3. post[k] = w[(s + span) + k - 1]
    <3> HIDE DEF k
    <3>. QED
      BY <1>4, <2>1
  <2> HIDE DEF j, k
  <2>4. r[j] = w[i]
    BY <2>1, <2>2, <2>3
  <2>. QED
    BY <2>4 DEF j
<1>12. SubSeq(r, s, s + l - 1) = by
  <2> DEFINE u == SubSeq(r, s, s + l - 1)
  <2>1. s \in Int /\ s + l - 1 \in Int /\ (s + l - 1) - s + 1 = l /\ (~(s <= s + l - 1) => l = 0)
    BY <1>1, <1>2
  <2>2. \A i \in s..(s + l - 1) : r[i] \in X
    <3> TAKE i \in s..(s + l - 1)
    <3>1. i \in 1..Len(r)
      BY <1>1, <1>2, <1>6, <1>7
    <3>. QED
      BY <1>6, <1>7, <3>1, ElementOfSeq
  <2>3. /\ u \in Seq(X) /\ Len(u) = IF s <= s + l - 1 THEN (s + l - 1) - s + 1 ELSE 0
        /\ \A i \in 1..((s + l - 1) - s + 1) : u[i] = r[s + i - 1]
    BY <2>1, <2>2, SubSeqProperties
  <2> HIDE DEF u
  <2>4. Len(u) = l /\ \A i \in 1..l : u[i] = r[s + i - 1]
    BY <2>1, <2>3
  <2>5. \A i \in 1..l : s + i - 1 = (s - 1) + i
    BY <1>1, <1>2
  <2>6. \A i \in 1..l : u[i] = by[i]
    BY <1>10, <2>4, <2>5
  <2>7. Len(u) = Len(by) /\ \A i \in 1..Len(u) : u[i] = by[i]
    BY <2>4, <2>6 DEF l
  <2>8. u = by
    BY <2>3, <2>7, SeqEqual
  <2>. QED
    BY <2>8 DEF u
<1>13. r \in Seq(X)
  BY <1>6, <1>7
<1>. QED
  BY <1>8, <1>9, <1>10, <1>11, <1>12, <1>13 DEF n, l, r, Exchanging

(* Splice exchanges a window for the block at the window's margin.         *)
LEMMA SpliceIs ==
    ASSUME NEW X, NEW lines \in Seq(Seq(X)), NEW new \in Seq(Seq(X)),
           NEW s \in 1..Len(lines), NEW span \in Nat, span # 0, s + span <= Len(lines) + 1
    PROVE  LET d == Shallowest(SubSeq(lines, s, s + span - 1))
           IN  /\ d \in Nat
               /\ Splice(lines, s, span, Dedented(new))
                    = Exchange(lines, AtMargin(new, d), s, span)
<1> DEFINE n == Len(lines)
           matched == SubSeq(lines, s, s + span - 1)
           d == Shallowest(matched)
           D == Dedented(new)
<1>1. n \in Nat /\ \A i \in 1..n : lines[i] \in Seq(X)
  BY LenProperties, ElementOfSeq
<1>2. Min({s + span - 1, n}) = s + span - 1
  <2>1. {s + span - 1, n} \in SUBSET Nat /\ s + span - 1 <= n /\ s + span - 1 <= s + span - 1
    BY <1>1
  <2>. QED
    BY <2>1, MinIs
<1>3. matched \in Seq(Seq(X))
  <2>1. \A i \in s..(s + span - 1) : lines[i] \in Seq(X)
    BY <1>1
  <2>2. s \in Int /\ s + span - 1 \in Int
    OBVIOUS
  <2>. QED
    BY <2>1, <2>2, SubSeqProperties
<1> HIDE DEF matched
<1>4. d \in Nat
  BY <1>3, ShallowestTyped
<1> HIDE DEF d
<1>5. [k \in DOMAIN D |-> IF D[k] = <<>> THEN <<>> ELSE [i \in 1..d |-> "sp"] \o D[k]]
        = AtMargin(new, d)
  BY <1>4, IndentedIs
<1> HIDE DEF D
<1>6. Splice(lines, s, span, D)
        = SubSeq(lines, 1, s - 1)
            \o [k \in DOMAIN D |-> IF D[k] = <<>> THEN <<>> ELSE [i \in 1..d |-> "sp"] \o D[k]]
            \o SubSeq(lines, s + span, Len(lines))
  BY <1>2 DEF Splice, d, matched
<1>7. Splice(lines, s, span, D) = Exchange(lines, AtMargin(new, d), s, span)
  BY <1>5, <1>6 DEF Exchange
<1>. QED
  BY <1>4, <1>7 DEF d, matched, D

(* A set of numbers from the greatest to the least.                        *)
LEMMA Backwards ==
    ASSUME NEW N \in Nat, NEW S \in SUBSET (0..N)
    PROVE  /\ Cardinality(S) \in Nat
           /\ DOMAIN Reverse(InOrder(S)) = 1..Cardinality(S)
           /\ \A k \in 1..Cardinality(S) : Reverse(InOrder(S))[k] \in S
           /\ \A i, k \in 1..Cardinality(S) :
                i < k => Reverse(InOrder(S))[k] < Reverse(InOrder(S))[i]
           /\ \A x \in S : \E k \in 1..Cardinality(S) : x = Reverse(InOrder(S))[k]
<1> DEFINE n == Cardinality(S)
           c == InOrder(S)
           r == Reverse(c)
           rank(i) == Cardinality({m \in S : m < i})
<1>1. n \in Nat /\ Len(c) = n
  BY InOrderIn
<1>2. ASSUME NEW k \in 1..n
      PROVE  c[k] \in S /\ rank(c[k]) = k - 1
  <2>1. c[k] \in S
    BY InOrderIn
  <2>. QED
    BY <2>1, InOrderRises
<1>3. ASSUME NEW k \in 1..n, NEW j \in S
      PROVE  /\ j < c[k] => rank(j) < rank(c[k])
             /\ c[k] < j => rank(c[k]) < rank(j)
             /\ rank(j) + 1 \in 1..n
  BY InOrderRises
<1>4. \A j \in S : j \in Nat
  OBVIOUS
<1>5. r = [k \in 1..n |-> c[n - k + 1]]
  BY <1>1 DEF Reverse
<1>6. IsFiniteSet(S)
  <2>1. IsFiniteSet(0..N)
    BY FS_Interval
  <2>. QED
    BY <2>1, FS_Subset
<1>7. \A j \in S : rank(j) \in Nat
  <2> TAKE j \in S
  <2>1. {m \in S : m < j} \subseteq S
    OBVIOUS
  <2>. QED
    BY <1>6, <2>1, FS_Subset, FS_CardinalityType
<1>8. S # {} => 1 \in 1..n
  <2>1. S # {} => n # 0
    BY <1>6, FS_EmptySet
  <2> HIDE DEF n
  <2>. QED
    BY <1>1, <2>1
<1> HIDE DEF n, c, r, rank
<1>9. \A k \in 1..n : r[k] = c[n - k + 1] /\ n - k + 1 \in 1..n
  BY <1>1, <1>5
<1>10. ASSUME NEW i \in 1..n, NEW k \in 1..n, i < k
       PROVE  c[i] < c[k]
  <2>1. c[i] \in Nat /\ c[k] \in Nat /\ rank(c[i]) = i - 1 /\ rank(c[k]) = k - 1
    BY <1>2, <1>4
  <2>2. c[k] < c[i] => k - 1 < i - 1
    <3>1. c[k] < c[i] => rank(c[k]) < rank(c[i])
      BY <1>2, <1>3
    <3>. QED
      BY <2>1, <3>1
  <2>3. c[k] = c[i] => k - 1 = i - 1
    BY <2>1
  <2>4. c[k] < c[i] \/ c[k] = c[i] \/ c[i] < c[k]
    BY <2>1
  <2>. QED
    BY <1>1, <1>10, <2>2, <2>3, <2>4
<1>11. ASSUME NEW x \in S
       PROVE  \E k \in 1..n : x = c[k]
  <2>1. rank(x) + 1 \in 1..n /\ rank(x) \in Nat
    BY <1>3, <1>7, <1>8
  <2> DEFINE k == rank(x) + 1
  <2>2. k \in 1..n /\ k - 1 = rank(x)
    BY <2>1
  <2> HIDE DEF k
  <2>3. c[k] \in S /\ rank(c[k]) = rank(x)
    BY <1>2, <2>2
  <2>4. ~(c[k] < x) /\ ~(x < c[k])
    <3>1. (c[k] < x => rank(c[k]) < rank(x)) /\ (x < c[k] => rank(x) < rank(c[k]))
      BY <1>3, <2>2
    <3>2. ~(rank(x) < rank(x))
      BY <2>1
    <3>. QED
      BY <2>3, <3>1, <3>2
  <2>5. c[k] \in Nat /\ x \in Nat
    BY <1>4, <2>3
  <2>6. x = c[k]
    BY <2>4, <2>5
  <2>. QED
    BY <2>2, <2>6
<1>12. \A k \in 1..n : r[k] \in S
  BY <1>2, <1>9
<1>13. \A i, k \in 1..n : i < k => r[k] < r[i]
  <2> TAKE i, k \in 1..n
  <2> HAVE i < k
  <2>1. n - k + 1 < n - i + 1 /\ n - k + 1 \in 1..n /\ n - i + 1 \in 1..n
    BY <1>1
  <2>2. c[n - k + 1] < c[n - i + 1]
    BY <1>10, <2>1
  <2>. QED
    BY <1>9, <2>2
<1>14. \A x \in S : \E k \in 1..n : x = r[k]
  <2> TAKE x \in S
  <2>1. PICK k \in 1..n : x = c[k]
    BY <1>11
  <2>2. n - k + 1 \in 1..n /\ n - (n - k + 1) + 1 = k
    BY <1>1
  <2>3. x = r[n - k + 1]
    BY <1>9, <2>1, <2>2
  <2>. QED
    BY <2>2, <2>3
<1>15. DOMAIN r = 1..n
  BY <1>5
<1>. QED
  BY <1>1, <1>12, <1>13, <1>14, <1>15 DEF n, c, r

-----------------------------------------------------------------------------
(* The edit by whole lines.                                                *)

(* What a line is made of.                                                 *)
LineSymbol == Symbol \ {"nl"}

LEMMA LinesOfTheEdit ==
    ASSUME MatchInv
    PROVE  /\ FileLines \in Seq(Seq(LineSymbol)) /\ FileLines # <<>>
           /\ OldBlock \in Seq(Seq(LineSymbol)) /\ OldBlock # <<>>
           /\ NewBlock \in Seq(Seq(LineSymbol)) /\ NewBlock # <<>>
           /\ "sp" \in LineSymbol /\ "nl" \notin LineSymbol
<1>1. /\ normalized \in Seq(Symbol)
      /\ StripNumbers(args.old) \in Seq(Symbol) /\ StripNumbers(args.new) \in Seq(Symbol)
  BY StripNumbersTyped DEF MatchInv
<1>2. "sp" \in LineSymbol /\ "nl" \notin LineSymbol
  BY DEF LineSymbol, Symbol
<1>. QED
  BY <1>1, <1>2, LinesWithout, BlockWithout DEF FileLines, OldBlock, NewBlock, LineSymbol

(* What an accepted edit by lines makes of the file.                       *)
LEMMA EditByLines ==
    ASSUME MatchInv, Accepted, resolved.strategy = "lines"
    PROVE  resolved.text
             = Joined(SpliceAll(FileLines, Starts, Len(OldBlock), Dedented(NewBlock)))
<1> DEFINE bareOld == StripNumbers(args.old)
           bareNew == StripNumbers(args.new)
           found == ResolveReplacement(normalized, args.old, args.new, args.all)
           made == Joined(SpliceAll(FileLines, Starts, Len(OldBlock), Dedented(NewBlock)))
<1>1. resolved = found /\ found.kind = "matched"
  BY DEF MatchInv, Accepted, Decided, Waiting, Refused
<1>2. ASSUME NEW how, NEW part, NEW by, found = ApplyLiteral(how, normalized, part, by, args.all)
      PROVE  found.strategy = how
  BY <1>1, <1>2 DEF ApplyLiteral, Refused, Matched
<1>3. \/ found = ApplyLiteral("literal", normalized, args.old, args.new, args.all)
      \/ found = ApplyLiteral("unnumbered", normalized, bareOld, bareNew, args.all)
      \/ found = ApplyWhitespaceInsensitive(normalized, bareOld, bareNew, args.all)
  BY <1>1 DEF ResolveReplacement, Refused
<1>4. found = ApplyWhitespaceInsensitive(normalized, bareOld, bareNew, args.all)
  <2> HIDE DEF found
  <2>1. "literal" # "lines" /\ "unnumbered" # "lines"
    OBVIOUS
  <2>. QED
    BY <1>1, <1>2, <1>3, <2>1
<1>5. ApplyWhitespaceInsensitive(normalized, bareOld, bareNew, args.all)
        = IF Starts = {} THEN Refused("not_found")
          ELSE IF Cardinality(Starts) > 1 /\ ~args.all THEN Refused("ambiguous")
          ELSE Matched("lines", made)
  BY DEF ApplyWhitespaceInsensitive, Starts, FileLines, OldBlock, NewBlock
<1> HIDE DEF found, made
<1>6. found = Matched("lines", made)
  BY <1>1, <1>4, <1>5 DEF Refused
<1>. QED
  BY <1>1, <1>6 DEF Matched, made

(* A window lies in the file, and its lines are the block's up to spaces.  *)
LEMMA WindowIs ==
    ASSUME NEW X, NEW lines \in Seq(Seq(X)), NEW block \in Seq(Seq(X)), block # <<>>,
           NEW s \in Windows(lines, block)
    PROVE  /\ s \in 1..Len(lines) /\ Len(lines) \in Nat
           /\ Len(block) \in Nat /\ Len(block) # 0 /\ s + Len(block) <= Len(lines) + 1
           /\ SubSeq(StrippedAll(lines), s, s + Len(block) - 1) = StrippedAll(block)
<1>1. /\ Len(lines) \in Nat /\ DOMAIN lines = 1..Len(lines)
      /\ Len(block) \in Nat /\ Len(block) # 0 /\ DOMAIN block = 1..Len(block)
  BY LenProperties, EmptySeq
<1>2. Len(StrippedAll(lines)) = Len(lines) /\ Len(StrippedAll(block)) = Len(block)
  BY <1>1 DEF StrippedAll
<1>3. s \in DOMAIN lines /\ OccursAt(StrippedAll(lines), StrippedAll(block), s)
  BY DEF Windows
<1>. QED
  BY <1>1, <1>2, <1>3 DEF OccursAt

LEMMA StartsIn ==
    ASSUME MatchInv
    PROVE  Starts \in SUBSET (0..Len(FileLines)) /\ Len(FileLines) \in Nat
<1>1. FileLines \in Seq(Seq(LineSymbol))
  BY LinesOfTheEdit
<1>2. Len(FileLines) \in Nat /\ DOMAIN FileLines = 1..Len(FileLines)
  BY <1>1, LenProperties
<1>3. Starts \subseteq DOMAIN FileLines
  BY DEF Starts, Windows
<1>. QED
  BY <1>2, <1>3

(* A block that replaces another by lines lands at the margin of what it   *)
(* replaces and keeps its own nesting.                                     *)
THEOREM KeepsMargin == MatchSpec => []BlockKeepsMargin
<1>1. ASSUME MatchInv
      PROVE  BlockKeepsMargin
  <2> DEFINE start == CHOOSE i \in Starts : TRUE
             span == Len(OldBlock)
             before == SubSeq(FileLines, start, start + span - 1)
             after == SubSeq(Lines(resolved.text), start, start + Len(NewBlock) - 1)
             D == Dedented(NewBlock)
             Y == Seq(LineSymbol)
  <2>1. SUFFICES ASSUME Accepted, resolved.strategy = "lines", Cardinality(Starts) = 1,
                        Meaningful(OldBlock) # {}, Meaningful(NewBlock) # {}
                 PROVE  Shallowest(after) = Shallowest(before) /\ Dedented(after) = D
    BY DEF BlockKeepsMargin
  <2>2. /\ FileLines \in Seq(Y) /\ OldBlock \in Seq(Y) /\ OldBlock # <<>>
        /\ NewBlock \in Seq(Y) /\ NewBlock # <<>>
        /\ "sp" \in LineSymbol /\ "nl" \notin LineSymbol
    BY <1>1, LinesOfTheEdit
  <2>3. Starts = {start}
    <3>1. IsFiniteSet(0..Len(FileLines)) /\ Starts \subseteq 0..Len(FileLines)
      BY <1>1, StartsIn, FS_Interval
    <3>2. IsFiniteSet(Starts)
      BY <3>1, FS_Subset
    <3>3. PICK s : Starts = {s}
      BY <2>1, <3>2, FS_Singleton
    <3>4. start \in Starts
      BY <3>3
    <3> HIDE DEF start
    <3>. QED
      BY <3>3, <3>4
  <2> HIDE DEF start, Y
  <2>4. /\ start \in 1..Len(FileLines) /\ Len(FileLines) \in Nat
        /\ span \in Nat /\ span # 0 /\ start + span <= Len(FileLines) + 1
    <3>1. start \in Windows(FileLines, OldBlock)
      BY <2>3 DEF Starts
    <3>. QED
      BY <2>2, <3>1, WindowIs DEF Y
  <2> HIDE DEF span, before, after, D
  <2>5. SpliceAll(FileLines, Starts, span, D) = Splice(FileLines, start, span, D)
    <3> DEFINE seq == Reverse(InOrder(Starts))
    <3>1. DOMAIN seq = 1..1 /\ seq[1] = start
      <4>1. /\ DOMAIN seq = 1..Cardinality(Starts)
            /\ \A k \in 1..Cardinality(Starts) : seq[k] \in Starts
        <5> HIDE DEF seq
        <5>. QED
          BY <1>1, StartsIn, Backwards DEF seq
      <4> HIDE DEF seq
      <4>2. 1 \in 1..1
        OBVIOUS
      <4>. QED
        BY <2>1, <2>3, <4>1, <4>2
    <3>2. PICK g : Stages(FileLines, Starts, span, D, g, 1)
      BY <3>1, StagesExist
    <3>3. 1 \in 1..1 /\ 1 - 1 = 0
      OBVIOUS
    <3> HIDE DEF seq
    <3>. QED
      BY <3>1, <3>2, <3>3 DEF Stages, seq
  <2> DEFINE d == Shallowest(before)
             block == AtMargin(NewBlock, d)
             made == Exchange(FileLines, block, start, span)
  <2>6. d \in Nat /\ Splice(FileLines, start, span, D) = made
    BY <2>2, <2>4, SpliceIs DEF before, D, Y
  <2> HIDE DEF d
  <2>7. /\ block \in Seq(Y) /\ Len(block) = Len(NewBlock)
        /\ Shallowest(block) = d /\ Dedented(block) = D
    BY <2>1, <2>2, <2>6, AtMarginIs DEF Y, D
  <2> HIDE DEF block
  <2>8. /\ made \in Seq(Y) /\ Len(made) = (Len(FileLines) - span) + Len(block)
        /\ SubSeq(made, start, start + Len(block) - 1) = block
    <3>0. FileLines \in Seq(Y) /\ block \in Seq(Y)
      BY <2>2, <2>7
    <3>1. Exchanging(Y, FileLines, block, start, span, made)
      BY <2>4, <3>0, Exchanged
    <3>2. made \in Seq(Y) /\ Len(made) = (Len(FileLines) - span) + Len(block)
      BY <3>1 DEF Exchanging
    <3>3. SubSeq(made, start, start + Len(block) - 1) = block
      BY <2>4, <3>0, Exchanged
    <3>. QED
      BY <3>2, <3>3, Zenon
  <2> HIDE DEF made
  <2>9. Lines(resolved.text) = made
    <3>1. resolved.text = Joined(made)
      BY <1>1, <2>1, <2>5, <2>6, EditByLines DEF span, D
    <3>2. Len(made) # 0
      <4>1. Len(NewBlock) \in Nat /\ Len(NewBlock) # 0
        BY <2>2, LenProperties, EmptySeq
      <4>. QED
        BY <2>4, <2>7, <2>8, <4>1
    <3>3. made # <<>>
      BY <3>2
    <3>. QED
      BY <2>2, <2>8, <3>1, <3>3, LinesOfJoined DEF Y
  <2>10. after = block
    BY <2>7, <2>8, <2>9 DEF after
  <2>. QED
    BY <2>7, <2>10 DEF d
<1>. QED
  BY <1>1, MatchInvHolds, PTL

-----------------------------------------------------------------------------
(* Windows replaced from the last to the first are all replaced.           *)

(* What tells an exchange from other sequences.                            *)
LEMMA ExchangeIs ==
    ASSUME NEW X, NEW w \in Seq(X), NEW by \in Seq(X), NEW s \in 1..Len(w),
           NEW span \in Nat, s + span <= Len(w) + 1,
           NEW r, Exchanging(X, w, by, s, span, r)
    PROVE  r = Exchange(w, by, s, span)
<1> DEFINE e == Exchange(w, by, s, span)
           n == Len(w)
           l == Len(by)
<1> HIDE DEF e, n, l
<1>1. Exchanging(X, w, by, s, span, e)
  BY Exchanged DEF e
<1>2. /\ e \in Seq(X) /\ Len(e) = (n - span) + l
      /\ \A i \in 1..(s - 1) : e[i] = w[i]
      /\ \A i \in 1..l : e[(s - 1) + i] = by[i]
      /\ \A i \in (s + span)..n : e[(i - span) + l] = w[i]
  BY <1>1 DEF Exchanging, n, l
<1>3. /\ r \in Seq(X) /\ Len(r) = (n - span) + l
      /\ \A i \in 1..(s - 1) : r[i] = w[i]
      /\ \A i \in 1..l : r[(s - 1) + i] = by[i]
      /\ \A i \in (s + span)..n : r[(i - span) + l] = w[i]
  BY DEF Exchanging, n, l
<1>4. n \in Nat /\ l \in Nat /\ s \in 1..n /\ s + span <= n + 1
  BY LenProperties DEF n, l
<1>5. ASSUME NEW i \in 1..Len(r)
      PROVE  r[i] = e[i]
  <2>1. i \in 1..((n - span) + l)
    BY <1>3
  <2>2. CASE i <= s - 1
    <3>1. i \in 1..(s - 1)
      BY <2>1, <2>2
    <3>. QED
      BY <1>2, <1>3, <3>1
  <2>3. CASE i > s - 1 /\ i <= (s - 1) + l
    <3> DEFINE j == i - (s - 1)
    <3>1. j \in 1..l /\ (s - 1) + j = i
      BY <1>4, <2>1, <2>3
    <3> HIDE DEF j
    <3>2. r[(s - 1) + j] = by[j] /\ e[(s - 1) + j] = by[j]
      BY <1>2, <1>3, <3>1
    <3>. QED
      BY <3>1, <3>2
  <2>4. CASE i > (s - 1) + l
    <3> DEFINE j == (i - l) + span
    <3>1. j \in (s + span)..n /\ (j - span) + l = i
      BY <1>4, <2>1, <2>4
    <3> HIDE DEF j
    <3>2. r[(j - span) + l] = w[j] /\ e[(j - span) + l] = w[j]
      BY <1>2, <1>3, <3>1
    <3>. QED
      BY <3>1, <3>2
  <2>. QED
    BY <1>4, <2>2, <2>3, <2>4
<1>6. Len(r) = Len(e)
  BY <1>2, <1>3
<1>7. r = e
  BY <1>2, <1>3, <1>5, <1>6, SeqEqual
<1>. QED
  BY <1>7 DEF e

(* What follows the stretch stays where it is.                             *)
Followed(w, p) == w \o p

LEMMA ExchangeBefore ==
    ASSUME NEW X, NEW w \in Seq(X), NEW by \in Seq(X), NEW s \in 1..Len(w),
           NEW span \in Nat, s + span <= Len(w) + 1, NEW p \in Seq(X),
           NEW e, Exchanging(X, w, by, s, span, e)
    PROVE  Followed(e, p) = Exchange(Followed(w, p), by, s, span)
<1> DEFINE n == Len(w)
           l == Len(by)
           m == Len(p)
           v == w \o p
           r == e \o p
<1> HIDE DEF n, l, m
<1>2. /\ e \in Seq(X) /\ Len(e) = (n - span) + l
      /\ \A i \in 1..(s - 1) : e[i] = w[i]
      /\ \A i \in 1..l : e[(s - 1) + i] = by[i]
      /\ \A i \in (s + span)..n : e[(i - span) + l] = w[i]
  BY DEF Exchanging, n, l
<1>3. n \in Nat /\ l \in Nat /\ m \in Nat /\ s \in 1..n /\ s + span <= n + 1
  BY LenProperties DEF n, l, m
<1>4. v \in Seq(X) /\ Len(v) = n + m
      /\ \A i \in 1..(n + m) : v[i] = IF i <= n THEN w[i] ELSE p[i - n]
  BY ConcatProperties DEF n, m
<1>5. r \in Seq(X) /\ Len(r) = Len(e) + m
      /\ \A i \in 1..(Len(e) + m) : r[i] = IF i <= Len(e) THEN e[i] ELSE p[i - Len(e)]
  <2>1. e \in Seq(X)
    BY <1>2
  <2>. QED
    BY <2>1, ConcatProperties DEF m
<1> HIDE DEF v, r
<1> DEFINE k == (n - span) + l
<1>6. r \in Seq(X) /\ Len(r) = k + m
      /\ \A i \in 1..(k + m) : r[i] = IF i <= k THEN e[i] ELSE p[i - k]
  <2> HIDE DEF k
  <2>. QED
    BY <1>2, <1>5 DEF k
<1>7. k \in Nat /\ k >= s - 1 /\ k >= (s - 1) + l
  BY <1>3
<1> HIDE DEF k
<1>8. Len(r) = (Len(v) - span) + l
  BY <1>3, <1>4, <1>6 DEF k
<1>9. \A i \in 1..(s - 1) : r[i] = v[i]
  <2> TAKE i \in 1..(s - 1)
  <2>1. i \in 1..(k + m) /\ i <= k /\ i \in 1..(n + m) /\ i <= n
    BY <1>3, <1>7
  <2>. QED
    BY <1>2, <1>4, <1>6, <2>1
<1>10. \A i \in 1..l : r[(s - 1) + i] = by[i]
  <2> TAKE i \in 1..l
  <2>1. (s - 1) + i \in 1..(k + m) /\ (s - 1) + i <= k
    BY <1>3, <1>7
  <2>. QED
    BY <1>2, <1>6, <2>1
<1>11. \A i \in (s + span)..Len(v) : r[(i - span) + l] = v[i]
  <2> TAKE i \in (s + span)..Len(v)
  <2> DEFINE j == (i - span) + l
  <2>1. i \in 1..(n + m) /\ i >= s + span
    BY <1>3, <1>4
  <2>2. j \in 1..(k + m) /\ (j <= k <=> i <= n) /\ j - k = i - n
    BY <1>3, <2>1 DEF k
  <2>3. CASE i <= n
    <3>1. i \in (s + span)..n
      BY <1>3, <2>1, <2>3
    <3>2. e[j] = w[i]
      BY <1>2, <3>1
    <3> HIDE DEF j
    <3>. QED
      BY <1>4, <1>6, <2>1, <2>2, <2>3, <3>2 DEF j
  <2>4. CASE ~(i <= n)
    <3>1. v[i] = p[i - n]
      BY <1>4, <2>1, <2>4
    <3>2. r[j] = p[j - k]
      <4> HIDE DEF j
      <4>. QED
        BY <1>6, <2>2, <2>4
    <3> HIDE DEF j
    <3>. QED
      BY <2>2, <3>1, <3>2 DEF j
  <2>. QED
    BY <2>3, <2>4
<1>12. s \in 1..Len(v) /\ s + span <= Len(v) + 1
  BY <1>3, <1>4
<1>13. Exchanging(X, v, by, s, span, r)
  BY <1>6, <1>8, <1>9, <1>10, <1>11 DEF Exchanging, l
<1>14. r = Exchange(v, by, s, span)
  BY <1>4, <1>12, <1>13, ExchangeIs
<1>. QED
  BY <1>14 DEF r, v, Followed

LEMMA StrippedTyped ==
    ASSUME NEW X, NEW line \in Seq(X)
    PROVE  Stripped(line) \in Seq(X)
<1>1. Len(line) \in Nat /\ DOMAIN line = 1..Len(line) /\ \A i \in 1..Len(line) : line[i] \in X
  BY LenProperties, ElementOfSeq
<1>2. CASE Ink(line) = {}
  <2>1. Stripped(line) = <<>>
    BY <1>2 DEF Stripped
  <2>. QED
    BY <2>1, EmptySeq
<1>3. CASE Ink(line) # {}
  <2>1. Ink(line) \in SUBSET (1..Len(line)) /\ Ink(line) \in SUBSET Nat
    BY <1>1 DEF Ink
  <2>2. PICK a \in Ink(line) : \A i \in Ink(line) : a <= i
    BY <1>3, <2>1, Least
  <2>3. PICK b \in Ink(line) : \A i \in Ink(line) : i <= b
    <3>1. Ink(line) \in SUBSET (0..Len(line))
      BY <2>1
    <3>. QED
      BY <1>1, <1>3, <3>1, Greatest
  <2>4. Min(Ink(line)) = a /\ Max(Ink(line)) = b
    BY <2>1, <2>2, <2>3, MinIs, GreatestIs
  <2>5. Stripped(line) = SubSeq(line, a, b)
    BY <1>3, <2>4 DEF Stripped
  <2>6. a \in 1..Len(line) /\ b \in 1..Len(line)
    BY <2>1
  <2>7. \A i \in a..b : line[i] \in X
    BY <1>1, <2>6
  <2>8. a \in Int /\ b \in Int
    BY <2>6
  <2>. QED
    BY <2>5, <2>7, <2>8, SubSeqProperties
<1>. QED
  BY <1>2, <1>3

LEMMA StrippedAllTyped ==
    ASSUME NEW X, NEW lines \in Seq(Seq(X))
    PROVE  /\ StrippedAll(lines) \in Seq(Seq(X))
           /\ Len(StrippedAll(lines)) = Len(lines)
           /\ \A k \in 1..Len(lines) : StrippedAll(lines)[k] = Stripped(lines[k])
<1> DEFINE n == Len(lines)
           r == StrippedAll(lines)
<1>1. n \in Nat /\ DOMAIN lines = 1..n /\ \A k \in 1..n : lines[k] \in Seq(X)
  BY LenProperties, ElementOfSeq
<1>2. r = [k \in 1..n |-> Stripped(lines[k])]
  BY <1>1 DEF StrippedAll
<1>3. \A k \in 1..n : Stripped(lines[k]) \in Seq(X)
  BY <1>1, StrippedTyped
<1>4. r \in [1..n -> Seq(X)]
  BY <1>2, <1>3
<1>5. DOMAIN r = 1..n /\ \A k \in 1..n : r[k] = Stripped(lines[k])
  BY <1>2
<1> HIDE DEF n, r
<1>6. r \in Seq(Seq(X))
  BY <1>1, <1>4, SeqDef
<1>7. Len(r) = n
  BY <1>1, <1>5
<1>. QED
  BY <1>5, <1>6, <1>7 DEF n, r

LEMMA StrippedExchange ==
    ASSUME NEW X, NEW w \in Seq(Seq(X)), NEW by \in Seq(Seq(X)), NEW s \in 1..Len(w),
           NEW span \in Nat, s + span <= Len(w) + 1
    PROVE  StrippedAll(Exchange(w, by, s, span))
             = Exchange(StrippedAll(w), StrippedAll(by), s, span)
<1> DEFINE e == Exchange(w, by, s, span)
           n == Len(w)
           l == Len(by)
           v == StrippedAll(w)
           b == StrippedAll(by)
           r == StrippedAll(e)
           Y == Seq(X)
<1> HIDE DEF e, n, l, v, b, r, Y
<1>1. Exchanging(Y, w, by, s, span, e)
  BY Exchanged DEF e, Y
<1>2. /\ e \in Seq(Y) /\ Len(e) = (n - span) + l
      /\ \A i \in 1..(s - 1) : e[i] = w[i]
      /\ \A i \in 1..l : e[(s - 1) + i] = by[i]
      /\ \A i \in (s + span)..n : e[(i - span) + l] = w[i]
  BY <1>1 DEF Exchanging, n, l
<1>3. n \in Nat /\ l \in Nat /\ s \in 1..n /\ s + span <= n + 1
  BY LenProperties DEF n, l
<1>4. v \in Seq(Y) /\ Len(v) = n /\ \A i \in 1..n : v[i] = Stripped(w[i])
  BY StrippedAllTyped DEF v, n, Y
<1>5. b \in Seq(Y) /\ Len(b) = l /\ \A i \in 1..l : b[i] = Stripped(by[i])
  BY StrippedAllTyped DEF b, l, Y
<1>6. r \in Seq(Y) /\ Len(r) = (n - span) + l /\ \A i \in 1..((n - span) + l) : r[i] = Stripped(e[i])
  <2>1. e \in Seq(Seq(X))
    BY <1>2 DEF Y
  <2>2. r \in Seq(Y) /\ Len(r) = Len(e) /\ \A i \in 1..Len(e) : r[i] = Stripped(e[i])
    BY <2>1, StrippedAllTyped DEF r, Y
  <2>. QED
    BY <1>2, <2>2
<1>7. \A i \in 1..(s - 1) : r[i] = v[i]
  <2> TAKE i \in 1..(s - 1)
  <2>1. i \in 1..((n - span) + l) /\ i \in 1..n
    BY <1>3
  <2>. QED
    BY <1>2, <1>4, <1>6, <2>1
<1>8. \A i \in 1..l : r[(s - 1) + i] = b[i]
  <2> TAKE i \in 1..l
  <2>1. (s - 1) + i \in 1..((n - span) + l)
    BY <1>3
  <2>. QED
    BY <1>2, <1>5, <1>6, <2>1
<1>9. \A i \in (s + span)..n : r[(i - span) + l] = v[i]
  <2> TAKE i \in (s + span)..n
  <2> DEFINE j == (i - span) + l
  <2>1. j \in 1..((n - span) + l) /\ i \in 1..n
    BY <1>3
  <2>2. e[j] = w[i]
    BY <1>2
  <2> HIDE DEF j
  <2>3. r[j] = v[i]
    BY <1>4, <1>6, <2>1, <2>2
  <2>. QED
    BY <2>3 DEF j
<1>10. Exchanging(Y, v, b, s, span, r)
  BY <1>4, <1>5, <1>6, <1>7, <1>8, <1>9 DEF Exchanging
<1>11. s \in 1..Len(v) /\ s + span <= Len(v) + 1
  BY <1>3, <1>4
<1>12. r = Exchange(v, b, s, span)
  BY <1>4, <1>5, <1>10, <1>11, ExchangeIs
<1>. QED
  BY <1>12 DEF r, v, b, e

(* What Replaced puts at the i-th place.                                   *)
Piece(whole, part, by, places, i) ==
    (IF i \in places THEN by ELSE <<>>)
      \o (IF i > Len(whole) \/ \E p \in places : p <= i /\ i < p + Len(part)
          THEN <<>> ELSE <<whole[i]>>)

(* How far Replaced has come.                                              *)
Pieced(X, whole, part, by, places, f) ==
    /\ f[0] = <<>> /\ f[Len(whole) + 1] = Replaced(whole, part, by, places)
    /\ \A i \in 1..(Len(whole) + 1) : f[i] = f[i - 1] \o Piece(whole, part, by, places, i)
    /\ \A i \in 1..(Len(whole) + 1) : Piece(whole, part, by, places, i) \in Seq(X)
    /\ \A i \in 0..(Len(whole) + 1) : f[i] \in Seq(X)

LEMMA PieceTyped ==
    ASSUME NEW X, NEW whole \in Seq(X), NEW part, NEW by \in Seq(X), NEW places,
           NEW i \in 1..(Len(whole) + 1)
    PROVE  Piece(whole, part, by, places, i) \in Seq(X)
<1> DEFINE cut == i > Len(whole) \/ \E p \in places : p <= i /\ i < p + Len(part)
           u == IF i \in places THEN by ELSE <<>>
           v == IF cut THEN <<>> ELSE <<whole[i]>>
<1>1. <<>> \in Seq(X)
  BY EmptySeq
<1>2. u \in Seq(X)
  BY <1>1
<1>3. v \in Seq(X)
  <2>1. CASE cut
    BY <1>1, <2>1
  <2>2. CASE ~cut
    <3>1. i \in 1..Len(whole)
      <4>1. Len(whole) \in Nat /\ ~(i > Len(whole))
        BY <2>2, LenProperties
      <4>. QED
        BY <4>1
    <3>2. whole[i] \in X
      BY <3>1, ElementOfSeq
    <3>3. <<whole[i]>> \in Seq(X)
      BY <3>2
    <3> HIDE DEF cut
    <3>. QED
      BY <2>2, <3>3
  <2>. QED
    BY <2>1, <2>2
<1>4. Piece(whole, part, by, places, i) = u \o v
  BY DEF Piece
<1> HIDE DEF u, v
<1>. QED
  BY <1>2, <1>3, <1>4, ConcatProperties

LEMMA PiecedExists ==
    ASSUME NEW X, NEW whole \in Seq(X), NEW part, NEW by \in Seq(X), NEW places
    PROVE  \E f : Pieced(X, whole, part, by, places, f)
<1> DEFINE n == Len(whole) + 1
           piece(i) == Piece(whole, part, by, places, i)
           ss == [i \in 1..n |-> piece(i)]
<1>1. n \in Nat /\ n >= 1
  BY LenProperties
<1>2. \A i \in 1..n : piece(i) \in Seq(X)
  BY PieceTyped
<1>3. Replaced(whole, part, by, places) = FlattenSeq(ss)
  BY DEF Replaced, Piece
<1> HIDE DEF piece
<1>4. DOMAIN ss = 1..n /\ \A i \in 1..n : ss[i] = piece(i)
  OBVIOUS
<1> HIDE DEF ss, n
<1>5. Len(ss) = n
  BY <1>1, <1>4
<1>6. PICK f : /\ FlattenSeq(ss) = f[n]
               /\ \A i \in 1..n : f[i] = IF i = 1 THEN ss[i] ELSE f[i - 1] \o ss[i]
  <2>1. Len(ss) \in Nat /\ Len(ss) # 0
    BY <1>1, <1>5
  <2>2. PICK f : /\ FlattenSeq(ss) = f[Len(ss)]
                 /\ \A i \in 1..Len(ss) : f[i] = IF i = 1 THEN ss[i] ELSE f[i - 1] \o ss[i]
    BY <2>1, FlattenSteps
  <2>. QED
    BY <1>5, <2>2
<1> DEFINE g == [i \in 0..n |-> IF i = 0 THEN <<>> ELSE f[i]]
<1>7. g[0] = <<>> /\ g[n] = Replaced(whole, part, by, places)
  BY <1>1, <1>3, <1>6
<1>8. \A i \in 1..n : g[i] = f[i]
  BY <1>1
<1> HIDE DEF g
<1>9. ASSUME NEW i \in 1..n
      PROVE  g[i] = g[i - 1] \o piece(i)
  <2>1. CASE i = 1
    <3>1. f[1] = piece(1)
      BY <1>4, <1>6, <1>1
    <3>2. <<>> \o piece(1) = piece(1)
      BY <1>1, <1>2, ConcatEmptySeq
    <3>3. g[1] = g[0] \o piece(1)
      BY <1>1, <1>7, <1>8, <3>1, <3>2
    <3>. QED
      BY <2>1, <3>3
  <2>2. CASE i # 1
    <3>1. i - 1 \in 1..n
      BY <1>1, <2>2
    <3>2. f[i] = f[i - 1] \o piece(i)
      BY <1>4, <1>6, <2>2
    <3>. QED
      BY <1>8, <3>1, <3>2
  <2>. QED
    BY <2>1, <2>2
<1>10. \A i \in 0..n : g[i] \in Seq(X)
  <2> DEFINE S == {i \in Nat : i \in 0..n => g[i] \in Seq(X)}
  <2>1. 0 \in S
    BY <1>7, EmptySeq
  <2>2. ASSUME NEW i \in Nat, i \in S
        PROVE  i + 1 \in S
    <3> SUFFICES ASSUME i + 1 \in 0..n
                 PROVE  g[i + 1] \in Seq(X)
      OBVIOUS
    <3>1. i + 1 \in 1..n /\ (i + 1) - 1 = i /\ i \in 0..n
      BY <1>1
    <3>2. g[i] \in Seq(X) /\ piece(i + 1) \in Seq(X) /\ g[i + 1] = g[i] \o piece(i + 1)
      BY <1>2, <1>9, <2>2, <3>1
    <3>. QED
      BY <3>2, ConcatProperties
  <2>3. Nat \subseteq S
    <3> HIDE DEF S
    <3>. QED
      BY <2>1, <2>2, AllNumbers
  <2>. QED
    BY <1>1, <2>3
<1>11. Pieced(X, whole, part, by, places, g)
  BY <1>2, <1>7, <1>9, <1>10 DEF Pieced, n, piece
<1>. QED
  BY <1>11

(* Before the first place Replaced has copied what was there.              *)
LEMMA PiecedBefore ==
    ASSUME NEW X, NEW whole \in Seq(X), NEW part, Len(part) \in Nat,
           NEW by \in Seq(X), NEW places, NEW f, Pieced(X, whole, part, by, places, f),
           NEW a \in 0..Len(whole), \A p \in places : p \in Nat /\ a < p
    PROVE  f[a] = SubSeq(whole, 1, a)
<1> DEFINE n == Len(whole)
           piece(i) == Piece(whole, part, by, places, i)
           S == {i \in Nat : i \in 0..a => f[i] = SubSeq(whole, 1, i)}
<1>1. n \in Nat /\ a \in 0..n /\ \A i \in 1..n : whole[i] \in X
  BY LenProperties, ElementOfSeq
<1>2. /\ f[0] = <<>> /\ \A i \in 1..(n + 1) : f[i] = f[i - 1] \o piece(i)
  BY DEF Pieced
<1>3. ASSUME NEW i \in 1..a
      PROVE  piece(i) = <<whole[i]>>
  <2>1. i \in 1..n /\ \A p \in places : ~(p <= i)
    BY <1>1
  <2>2. i \notin places
    BY <2>1
  <2>3. ~(i > n)
    BY <1>1, <2>1
  <2>4. piece(i) = <<>> \o <<whole[i]>>
    BY <2>1, <2>2, <2>3 DEF Piece
  <2>5. <<whole[i]>> \in Seq(X)
    BY <1>1, <2>1
  <2>. QED
    BY <2>4, <2>5, ConcatEmptySeq
<1> HIDE DEF piece
<1>4. 0 \in S
  <2>1. SubSeq(whole, 1, 0) = <<>>
    BY SubSeqEmpty
  <2>. QED
    BY <1>2, <2>1
<1>5. ASSUME NEW i \in Nat, i \in S
      PROVE  i + 1 \in S
  <2> SUFFICES ASSUME i + 1 \in 0..a
               PROVE  f[i + 1] = SubSeq(whole, 1, i + 1)
    OBVIOUS
  <2>1. /\ i \in 0..a /\ i + 1 \in 1..(n + 1) /\ (i + 1) - 1 = i /\ i + 1 \in 1..a
        /\ 1 \in 1..(n + 1) /\ i \in (1 - 1)..(n - 1)
    BY <1>1
  <2>2. f[i] = SubSeq(whole, 1, i)
    BY <1>5, <2>1
  <2>3. f[i + 1] = f[i] \o <<whole[i + 1]>>
    BY <1>2, <1>3, <2>1
  <2>4. SubSeq(whole, 1, i) \o <<whole[i + 1]>> = SubSeq(whole, 1, i + 1)
    BY <2>1, OneMore
  <2>. QED
    BY <2>2, <2>3, <2>4
<1>6. Nat \subseteq S
  <2> HIDE DEF S
  <2>. QED
    BY <1>4, <1>5, AllNumbers
<1>. QED
  BY <1>1, <1>6

(* Where nothing is replaced the text stays.                               *)
LEMMA ReplacedNone ==
    ASSUME NEW X, NEW whole \in Seq(X), NEW part, Len(part) \in Nat, NEW by \in Seq(X)
    PROVE  Replaced(whole, part, by, {}) = whole
<1> DEFINE n == Len(whole)
<1>1. PICK f : Pieced(X, whole, part, by, {}, f)
  BY PiecedExists
<1>2. n \in Nat
  BY LenProperties
<1>3. f[n] = whole
  <2>1. n \in 0..Len(whole)
    BY <1>2
  <2> DEFINE none == {}
  <2>2. \A p \in none : p \in Nat /\ n < p
    OBVIOUS
  <2>3. Pieced(X, whole, part, by, none, f)
    BY <1>1
  <2> HIDE DEF none, n
  <2>4. f[n] = SubSeq(whole, 1, n)
    BY <2>1, <2>2, <2>3, PiecedBefore
  <2>. QED
    BY <2>4, SubSeqFull DEF n
<1>4. f[n + 1] = f[n] \o Piece(whole, part, by, {}, n + 1)
  <2>1. n + 1 \in 1..(n + 1) /\ (n + 1) - 1 = n
    BY <1>2
  <2>. QED
    BY <1>1, <2>1 DEF Pieced
<1>5. Piece(whole, part, by, {}, n + 1) = <<>> \o <<>>
  <2>1. n + 1 > n
    BY <1>2
  <2>. QED
    BY <2>1 DEF Piece
<1>6. <<>> \o <<>> = <<>> /\ whole \o <<>> = whole
  BY EmptySeq, ConcatEmptySeq
<1>. QED
  BY <1>1, <1>3, <1>4, <1>5, <1>6 DEF Pieced

(* One more place, before the others: what stands there is exchanged.      *)
LEMMA ReplacedMore ==
    ASSUME NEW X, NEW whole \in Seq(X), NEW part, Len(part) \in Nat, Len(part) # 0,
           NEW by \in Seq(X), NEW places, NEW a \in 1..Len(whole),
           a + Len(part) <= Len(whole) + 1,
           \A p \in places : p \in Nat /\ a + Len(part) <= p
    PROVE  Replaced(whole, part, by, places \cup {a})
             = Exchange(Replaced(whole, part, by, places), by, a, Len(part))
<1> DEFINE n == Len(whole)
           L == Len(part)
           m == (a + L) - 1
           more == places \cup {a}
           pre == SubSeq(whole, 1, a - 1)
<1>1. /\ n \in Nat /\ L \in Nat /\ L # 0 /\ a \in 1..n /\ m \in a..n /\ m + 1 = a + L
      /\ \A i \in 1..n : whole[i] \in X
  <2>1. n \in Nat /\ \A i \in 1..n : whole[i] \in X
    BY LenProperties, ElementOfSeq
  <2>. QED
    BY <2>1
<1>2. PICK f : Pieced(X, whole, part, by, places, f)
  BY PiecedExists
<1>3. PICK h : Pieced(X, whole, part, by, more, h)
  BY PiecedExists
<1>4. /\ f[n + 1] = Replaced(whole, part, by, places)
      /\ \A i \in 1..(n + 1) : f[i] = f[i - 1] \o Piece(whole, part, by, places, i)
      /\ \A i \in 1..(n + 1) : Piece(whole, part, by, places, i) \in Seq(X)
      /\ \A i \in 0..(n + 1) : f[i] \in Seq(X)
  BY <1>2 DEF Pieced
<1>5. /\ h[n + 1] = Replaced(whole, part, by, more)
      /\ \A i \in 1..(n + 1) : h[i] = h[i - 1] \o Piece(whole, part, by, more, i)
      /\ \A i \in 0..(n + 1) : h[i] \in Seq(X)
  BY <1>3 DEF Pieced
<1>6. \A p \in places : p \in Nat /\ m < p
  BY <1>1
<1>7. f[m] = SubSeq(whole, 1, m)
  <2>1. m \in 0..Len(whole)
    BY <1>1
  <2> HIDE DEF m
  <2>. QED
    BY <1>2, <1>6, <2>1, PiecedBefore
<1>8. h[a - 1] = pre
  <2> DEFINE b == a - 1
  <2>1. b \in 0..Len(whole) /\ \A p \in more : p \in Nat /\ b < p
    BY <1>1
  <2> HIDE DEF b, more
  <2>2. h[b] = SubSeq(whole, 1, b)
    BY <1>3, <2>1, PiecedBefore
  <2>. QED
    BY <2>2 DEF b
<1>9. pre \in Seq(X) /\ Len(pre) = a - 1 /\ \A i \in 1..(a - 1) : pre[i] = whole[i]
  <2>1. \A i \in 1..(a - 1) : whole[i] \in X
    BY <1>1
  <2>2. a - 1 \in Int /\ (a - 1) - 1 + 1 = a - 1 /\ (~(1 <= a - 1) => a - 1 = 0)
    BY <1>1
  <2>3. /\ pre \in Seq(X) /\ Len(pre) = IF 1 <= a - 1 THEN (a - 1) - 1 + 1 ELSE 0
        /\ \A i \in 1..((a - 1) - 1 + 1) : pre[i] = whole[1 + i - 1]
    BY <2>1, <2>2, SubSeqProperties
  <2> HIDE DEF pre
  <2>4. \A i \in 1..(a - 1) : 1 + i - 1 = i
    BY <1>1
  <2>. QED
    BY <2>2, <2>3, <2>4
<1>10. f[m] \in Seq(X) /\ Len(f[m]) = m /\ \A i \in 1..m : f[m][i] = whole[i]
  <2>1. \A i \in 1..m : whole[i] \in X
    BY <1>1
  <2>2. m \in Int /\ m - 1 + 1 = m /\ 1 <= m
    BY <1>1
  <2> HIDE DEF m
  <2>3. /\ f[m] \in Seq(X) /\ Len(f[m]) = IF 1 <= m THEN m - 1 + 1 ELSE 0
        /\ \A i \in 1..(m - 1 + 1) : f[m][i] = whole[1 + i - 1]
    BY <1>7, <2>1, <2>2, SubSeqProperties
  <2>4. \A i \in 1..m : 1 + i - 1 = i
    BY <2>2
  <2>. QED
    BY <2>2, <2>3, <2>4
<1> HIDE DEF pre, m
<1>11. <<>> \o <<>> = <<>> /\ by \o <<>> = by
  BY EmptySeq, ConcatEmptySeq
<1>12. Piece(whole, part, by, more, a) = by
  <2>1. a \in more /\ a <= a /\ a < a + Len(part)
    BY <1>1
  <2>2. \E p \in more : p <= a /\ a < p + Len(part)
    BY <2>1
  <2> HIDE DEF more
  <2>3. Piece(whole, part, by, more, a) = by \o <<>>
    BY <2>1, <2>2 DEF Piece
  <2>. QED
    BY <1>11, <2>3
<1>13. ASSUME NEW i \in (a + 1)..m
       PROVE  Piece(whole, part, by, more, i) = <<>>
  <2>1. /\ i \notin more
        /\ a \in more /\ a <= i /\ i < a + Len(part)
    BY <1>1, <1>6
  <2>2. \E p \in more : p <= i /\ i < p + Len(part)
    BY <2>1
  <2> HIDE DEF more
  <2>3. Piece(whole, part, by, more, i) = <<>> \o <<>>
    BY <2>1, <2>2 DEF Piece
  <2>. QED
    BY <1>11, <2>3
<1>14. ASSUME NEW i \in (m + 1)..(n + 1)
       PROVE  Piece(whole, part, by, more, i) = Piece(whole, part, by, places, i)
  <2>1. i \in more <=> i \in places
    BY <1>1
  <2>2. ~(i < a + Len(part))
    BY <1>1
  <2>3. (\E p \in more : p <= i /\ i < p + Len(part))
          <=> (\E p \in places : p <= i /\ i < p + Len(part))
    BY <2>2
  <2> HIDE DEF more
  <2>. QED
    BY <2>1, <2>3 DEF Piece
<1> HIDE DEF more
<1> DEFINE r == pre \o by
<1>15. /\ r \in Seq(X) /\ Len(r) = (a - 1) + Len(by)
       /\ \A i \in 1..((a - 1) + Len(by)) : r[i] = IF i <= a - 1 THEN pre[i] ELSE by[i - (a - 1)]
  <2>1. /\ r \in Seq(X) /\ Len(r) = Len(pre) + Len(by)
        /\ \A i \in 1..(Len(pre) + Len(by)) : r[i] = IF i <= Len(pre) THEN pre[i] ELSE by[i - Len(pre)]
    BY <1>9, ConcatProperties
  <2> HIDE DEF r
  <2>. QED
    BY <1>9, <2>1
<1>16. h[a] = r
  <2>1. a \in 1..(n + 1)
    BY <1>1
  <2>. QED
    BY <1>5, <1>8, <1>12, <2>1
<1> HIDE DEF r
<1>17. h[m] = r
  <2> DEFINE S == {i \in Nat : i \in a..m => h[i] = r}
  <2>1. 0 \in S
    BY <1>1
  <2>2. ASSUME NEW i \in Nat, i \in S
        PROVE  i + 1 \in S
    <3> SUFFICES ASSUME i + 1 \in a..m
                 PROVE  h[i + 1] = r
      OBVIOUS
    <3>1. CASE i + 1 = a
      BY <1>16, <3>1
    <3>2. CASE i + 1 # a
      <4>1. i \in a..m /\ i + 1 \in (a + 1)..m /\ i + 1 \in 1..(n + 1) /\ (i + 1) - 1 = i
        BY <1>1, <3>2
      <4>2. h[i] = r
        BY <2>2, <4>1
      <4>3. h[i + 1] = r \o <<>>
        BY <1>5, <1>13, <4>1, <4>2
      <4>. QED
        BY <1>15, <4>3, ConcatEmptySeq
    <3>. QED
      BY <3>1, <3>2
  <2>3. Nat \subseteq S
    <3> HIDE DEF S
    <3>. QED
      BY <2>1, <2>2, AllNumbers
  <2>. QED
    BY <1>1, <2>3
<1>18. r = Exchange(f[m], by, a, L)
  <2> DEFINE w == f[m]
  <2>1. /\ w \in Seq(X) /\ a \in 1..Len(w) /\ L \in Nat /\ a + L <= Len(w) + 1
        /\ Len(w) - L = a - 1 /\ Len(w) = m /\ Len(by) \in Nat
    BY <1>1, <1>10, LenProperties
  <2>2. Exchanging(X, w, by, a, L, r)
    <3>1. \A i \in 1..(a - 1) : r[i] = w[i]
      <4> TAKE i \in 1..(a - 1)
      <4>1. i \in 1..((a - 1) + Len(by)) /\ i <= a - 1 /\ i \in 1..m
        BY <1>1, <2>1
      <4>. QED
        BY <1>9, <1>10, <1>15, <4>1
    <3>2. \A i \in 1..Len(by) : r[(a - 1) + i] = by[i]
      <4> TAKE i \in 1..Len(by)
      <4>1. /\ (a - 1) + i \in 1..((a - 1) + Len(by)) /\ ~((a - 1) + i <= a - 1)
            /\ ((a - 1) + i) - (a - 1) = i
        BY <1>1, <2>1
      <4>. QED
        BY <1>15, <4>1
    <3>3. \A i \in (a + L)..Len(w) : FALSE
      BY <1>1, <2>1
    <3> HIDE DEF w
    <3>. QED
      BY <1>15, <2>1, <3>1, <3>2, <3>3 DEF Exchanging
  <2> HIDE DEF w, L
  <2>3. r = Exchange(w, by, a, L)
    BY <2>1, <2>2, ExchangeIs
  <2>. QED
    BY <2>3 DEF w
<1> DEFINE good(i) == h[i] = Exchange(f[i], by, a, L) /\ m <= Len(f[i])
<1>19. good(m)
  <2>1. m <= Len(f[m])
    BY <1>1, <1>10
  <2>. QED
    BY <1>17, <1>18, <2>1
<1>20. ASSUME NEW i \in m..n, good(i)
       PROVE  good(i + 1)
  <2> DEFINE w == f[i]
             p == Piece(whole, part, by, places, i + 1)
  <2>1. /\ i + 1 \in (m + 1)..(n + 1) /\ i + 1 \in 1..(n + 1) /\ i \in 0..(n + 1)
        /\ (i + 1) - 1 = i
    BY <1>1
  <2>2. f[i + 1] = w \o p /\ p \in Seq(X) /\ w \in Seq(X)
    BY <1>4, <2>1
  <2>3. h[i + 1] = h[i] \o p
    BY <1>5, <1>14, <2>1
  <2>4. h[i] = Exchange(w, by, a, L) /\ m <= Len(w)
    BY <1>20
  <2> HIDE DEF w, p
  <2>5. a \in 1..Len(w) /\ L \in Nat /\ a + L <= Len(w) + 1 /\ Len(w) \in Nat /\ Len(p) \in Nat
    <3>1. Len(w) \in Nat /\ Len(p) \in Nat
      BY <2>2, LenProperties
    <3>. QED
      BY <1>1, <2>4, <3>1
  <2> HIDE DEF L
  <2>6. h[i] \o p = Exchange(w \o p, by, a, L)
    <3>1. Exchanging(X, w, by, a, L, h[i])
      BY <2>2, <2>4, <2>5, Exchanged
    <3>2. Followed(h[i], p) = Exchange(Followed(w, p), by, a, L)
      BY <2>2, <2>5, <3>1, ExchangeBefore
    <3>. QED
      BY <3>2 DEF Followed
  <2>7. Len(w \o p) = Len(w) + Len(p)
    BY <2>2, ConcatProperties
  <2>8. m <= Len(w) + Len(p)
    BY <1>1, <2>4, <2>5
  <2>. QED
    BY <2>2, <2>3, <2>4, <2>6, <2>7, <2>8
<1>21. good(n + 1)
  <2> DEFINE S == {i \in Nat : i \in m..(n + 1) => good(i)}
  <2> HIDE DEF good
  <2>1. 0 \in S
    BY <1>1
  <2>2. ASSUME NEW i \in Nat, i \in S
        PROVE  i + 1 \in S
    <3> SUFFICES ASSUME i + 1 \in m..(n + 1)
                 PROVE  good(i + 1)
      OBVIOUS
    <3>1. CASE i + 1 = m
      BY <1>19, <3>1
    <3>2. CASE i + 1 # m
      <4>1. i \in m..n /\ i \in m..(n + 1)
        BY <1>1, <3>2
      <4>. QED
        BY <1>20, <2>2, <4>1
    <3>. QED
      BY <3>1, <3>2
  <2>3. Nat \subseteq S
    <3> HIDE DEF S
    <3>. QED
      BY <2>1, <2>2, AllNumbers
  <2>. QED
    BY <1>1, <2>3
<1>. QED
  BY <1>4, <1>5, <1>21 DEF more

(* Matching without regard to indentation replaces whole blocks and leaves *)
(* every other line where it was (_apply_whitespace_insensitive): the      *)
(* windows are taken from the last to the first, so that none moves before *)
(* its turn, and each is exchanged for a block of the new lines.           *)
THEOREM WholeBlocks == MatchSpec => []ReplacesWholeBlocks
<1>1. MatchInv => ReplacesWholeBlocks
  <2> SUFFICES ASSUME MatchInv
               PROVE  ReplacesWholeBlocks
    OBVIOUS
  <2> DEFINE span == Len(OldBlock)
             D == Dedented(NewBlock)
             Y == Seq(LineSymbol)
             seq == Reverse(InOrder(Starts))
             c == Cardinality(Starts)
             n == Len(FileLines)
             old == StrippedAll(FileLines)
             new == StrippedAll(NewBlock)
  <2>1. SUFFICES ASSUME Accepted, resolved.strategy = "lines",
                        \A i, j \in Starts : i < j => i + span <= j
                 PROVE  StrippedAll(Lines(resolved.text))
                          = Replaced(old, OldBlock, new, Starts)
    BY DEF ReplacesWholeBlocks
  <2>2. /\ FileLines \in Seq(Y) /\ FileLines # <<>> /\ OldBlock \in Seq(Y) /\ OldBlock # <<>>
        /\ NewBlock \in Seq(Y) /\ NewBlock # <<>>
        /\ "sp" \in LineSymbol /\ "nl" \notin LineSymbol
    BY LinesOfTheEdit
  <2>3. /\ n \in Nat /\ n # 0 /\ span \in Nat /\ span # 0
        /\ Len(NewBlock) \in Nat /\ Len(NewBlock) # 0
    BY <2>2, LenProperties, EmptySeq
  <2>4. /\ c \in Nat /\ DOMAIN seq = 1..c
        /\ \A k \in 1..c : seq[k] \in Starts
        /\ \A i, k \in 1..c : i < k => seq[k] < seq[i]
        /\ \A x \in Starts : \E k \in 1..c : x = seq[k]
    <3> HIDE DEF n
    <3>1. Starts \in SUBSET (0..n)
      BY StartsIn DEF n
    <3>. QED
      BY <2>3, <3>1, Backwards
  <2>5. \A s \in Starts : s \in 1..n /\ s + span <= n + 1
    <3> TAKE s \in Starts
    <3>1. s \in Windows(FileLines, OldBlock)
      BY DEF Starts
    <3>. QED
      BY <2>2, <3>1, WindowIs
  <2>6. PICK g : Stages(FileLines, Starts, span, D, g, c)
    BY <2>4, StagesExist
  <2>7. old \in Seq(Y) /\ Len(old) = n /\ new \in Seq(Y)
    BY <2>2, StrippedAllTyped
  <2> HIDE DEF seq, c, n, span, Y, old, new, D
  <2> DEFINE done(k) == {seq[j] : j \in 1..k}
             good(k) == /\ g[k] \in Seq(Y) /\ Len(g[k]) # 0
                        /\ StrippedAll(g[k]) = Replaced(old, OldBlock, new, done(k))
                        /\ k < c => seq[k + 1] + span <= Len(g[k]) + 1
  <2>8. /\ SpliceAll(FileLines, Starts, span, D) = g[c] /\ g[0] = FileLines
        /\ \A k \in 1..c : g[k] = Splice(g[k - 1], seq[k], span, D)
    BY <2>6 DEF Stages, seq
  <2>9. good(0)
    <3>1. done(0) = {}
      OBVIOUS
    <3>2. Replaced(old, OldBlock, new, {}) = old
      BY <2>3, <2>7, ReplacedNone DEF span
    <3>3. 0 < c => seq[0 + 1] + span <= Len(g[0]) + 1
      <4> HAVE 0 < c
      <4>1. 1 \in 1..c
        BY <2>4
      <4>2. seq[1] + span <= n + 1
        BY <2>4, <2>5, <4>1
      <4>. QED
        BY <2>8, <4>2 DEF n
    <3> HIDE DEF done
    <3>4. g[0] \in Seq(Y) /\ Len(g[0]) # 0 /\ StrippedAll(g[0]) = old
      BY <2>2, <2>3, <2>8 DEF n, old, Y
    <3>. QED
      BY <3>1, <3>2, <3>3, <3>4
  <2>10. ASSUME NEW k \in Nat, k < c, good(k)
         PROVE  good(k + 1)
    <3> DEFINE w == g[k]
               s == seq[k + 1]
               d == Shallowest(SubSeq(w, s, s + span - 1))
               block == AtMargin(NewBlock, d)
    <3>1. k + 1 \in 1..c /\ (k + 1) - 1 = k
      BY <2>4, <2>10
    <3>2. /\ w \in Seq(Y) /\ StrippedAll(w) = Replaced(old, OldBlock, new, done(k))
          /\ s + span <= Len(w) + 1
      BY <2>10
    <3>3. s \in Starts /\ s \in 1..n /\ s + span <= n + 1
      BY <2>4, <2>5, <3>1
    <3>4. g[k + 1] = Splice(w, s, span, D)
      BY <2>8, <3>1
    <3>5. done(k + 1) = done(k) \cup {s}
      <4>1. 1..(k + 1) = (1..k) \cup {k + 1}
        BY <2>10
      <4> HIDE DEF s
      <4>2. seq[k + 1] = s
        BY DEF s
      <4>. QED
        BY <4>1, <4>2
    <3>6. \A p \in done(k) : p \in Nat /\ s + span <= p
      <4> TAKE p \in done(k)
      <4>1. PICK j \in 1..k : p = seq[j]
        OBVIOUS
      <4>2. j \in 1..c /\ j < k + 1
        BY <2>4, <3>1, <4>1
      <4>3. p \in Starts /\ s < p
        BY <2>4, <3>1, <4>1, <4>2
      <4>4. p \in 1..n
        BY <2>5, <4>3
      <4>5. p \in Nat
        BY <4>4
      <4>. QED
        BY <2>1, <3>3, <4>3, <4>5
    <3>7. Len(w) \in Nat /\ s \in 1..Len(w)
      <4>1. Len(w) \in Nat
        BY <3>2, LenProperties
      <4>. QED
        BY <2>3, <3>2, <3>3, <4>1
    <3> HIDE DEF w, s, done
    <3>8. d \in Nat /\ Splice(w, s, span, D) = Exchange(w, block, s, span)
      BY <2>2, <2>3, <3>2, <3>7, SpliceIs DEF Y, D
    <3> HIDE DEF d
    <3>9. block \in Seq(Y) /\ Len(block) = Len(NewBlock) /\ StrippedAll(block) = new
      BY <2>2, <3>8, AtMarginIs DEF Y, new
    <3> HIDE DEF block
    <3>10. g[k + 1] \in Seq(Y) /\ Len(g[k + 1]) = (Len(w) - span) + Len(NewBlock)
      <4>1. Exchanging(Y, w, block, s, span, Exchange(w, block, s, span))
        BY <2>3, <3>2, <3>7, <3>9, Exchanged
      <4>. QED
        BY <3>4, <3>8, <3>9, <4>1 DEF Exchanging
    <3>11. StrippedAll(g[k + 1]) = Exchange(StrippedAll(w), new, s, span)
      <4>1. StrippedAll(Exchange(w, block, s, span))
              = Exchange(StrippedAll(w), StrippedAll(block), s, span)
        BY <2>3, <3>2, <3>7, <3>9, StrippedExchange DEF Y
      <4>. QED
        BY <3>4, <3>8, <3>9, <4>1, Zenon
    <3>12. Replaced(old, OldBlock, new, done(k) \cup {s})
             = Exchange(Replaced(old, OldBlock, new, done(k)), new, s, span)
      <4> DEFINE places == done(k)
      <4>1. s \in 1..Len(old) /\ s + Len(OldBlock) <= Len(old) + 1
        BY <2>7, <3>3 DEF span
      <4>2. \A p \in places : p \in Nat /\ s + Len(OldBlock) <= p
        BY <3>6 DEF span
      <4>3. Len(OldBlock) \in Nat /\ Len(OldBlock) # 0
        BY <2>3 DEF span
      <4> HIDE DEF places
      <4>4. Replaced(old, OldBlock, new, places \cup {s})
              = Exchange(Replaced(old, OldBlock, new, places), new, s, Len(OldBlock))
        BY <2>7, <4>1, <4>2, <4>3, ReplacedMore
      <4>. QED
        BY <4>4 DEF places, span
    <3>13. k + 1 < c => seq[(k + 1) + 1] + span <= Len(g[k + 1]) + 1
      <4> HAVE k + 1 < c
      <4> DEFINE t == seq[(k + 1) + 1]
      <4>1. (k + 1) + 1 \in 1..c /\ k + 1 < (k + 1) + 1
        BY <2>4, <2>10
      <4>2. t \in Starts /\ t < s
        BY <2>4, <3>1, <4>1 DEF s
      <4>3. t + span <= s /\ t \in 1..n
        BY <2>1, <2>5, <3>3, <4>2
      <4> HIDE DEF t
      <4>4. t + span <= ((Len(w) - span) + Len(NewBlock)) + 1
        BY <2>3, <3>2, <3>3, <3>7, <4>3
      <4>. QED
        BY <3>10, <4>4 DEF t
    <3>14. Len(g[k + 1]) # 0
      BY <2>3, <3>2, <3>3, <3>7, <3>10
    <3>15. StrippedAll(g[k + 1]) = Replaced(old, OldBlock, new, done(k + 1))
      BY <3>2, <3>5, <3>11, <3>12, Zenon
    <3>. QED
      BY <3>10, <3>13, <3>14, <3>15
  <2>11. good(c)
    <3> DEFINE S == {k \in Nat : k <= c => good(k)}
    <3> HIDE DEF good
    <3>1. 0 \in S
      BY <2>9
    <3>2. ASSUME NEW k \in Nat, k \in S
          PROVE  k + 1 \in S
      <4> SUFFICES ASSUME k + 1 <= c
                   PROVE  good(k + 1)
        OBVIOUS
      <4>1. k < c /\ k <= c
        BY <2>4
      <4>. QED
        BY <2>10, <3>2, <4>1
    <3>3. Nat \subseteq S
      <4> HIDE DEF S
      <4>. QED
        BY <3>1, <3>2, AllNumbers
    <3>. QED
      BY <2>4, <3>3
  <2>12. done(c) = Starts
    BY <2>4
  <2> HIDE DEF done
  <2>13. g[c] \in Seq(Y) /\ Len(g[c]) # 0 /\ StrippedAll(g[c]) = Replaced(old, OldBlock, new, Starts)
    BY <2>11, <2>12
  <2>14. Lines(resolved.text) = g[c]
    <3>1. resolved.text = Joined(g[c])
      BY <2>1, <2>8, EditByLines DEF span, D
    <3>2. g[c] # <<>>
      BY <2>13
    <3>. QED
      BY <2>2, <2>13, <3>1, <3>2, LinesOfJoined DEF Y
  <2>. QED
    BY <2>13, <2>14
<1>. QED
  BY <1>1, MatchInvHolds, PTL
=============================================================================
