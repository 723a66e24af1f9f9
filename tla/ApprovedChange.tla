--------------------------- MODULE ApprovedChange ----------------------------
(***************************************************************************)
(* What the editing tools promise about the disk: the agent changes it     *)
(* only by a change that was approved, in one step, whole, and once.       *)
(* Whatever goes wrong on the way, crashes included, is a change           *)
(* withdrawn.                                                              *)
(***************************************************************************)
EXTENDS FileChange

CONSTANT NoChange   \* nothing is approved

VARIABLES
    disk,      \* disk[f]: the content of f
    writer,    \* who changed the disk last
    granted    \* the change the agent may perform

approvedVars == <<disk, writer, granted>>

Init ==
    /\ disk \in Disks
    /\ writer = "other"
    /\ granted = NoChange

(* Editors, commands and checkouts change files as they like.              *)
World(f, c) ==
    /\ disk' = [disk EXCEPT ![f] = c]
    /\ writer' = "other"
    /\ UNCHANGED granted

Grant(ch) ==
    /\ granted = NoChange
    /\ granted' = ch
    /\ UNCHANGED <<disk, writer>>

Commit ==
    /\ granted # NoChange
    /\ disk' \in Effects(granted, disk)
    /\ writer' = "agent"
    /\ granted' = NoChange

Withdraw ==
    /\ granted' = NoChange
    /\ UNCHANGED <<disk, writer>>

Next ==
    \/ \E f \in File, c \in Contents \cup {Nothing} : World(f, c)
    \/ \E ch \in Change : Grant(ch)
    \/ Commit
    \/ Withdraw

Spec == Init /\ [][Next]_approvedVars
=============================================================================
