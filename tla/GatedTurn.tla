------------------------------ MODULE GatedTurn ------------------------------
(***************************************************************************)
(* What one turn of the agent promises about the operations the model      *)
(* proposes, with nothing of how the turn gets there: an operation that    *)
(* acts on the world is performed once per grant, a grant is given either  *)
(* by the human who was asked about exactly that operation, or, for the    *)
(* kinds Auto mode covers and only while it is on, by the mode.  Terminal  *)
(* commands and Git operations are never among those kinds.                *)
(***************************************************************************)
CONSTANTS
    Call,        \* the calls a model can make: a tool name with its arguments
    NoCall,      \* no operation is being considered
    KindOf       \* the kind of operation each call asks for

VARIABLES
    phase,       \* where the turn is with the operation it considers
    op,          \* that operation
    auto         \* whether the turn was started in Auto mode

(* The kinds Auto mode may grant without asking: edits, deletions and      *)
(* renamings, and plans; neither commands nor Git operations.              *)
Grantable == {"edit", "file_op", "plan"}

gateVars == <<phase, op, auto>>

Init ==
    /\ phase = "ended"
    /\ op = NoCall
    /\ auto = FALSE

(* A new turn takes the mode that is current when it starts.               *)
Begin ==
    /\ phase = "ended"
    /\ phase' = "working"
    /\ auto' \in BOOLEAN
    /\ UNCHANGED op

(* The turn pauses and shows the human the operation c.                    *)
Ask(c) ==
    /\ phase = "working"
    /\ KindOf[c] # "plain"
    /\ ~(auto /\ KindOf[c] \in Grantable)
    /\ phase' = "asking"
    /\ op' = c
    /\ UNCHANGED auto

(* The human approves the operation that was shown, or refuses it.         *)
Approve ==
    /\ phase = "asking"
    /\ phase' = "granted"
    /\ UNCHANGED <<op, auto>>

Refuse ==
    /\ phase = "asking"
    /\ phase' = "working"
    /\ op' = NoCall
    /\ UNCHANGED auto

(* Auto mode grants an operation of a kind it covers.                      *)
AutoApprove(c) ==
    /\ phase = "working"
    /\ auto
    /\ KindOf[c] \in Grantable
    /\ phase' = "granted"
    /\ op' = c
    /\ UNCHANGED auto

(* The granted operation is performed, which uses the grant up.            *)
Perform ==
    /\ phase = "granted"
    /\ phase' = "working"
    /\ op' = NoCall
    /\ UNCHANGED auto

(* The turn is over, whatever it was doing.                                *)
End ==
    /\ phase # "ended"
    /\ phase' = "ended"
    /\ op' = NoCall
    /\ UNCHANGED auto

Next ==
    \/ Begin
    \/ \E c \in Call : Ask(c) \/ AutoApprove(c)
    \/ Approve \/ Refuse \/ Perform \/ End

Spec == Init /\ [][Next]_gateVars
=============================================================================
