----------------------------- MODULE MCAgentTurn -----------------------------
(***************************************************************************)
(* AgentTurn on small instances.                                           *)
(***************************************************************************)
EXTENDS AgentTurn, TLC

CONSTANTS read1, edit1, run1, plan1, text1, list1

(* One call for each way a proposal can be granted: not at all, by Auto    *)
(* mode or the human, by the human only, and by Auto mode without counting *)
(* as progress; and one that is no object, and one to read a file whose    *)
(* arguments are none.                                                     *)
MCKindOf == (read1 :> "plain") @@ (edit1 :> "edit") @@ (run1 :> "command")
            @@ (plan1 :> "plan") @@ (text1 :> "plain") @@ (list1 :> "plain")

MCTwoKinds == (read1 :> "plain") @@ (edit1 :> "edit")
=============================================================================
