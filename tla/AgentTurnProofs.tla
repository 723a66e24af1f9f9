--------------------------- MODULE AgentTurnProofs ---------------------------
(***************************************************************************)
(* Theorems about AgentTurn, for every set of calls and all limits.        *)
(***************************************************************************)
EXTENDS AgentTurn, SequenceTheorems, TLAPS

-----------------------------------------------------------------------------
(* Lemmas.                                                                 *)

(* A reply is a nonempty sequence of calls.                                *)
LEMMA BatchesType ==
    ASSUME NEW calls \in Batches
    PROVE  /\ calls \in Seq(Call)
           /\ calls # <<>>
           /\ Len(calls) \in 1..MaxBatch
  <1>1. PICK n \in 1..MaxBatch : calls \in [1..n -> Call]
    BY DEF Batches
  <1>2. n \in Nat /\ n \in 1..MaxBatch
    BY LimitsAssumption
  <1>3. calls \in Seq(Call) /\ Len(calls) = n
    BY <1>1, <1>2
  <1> QED
    BY <1>2, <1>3

(* Moving on from the call in hand keeps the shape of the batch.           *)
LEMMA TailType ==
    ASSUME NEW S, NEW s \in Seq(S), s # <<>>
    PROVE  /\ Head(s) \in S
           /\ Tail(s) \in Seq(S)
           /\ Len(Tail(s)) = Len(s) - 1
           /\ Len(s) \in Nat /\ Len(s) > 0
           /\ Tail(s) = <<>> <=> Len(s) = 1
  <1>1. Len(s) \in Nat /\ Len(s) > 0 /\ s = [i \in 1..Len(s) |-> s[i]]
    BY EmptySeq
  <1>2. Head(s) \in S
    BY <1>1, HeadTailProperties
  <1>3. Tail(s) \in Seq(S) /\ Len(Tail(s)) = Len(s) - 1
    BY HeadTailProperties
  <1>4. Tail(s) = <<>> <=> Len(Tail(s)) = 0
    <2> DEFINE t == Tail(s)
    <2>1. t \in Seq(S)
      BY <1>3
    <2>2. t # <<>> => Len(t) # 0
      <3> HIDE DEF t
      <3> QED BY <2>1, EmptySeq
    <2>3. Len(<<>>) = 0
      BY EmptySeq
    <2> QED
      BY <2>2, <2>3
  <1> QED
    BY <1>1, <1>2, <1>3, <1>4

-----------------------------------------------------------------------------
(* The inductive invariant.                                                *)

(* While a turn runs, the calls it owes an answer are those of its batch;  *)
(* without this the type of `owed' is not inductive, since a message that  *)
(* answered no call would have nothing to take off.  A batch is no longer  *)
(* than a reply, which bounds what a turn that is cut short leaves.        *)
Left == (Len(owedBefore) + 1)..(Len(owedBefore) + MaxBatch)

Balance ==
    /\ pc # "ended" => Len(owed) = Len(owedBefore) + Len(batch)
    /\ Len(batch) <= MaxBatch
    /\ pc = "ended" /\ outcome \notin CutShort => Len(owed) = Len(owedBefore)
    /\ pc = "ended" /\ outcome \in CutShort => Len(owed) \in Left

(* The guard counts requests and the history counts executions: of one     *)
(* call in a row there are never more of the second than of the first.     *)
Repetition ==
    /\ streak.call = lastCall
    /\ streak.n <= repeats
    /\ NoRunawayCall
    /\ RepetitionEndsTurn

IInv == TypeOK /\ Balance /\ Repetition

(* What answering the call in hand does to the two queues.                 *)
LEMMA AnswerCallQueues ==
    ASSUME TypeOK, Balance, pc \in {"call", "confirm", "perform"}, AnswerCall
    PROVE  /\ owed' \in Seq(Call)
           /\ batch' \in Seq(Call)
           /\ Len(owed') = Len(owed) - 1
           /\ Len(batch') = Len(batch) - 1
           /\ Len(owed) = Len(owedBefore) + Len(batch)
           /\ pc' \in {"top", "call"}
           /\ batch' # <<>> <=> pc' = "call"
           /\ poisoned' \in BOOLEAN
  <1>1. batch \in Seq(Call) /\ batch # <<>> /\ owed \in Seq(Call)
    BY DEF TypeOK
  <1>2. owedBefore \in Seq(Call) /\ Len(owedBefore) \in Nat
    BY LenProperties DEF TypeOK
  <1>3. /\ Tail(batch) \in Seq(Call)
        /\ Len(Tail(batch)) = Len(batch) - 1
        /\ Len(batch) \in Nat /\ Len(batch) > 0
        /\ Tail(batch) = <<>> <=> Len(batch) = 1
    BY <1>1, TailType
  <1>4. Len(owed) = Len(owedBefore) + Len(batch)
    BY DEF Balance
  <1>5. owed # <<>>
    BY <1>2, <1>3, <1>4, EmptySeq
  <1>6. Tail(owed) \in Seq(Call) /\ Len(Tail(owed)) = Len(owed) - 1
    BY <1>1, <1>5, TailType
  <1>7. poisoned' \in BOOLEAN
    BY DEF AnswerCall, TypeOK
  <1> QED
    BY <1>3, <1>4, <1>6, <1>7 DEF AnswerCall

(* The count of a request, from the counts before it.                      *)
LEMMA CountBounds ==
    ASSUME IInv, pc = "call"
    PROVE  /\ Head(batch) \in Call
           /\ Count \in Nat /\ Count <= MaxIdentical + MaxEscalations
           /\ Count > 0
           /\ Head(batch) = lastCall => Count = repeats + 1
  <1>1. Head(batch) \in Call
    BY TailType DEF IInv, TypeOK
  <1>2. repeats \in Nat /\ repeats < MaxIdentical + MaxEscalations
    BY LimitsAssumption DEF IInv, TypeOK, Repetition, RepetitionEndsTurn
  <1> QED
    BY <1>1, <1>2, LimitsAssumption DEF Count

-----------------------------------------------------------------------------
(* Every step preserves it.                                                *)

LEMMA IInvInit == Init => IInv
  <1> SUFFICES ASSUME Init PROVE IInv
    OBVIOUS
  <1>1. <<>> \in Seq(Call)
    BY EmptySeq
  <1>2. [call |-> NoCall, n |-> 0] \in [call : Call \cup {NoCall}, n : Nat]
    OBVIOUS
  <1>6. /\ iteration \in 0..MaxIterations /\ retries \in 0..MaxRetries
        /\ narrations \in 0..MaxNarrations /\ repeats \in Nat
        /\ turns \in 0..MaxTurns
    BY LimitsAssumption DEF Init
  <1>5. TypeOK
    BY <1>1, <1>2, <1>6, Zenon DEF Init, TypeOK, Outcomes
  <1>3. Balance
    <2>1. Len(<<>>) = 0 /\ Len(batch) <= MaxBatch
      BY EmptySeq, LimitsAssumption DEF Init
    <2> QED
      BY <2>1 DEF Init, Balance, CutShort
  <1>4. Repetition
    BY LimitsAssumption
    DEF Init, Repetition, NoRunawayCall, RepetitionEndsTurn
  <1> QED
    BY <1>5, <1>3, <1>4 DEF IInv

(* The steps that only return, with no more than a local counter changed.  *)
LEMMA EndStep ==
    ASSUME IInv, pc # "ended", batch = <<>>,
           NEW how \in Outcomes \ CutShort, End(how),
           iteration' \in 0..MaxIterations,
           UNCHANGED <<retries, narrations, guards, talk, env>>,
           cancelled' \in BOOLEAN
    PROVE  IInv'
  <1> USE DEF IInv
  <1>1. Len(owed) = Len(owedBefore)
    BY EmptySeq, LenProperties DEF Balance, TypeOK
  <1>2. TypeOK'
    BY EmptySeq DEF TypeOK, End, guards, talk, env
  <1>3. Balance'
    <2>1. Len(batch') <= MaxBatch
      BY EmptySeq, LimitsAssumption DEF End
    <2> QED
      BY <1>1, <2>1 DEF Balance, End, talk, env
  <1>4. Repetition'
    BY DEF Repetition, NoRunawayCall, RepetitionEndsTurn, End, guards
  <1> QED
    BY <1>2, <1>3, <1>4

(* The steps of a running turn that touch no call.                         *)
LEMMA MoveStep ==
    ASSUME IInv, pc \in {"top", "chat", "backoff"},
           pc' \in {"top", "chat", "backoff"},
           iteration' \in 0..MaxIterations,
           retries' \in 0..MaxRetries,
           narrations' \in 0..MaxNarrations,
           UNCHANGED <<guards, batch, cancelled, outcome, talk, env>>
    PROVE  IInv'
  <1> USE DEF IInv
  <1>1. TypeOK'
    BY DEF TypeOK, guards, talk, env
  <1>2. Balance'
    BY DEF Balance, talk, env
  <1>3. Repetition'
    BY DEF Repetition, NoRunawayCall, RepetitionEndsTurn, guards
  <1> QED
    BY <1>1, <1>2, <1>3

(* The steps that answer the call in hand.                                 *)
LEMMA AnswerStep ==
    ASSUME IInv, pc \in {"call", "confirm", "perform"}, AnswerCall,
           UNCHANGED <<control, cancelled, outcome, env>>,
           mutated' \in BOOLEAN,
           lastCall' \in Call \cup {NoCall}, repeats' \in Nat,
           streak' \in [call : Call \cup {NoCall}, n : Nat],
           Repetition'
    PROVE  IInv'
  <1> USE DEF IInv
  <1>1. /\ owed' \in Seq(Call) /\ batch' \in Seq(Call)
        /\ Len(owed') = Len(owed) - 1
        /\ Len(batch') = Len(batch) - 1
        /\ Len(owed) = Len(owedBefore) + Len(batch)
        /\ pc' \in {"top", "call"}
        /\ batch' # <<>> <=> pc' = "call"
        /\ poisoned' \in BOOLEAN
    BY AnswerCallQueues
  <1>2. TypeOK'
    BY <1>1 DEF TypeOK, control, env
  <1>3. owed \in Seq(Call) /\ batch \in Seq(Call) /\ owedBefore \in Seq(Call)
    BY DEF TypeOK
  <1>4. Len(owed) \in Nat /\ Len(batch) \in Nat /\ Len(owedBefore) \in Nat
    BY <1>3, LenProperties
  <1>5. Balance'
    BY <1>1, <1>4, LimitsAssumption DEF Balance, Left, env
  <1> QED
    BY <1>2, <1>5

(* The steps that end a turn in the middle of its batch.                   *)
LEMMA CutStep ==
    ASSUME IInv, pc \in {"call", "confirm", "perform"},
           NEW how \in CutShort, End(how),
           UNCHANGED <<control, cancelled, talk, env>>,
           mutated' \in BOOLEAN,
           lastCall' \in Call \cup {NoCall}, repeats' \in Nat,
           streak' \in [call : Call \cup {NoCall}, n : Nat],
           Repetition'
    PROVE  IInv'
  <1> USE DEF IInv
  <1>1. batch \in Seq(Call) /\ batch # <<>> /\ owedBefore \in Seq(Call)
    BY DEF TypeOK
  <1>2. Len(batch) \in Nat /\ Len(batch) > 0 /\ Len(owedBefore) \in Nat
    BY <1>1, TailType, LenProperties
  <1>3. Len(owed) \in Left
    BY <1>2, LimitsAssumption DEF Balance, Left
  <1>4. TypeOK'
    BY EmptySeq DEF TypeOK, End, Outcomes, CutShort, control, talk, env
  <1>5. Balance'
    <2>1. Len(batch') <= MaxBatch /\ pc' = "ended" /\ outcome' \in CutShort
      BY EmptySeq, LimitsAssumption DEF End
    <2> QED
      BY <1>3, <2>1 DEF Balance, Left, talk, env
  <1> QED
    BY <1>4, <1>5

(* Counting a request keeps the repetition bounds, if a request at the     *)
(* limit ends the turn and an executed one is below the first threshold.   *)
LEMMA CountStep ==
    ASSUME IInv, pc = "call", CountCall,
           Count = MaxIdentical + MaxEscalations => pc' = "ended"
    PROVE  /\ lastCall' \in Call
           /\ repeats' \in Nat
           /\ RepetitionEndsTurn'
  BY CountBounds DEF CountCall, RepetitionEndsTurn

LEMMA IInvNext == IInv /\ [Next]_vars => IInv'
  <1> SUFFICES ASSUME IInv, [Next]_vars PROVE IInv'
    OBVIOUS
  <1>t. TypeOK /\ Balance /\ Repetition
    BY DEF IInv
  <1>l. /\ MaxIterations \in Nat /\ MaxRetries \in Nat
        /\ MaxNarrations \in Nat /\ MaxTurns \in Nat
        /\ MaxIdentical \in Nat /\ MaxIdentical > 1 /\ MaxEscalations \in Nat
    BY LimitsAssumption
  <1>e. pc \in {"top", "chat", "backoff"} => batch = <<>>
    BY <1>t DEF TypeOK
  <1>1. CASE Begin
    <2>4. [call |-> NoCall, n |-> 0] \in [call : Call \cup {NoCall}, n : Nat]
      OBVIOUS
    <2>5. /\ batch = <<>> /\ turns' \in 0..MaxTurns
          /\ iteration' \in 0..MaxIterations /\ retries' \in 0..MaxRetries
          /\ narrations' \in 0..MaxNarrations /\ repeats' \in Nat
      BY <1>1, <1>t, <1>l DEF Begin, TypeOK
    <2>1. TypeOK'
      BY <1>1, <1>t, <2>4, <2>5, Zenon DEF Begin, TypeOK, Outcomes, talk
    <2>2. Balance'
      <3>1. owed \in Seq(Call) /\ Len(owed) \in Nat /\ Len(<<>>) = 0
        BY <1>t, LenProperties, EmptySeq DEF TypeOK
      <3>2. batch = <<>> /\ Len(batch') <= MaxBatch
        BY <1>1, <1>t DEF Begin, TypeOK, Balance
      <3> QED
        BY <1>1, <3>1, <3>2 DEF Begin, Balance, talk
    <2>3. Repetition'
      BY <1>1, <1>l
      DEF Begin, Repetition, NoRunawayCall, RepetitionEndsTurn
    <2> QED
      BY <2>1, <2>2, <2>3 DEF IInv
  <1>2. CASE Cancel
    <2>1. TypeOK'
      BY <1>2, <1>t DEF Cancel, TypeOK, control, guards, talk, env
    <2>2. Balance'
      BY <1>2, <1>t DEF Cancel, Balance, Left, talk, env
    <2>3. Repetition'
      BY <1>2, <1>t DEF Cancel, Repetition, NoRunawayCall,
        RepetitionEndsTurn, guards
    <2> QED
      BY <2>1, <2>2, <2>3 DEF IInv
  <1>3. CASE Abandon
    <2>1. TypeOK'
      BY <1>3, <1>t, EmptySeq
      DEF Abandon, End, TypeOK, Outcomes, control, guards, env
    <2>2. Balance'
      <3>1. Len(batch') <= MaxBatch
        BY <1>3, EmptySeq, LimitsAssumption DEF Abandon, End
      <3> QED
        BY <1>3, <3>1 DEF Abandon, End, Balance, CutShort, env
    <2>3. Repetition'
      BY <1>3, <1>t DEF Abandon, End, Repetition, NoRunawayCall,
        RepetitionEndsTurn, guards
    <2> QED
      BY <2>1, <2>2, <2>3 DEF IInv
  <1>4. CASE Loop
    <2>1. CASE ReachLimit
      BY <2>1, <1>t, <1>e, EndStep DEF ReachLimit, TypeOK, Outcomes, CutShort,
        control
    <2>2. CASE StopAtTop
      BY <2>2, <1>t, <1>e, <1>l, EndStep
      DEF StopAtTop, TypeOK, Outcomes, CutShort
    <2>3. CASE AskModel
      BY <2>3, <1>t, <1>l, MoveStep DEF AskModel, TypeOK
    <2>4. CASE ChatCancelled
      BY <2>4, <1>t, <1>e, EndStep
      DEF ChatCancelled, TypeOK, Outcomes, CutShort, control
    <2>5. CASE ChatRetry
      BY <2>5, <1>t, <1>l, MoveStep DEF ChatRetry, TypeOK
    <2>6. CASE ChatError
      BY <2>6, <1>t, <1>e, EndStep
      DEF ChatError, TypeOK, Outcomes, CutShort, control
    <2>7. CASE ChatRaises
      BY <2>7, <1>t, <1>e, EndStep
      DEF ChatRaises, TypeOK, Outcomes, CutShort, control
    <2>8. CASE Backoff
      <3>1. CASE cancelled
        BY <2>8, <3>1, <1>t, <1>e, EndStep
        DEF Backoff, TypeOK, Outcomes, CutShort, control
      <3>2. CASE ~cancelled
        BY <2>8, <3>2, <1>t, MoveStep DEF Backoff, TypeOK, control
      <3> QED
        BY <3>1, <3>2
    <2>9. CASE Redirect
      BY <2>9, <1>t, <1>l, MoveStep DEF Redirect, NeedsCorrection, TypeOK
    <2>10. ASSUME NEW narration \in BOOLEAN, Finish(narration) PROVE IInv'
      <3>1. FinalOutcome(narration) \in Outcomes \ CutShort
        BY DEF FinalOutcome, Outcomes, CutShort
      <3> QED
        BY <2>10, <3>1, <1>t, <1>e, EndStep DEF Finish, TypeOK, control
    <2>11. CASE ReplyWithCalls
      <3>1. PICK calls \in Batches : batch' = calls /\ owed' = owed \o calls
        BY <2>11 DEF ReplyWithCalls
      <3>2. /\ calls \in Seq(Call) /\ calls # <<>> /\ Len(calls) \in Nat
            /\ Len(calls) <= MaxBatch
        BY BatchesType, LenProperties, LimitsAssumption
      <3>9. poisoned' \in BOOLEAN
        BY <2>11, <1>t DEF ReplyWithCalls, TypeOK
      <3>3. owed \in Seq(Call) /\ Len(owed) \in Nat
        BY <1>t, LenProperties DEF TypeOK
      <3>4. owed' \in Seq(Call) /\ Len(owed') = Len(owed) + Len(calls)
        BY <3>1, <3>2, <3>3, ConcatProperties
      <3>5. TypeOK'
        BY <2>11, <3>1, <3>2, <3>4, <3>9, <1>t
        DEF ReplyWithCalls, TypeOK, control, guards, env
      <3>6. Len(owed) = Len(owedBefore)
        <4>1. Len(batch) = 0 /\ Len(owedBefore) \in Nat
          BY <2>11, <1>t, <1>e, EmptySeq, LenProperties
          DEF ReplyWithCalls, TypeOK
        <4> QED
          BY <2>11, <4>1, <1>t DEF ReplyWithCalls, Balance
      <3>7. Balance'
        BY <2>11, <3>1, <3>2, <3>4, <3>6 DEF ReplyWithCalls, Balance, env
      <3>8. Repetition'
        BY <2>11, <1>t DEF ReplyWithCalls, Repetition, NoRunawayCall,
          RepetitionEndsTurn, guards
      <3> QED
        BY <3>5, <3>7, <3>8 DEF IInv
    <2>12. CASE GiveUp
      <3>0. pc = "call" /\ CountCall /\ End("stalled") /\ "stalled" \in CutShort
        BY <2>12 DEF GiveUp, Taken, CutShort
      <3>1. /\ lastCall' \in Call /\ repeats' \in Nat
            /\ RepetitionEndsTurn'
        BY <3>0, CountStep DEF End
      <3>4. Repetition'
        BY <2>12, <3>0, <3>1, <1>t, <1>l, CountBounds
        DEF GiveUp, CountCall, Repetition, NoRunawayCall, TypeOK, Count
      <3> QED
        BY <2>12, <3>0, <3>1, <3>4, <1>t, CutStep DEF GiveUp, TypeOK
    <2>13. CASE Intercept
      <3>1. Count \in Nat /\ Count < MaxIdentical + MaxEscalations
        BY <2>13, <1>l, CountBounds DEF Intercept, Taken, Escalation
      <3>2. /\ lastCall' \in Call /\ repeats' \in Nat
            /\ RepetitionEndsTurn'
        BY <2>13, <3>1, <1>l, CountStep DEF Intercept, Taken
      <3>3. Repetition'
        BY <2>13, <3>2, <1>t, <1>l, CountBounds
        DEF Intercept, Taken, CountCall, Repetition, NoRunawayCall, TypeOK, Count
      <3> QED
        BY <2>13, <3>2, <3>3, <1>t, AnswerStep DEF Intercept, Taken, TypeOK
    <2>14. ASSUME Dispatch
           PROVE  /\ pc = "call"
                  /\ mutated' \in BOOLEAN
                  /\ lastCall' \in Call /\ repeats' \in Nat
                  /\ streak' \in [call : Call \cup {NoCall}, n : Nat]
                  /\ Repetition'
      <3>1. pc = "call" /\ Count < MaxIdentical /\ CountCall
        BY <2>14 DEF Dispatch, Taken
      <3>2. Head(batch) \in Call /\ Count \in Nat /\ Count > 0
        BY <3>1, CountBounds
      <3>3. /\ lastCall' \in Call /\ repeats' \in Nat
            /\ RepetitionEndsTurn'
        BY <3>1, <3>2, <1>l, CountStep
      <3>4. /\ streak' \in [call : Call \cup {NoCall}, n : Nat]
            /\ streak'.call = Head(batch)
            /\ streak'.n <= Count
        BY <2>14, <3>1, <3>2, <1>t, CountBounds
        DEF Dispatch, TypeOK, Repetition
      <3>5. Repetition'
        BY <3>1, <3>2, <3>3, <3>4, <1>l
        DEF Repetition, NoRunawayCall, CountCall
      <3>6. mutated' \in BOOLEAN
        BY <2>14, <1>t DEF Dispatch, TypeOK
      <3> QED
        BY <3>1, <3>3, <3>4, <3>5, <3>6
    <2>15. CASE DispatchPlain
      BY <2>14, <2>15, <1>t, AnswerStep DEF DispatchPlain, TypeOK
    <2>16. CASE DispatchProposal
      <3>1. pc' \in {"confirm", "perform"}
        BY <2>16 DEF DispatchProposal
      <3>2. /\ pc = "call" /\ mutated' \in BOOLEAN
            /\ lastCall' \in Call /\ repeats' \in Nat
            /\ streak' \in [call : Call \cup {NoCall}, n : Nat]
            /\ Repetition'
        BY <2>14, <2>16, <3>1 DEF DispatchProposal
      <3>3. TypeOK'
        BY <2>16, <3>1, <3>2, <1>t
        DEF DispatchProposal, TypeOK, control, talk, env
      <3>4. Balance'
        BY <2>16, <3>1, <3>2, <1>t DEF DispatchProposal, Balance, talk, env
      <3> QED
        BY <3>2, <3>3, <3>4 DEF IInv
    <2>18. CASE CompactRaises
      BY <2>18, <1>t, <1>e, <1>l, EndStep
      DEF CompactRaises, TypeOK, Outcomes, CutShort
    <2>19. CASE CallRaises
      <3>1. Repetition'
        BY <2>19, <1>t DEF CallRaises, End, Repetition, NoRunawayCall,
          RepetitionEndsTurn, guards
      <3>2. "broken" \in CutShort
        BY DEF CutShort
      <3> QED
        BY <2>19, <3>1, <3>2, <1>t, CutStep DEF CallRaises, TypeOK, guards
    <2>20. CASE DescribeRaises
      <3>1. "broken" \in CutShort
        BY DEF CutShort
      <3> QED
        BY <2>14, <2>20, <3>1, <1>t, CutStep DEF DescribeRaises, TypeOK
    <2>21. CASE PerformRaises
      <3>1. Repetition'
        BY <2>21, <1>t DEF PerformRaises, End, Repetition, NoRunawayCall,
          RepetitionEndsTurn, guards
      <3>2. "broken" \in CutShort
        BY DEF CutShort
      <3> QED
        BY <2>21, <3>1, <3>2, <1>t, CutStep DEF PerformRaises, TypeOK, guards
    <2>17. CASE Perform
      <3>1. Repetition'
        BY <2>17, <1>t DEF Perform, AnswerCall, Repetition, NoRunawayCall,
          RepetitionEndsTurn, guards
      <3> QED
        BY <2>17, <3>1, <1>t, AnswerStep DEF Perform, TypeOK, guards
    <2> QED
      BY <1>4, <2>1, <2>2, <2>3, <2>4, <2>5, <2>6, <2>7, <2>8, <2>9, <2>10,
         <2>11, <2>12, <2>13, <2>15, <2>16, <2>17, <2>18, <2>19, <2>20, <2>21
      DEF Loop
  <1>5. CASE Answer
    <2>1. CASE Approve
      <3>1. TypeOK'
        BY <2>1, <1>t DEF Approve, TypeOK, control, guards, talk, env
      <3>2. Balance'
        BY <2>1, <1>t DEF Approve, Balance, Left, talk, env
      <3>3. Repetition'
        BY <2>1, <1>t DEF Approve, Repetition, NoRunawayCall,
          RepetitionEndsTurn, guards
      <3> QED
        BY <3>1, <3>2, <3>3 DEF IInv
    <2>2. CASE Reject
      <3>1. Repetition'
        BY <2>2, <1>t DEF Reject, AnswerCall, Repetition, NoRunawayCall,
          RepetitionEndsTurn, guards
      <3> QED
        BY <2>2, <3>1, <1>t, AnswerStep DEF Reject, TypeOK, guards
    <2> QED
      BY <1>5, <2>1, <2>2 DEF Answer
  <1>6. CASE UNCHANGED vars
    <2>1. TypeOK'
      BY <1>6, <1>t DEF TypeOK, vars, control, guards, talk, env
    <2>2. Balance'
      BY <1>6, <1>t DEF Balance, Left, vars, talk, env
    <2>3. Repetition'
      BY <1>6, <1>t DEF Repetition, NoRunawayCall, RepetitionEndsTurn, vars,
        guards
    <2> QED
      BY <2>1, <2>2, <2>3 DEF IInv
  <1> QED
    BY <1>1, <1>2, <1>3, <1>4, <1>5, <1>6 DEF Next

(* Every reachable state satisfies it.                                     *)
THEOREM IInvHolds == Spec => []IInv
  BY IInvInit, IInvNext, PTL DEF Spec

-----------------------------------------------------------------------------
(* What follows for the code.                                              *)

(* The loop's state stays within its types, its counters within the limits *)
(* loop.py names.                                                          *)
THEOREM TypeCorrect == Spec => []TypeOK
  <1>1. IInv => TypeOK
    BY DEF IInv
  <1> QED
    BY IInvHolds, <1>1, PTL

(* The repetition guard: no call is executed MaxIdentical times with no    *)
(* other call executed in between (loop.py:52-56).                         *)
THEOREM RunawayCallStopped == Spec => []NoRunawayCall
  <1>1. IInv => NoRunawayCall
    BY DEF IInv, Repetition
  <1> QED
    BY IInvHolds, <1>1, PTL

(* A turn that keeps requesting one call ends (loop.py:58-69).             *)
THEOREM RepetitionBounded == Spec => []RepetitionEndsTurn
  <1>1. IInv => RepetitionEndsTurn
    BY DEF IInv, Repetition
  <1> QED
    BY IInvHolds, <1>1, PTL

(* Requests and results balance whenever the conversation goes to the      *)
(* model and when a turn is over that was not cut short; one that gave up  *)
(* on a repeated call, or that an exception went through in the middle of  *)
(* its batch, leaves at least one call unanswered and at most one reply's  *)
(* (loop.py:430-433, 457-471, 608-617; context_manager.py:169-174).        *)
THEOREM CallsAnswered == Spec => []NoCallLeftUnanswered
  <1>1. IInv => NoCallLeftUnanswered
    <2> SUFFICES ASSUME IInv, pc \in {"top", "chat", "backoff"}
                 PROVE  Len(owed) = Len(owedBefore)
      BY DEF IInv, Balance, Left, NoCallLeftUnanswered
    <2>1. batch = <<>>
      BY DEF IInv, TypeOK
    <2>2. Len(batch) = 0 /\ Len(owedBefore) \in Nat
      BY <2>1, EmptySeq, LenProperties DEF IInv, TypeOK
    <2> QED
      BY <2>2 DEF IInv, Balance
  <1> QED
    BY IInvHolds, <1>1, PTL

(* A cancelled turn sends nothing new to the model (loop.py:249-252).      *)
THEOREM CancelledTurnSilent == Spec => CancelledTurnAsksNoMore
  <1>1. [Next]_vars => [cancelled /\ pc # "chat" => pc' # "chat"]_vars
    <2> SUFFICES ASSUME Next, cancelled, pc # "chat" PROVE pc' # "chat"
      OBVIOUS
    <2>1. CASE Begin \/ Cancel \/ Abandon \/ Answer
      BY <2>1 DEF Begin, Cancel, Abandon, End, Answer, Approve, Reject,
        AnswerCall
    <2>2. CASE Loop
      BY <2>2 DEF Loop, ReachLimit, StopAtTop, AskModel, ChatCancelled,
        ChatRetry, ChatError, ChatRaises, Backoff, Redirect, Finish,
        ReplyWithCalls, CompactRaises, CallRaises, GiveUp, Intercept,
        DispatchPlain, DescribeRaises, DispatchProposal, Perform,
        PerformRaises, End, AnswerCall
    <2> QED
      BY <2>1, <2>2 DEF Next
  <1> QED
    BY <1>1, PTL DEF Spec, CancelledTurnAsksNoMore

-----------------------------------------------------------------------------
(* AgentTurn implements GatedTurn.                                         *)

LEMMA GateInit == Init => Gate!Init
  BY DEF Init, Gate!Init, GatePhase, GateOp

(* The states the abstract turn does not tell apart.                       *)
LEMMA GateStutter ==
    ASSUME pc \in {"top", "chat", "backoff", "call"},
           pc' \in {"top", "chat", "backoff", "call"},
           auto' = auto
    PROVE  UNCHANGED Gate!gateVars
  BY DEF Gate!gateVars, GatePhase, GateOp

LEMMA GateEnd ==
    ASSUME pc # "ended", pc' = "ended", auto' = auto
    PROVE  Gate!End
  BY DEF Gate!End, GatePhase, GateOp

LEMMA GateNext == IInv /\ [Next]_vars => [Gate!Next]_Gate!gateVars
  <1> SUFFICES ASSUME IInv, [Next]_vars
               PROVE  Gate!Next \/ UNCHANGED Gate!gateVars
    OBVIOUS
  <1>t. /\ pc \in {"ended", "top", "chat", "backoff", "call", "confirm",
                   "perform"}
        /\ batch \in Seq(Call)
        /\ batch # <<>> <=> pc \in {"call", "confirm", "perform"}
    BY DEF IInv, TypeOK
  <1>a. pc \in {"call", "confirm", "perform"} => Head(batch) \in Call
    BY <1>t, TailType
  <1>1. CASE Begin
    <2>1. Gate!Begin
      BY <1>1 DEF Begin, Gate!Begin, GatePhase, GateOp
    <2> QED
      BY <2>1 DEF Gate!Next
  <1>2. CASE Cancel \/ UNCHANGED vars
    BY <1>2 DEF Cancel, vars, env, Gate!gateVars, GatePhase, GateOp
  <1>3. CASE Abandon \/ ReachLimit \/ StopAtTop \/ ChatCancelled \/ ChatError
             \/ ChatRaises \/ GiveUp \/ CompactRaises \/ CallRaises
             \/ DescribeRaises \/ PerformRaises
             \/ \E narration \in BOOLEAN : Finish(narration)
    <2>1. pc # "ended" /\ pc' = "ended" /\ auto' = auto
      BY <1>3 DEF Abandon, ReachLimit, StopAtTop, ChatCancelled, ChatError,
        ChatRaises, GiveUp, CompactRaises, CallRaises, DescribeRaises,
        PerformRaises, Dispatch, Taken, Finish, End, env
    <2> QED
      BY <2>1, GateEnd DEF Gate!Next
  <1>4. CASE AskModel \/ ChatRetry \/ Redirect \/ ReplyWithCalls
             \/ Intercept \/ DispatchPlain
    <2>1. /\ pc \in {"top", "chat", "backoff", "call"}
          /\ pc' \in {"top", "chat", "backoff", "call"}
          /\ auto' = auto
      BY <1>4 DEF AskModel, ChatRetry, Redirect, ReplyWithCalls, Intercept,
        DispatchPlain, Dispatch, Taken, AnswerCall, env
    <2> QED
      BY <2>1, GateStutter
  <1>5. CASE Backoff
    <2>1. CASE cancelled
      BY <1>5, <2>1, GateEnd DEF Backoff, End, env, Gate!Next
    <2>2. CASE ~cancelled
      BY <1>5, <2>2, GateStutter DEF Backoff, env
    <2> QED
      BY <2>1, <2>2
  <1>6. CASE DispatchProposal
    <2> DEFINE c == Head(batch)
    <2>1. /\ pc = "call" /\ batch' = batch /\ auto' = auto
          /\ c \in Call /\ KindOf[c] # "plain"
      BY <1>6, <1>a DEF DispatchProposal, Dispatch, Taken, env
    <2>2. CASE Exempt(c)
      <3>1. Gate!AutoApprove(c)
        BY <1>6, <2>1, <2>2
        DEF DispatchProposal, Exempt, AutoKinds, Gate!Grantable,
          Gate!AutoApprove, GatePhase, GateOp
      <3> QED
        BY <2>1, <3>1 DEF Gate!Next
    <2>3. CASE ~Exempt(c)
      <3>1. Gate!Ask(c)
        BY <1>6, <2>1, <2>3
        DEF DispatchProposal, Exempt, AutoKinds, Gate!Grantable, Gate!Ask,
          GatePhase, GateOp
      <3> QED
        BY <2>1, <3>1 DEF Gate!Next
    <2> QED
      BY <2>2, <2>3
  <1>7. CASE Perform
    <2>1. Gate!Perform
      BY <1>7 DEF Perform, AnswerCall, env, Gate!Perform, GatePhase, GateOp
    <2> QED
      BY <2>1 DEF Gate!Next
  <1>8. CASE Approve
    <2>1. Gate!Approve
      BY <1>8 DEF Approve, env, Gate!Approve, GatePhase, GateOp
    <2> QED
      BY <2>1 DEF Gate!Next
  <1>9. CASE Reject
    <2>1. Gate!Refuse
      BY <1>9 DEF Reject, AnswerCall, env, Gate!Refuse, GatePhase, GateOp
    <2> QED
      BY <2>1 DEF Gate!Next
  <1> QED
    BY <1>1, <1>2, <1>3, <1>4, <1>5, <1>6, <1>7, <1>8, <1>9
    DEF Next, Loop, Answer

(* Every behaviour of the loop is one GatedTurn allows: no operation is    *)
(* performed without its own grant, and Auto mode grants only edits, file  *)
(* operations and plans (loop.py:256-270).                                 *)
THEOREM AgentTurnImplementsGate == Spec => ImplementsGate
  BY GateInit, GateNext, IInvHolds, PTL DEF Spec, ImplementsGate, Gate!Spec
=============================================================================
