------------------------------ MODULE AgentTurn ------------------------------
(***************************************************************************)
(* run_agent_turn (agent/loop.py): the loop that drives one user turn.  It *)
(* asks the model for a reply, dispatches the tool calls of the reply one  *)
(* by one, pauses for the human wherever an operation needs it, and ends   *)
(* with an answer, a limit, an error or a cancellation.  The generator's   *)
(* caller (cli.py, server.py) appears as the environment: it starts turns, *)
(* answers the questions, cancels, and may abandon the turn.               *)
(*                                                                         *)
(* A call stands for its signature, the (name, arguments) pair of lines    *)
(* 430-446; its text, the tools' outputs and the events' wording are left  *)
(* out.  Of `messages' only what pairs results with requests is kept: the  *)
(* calls that some assistant message lists and no tool message answers,    *)
(* and whether the calls and arguments it holds can still be walked.       *)
(***************************************************************************)
EXTENDS Naturals, Sequences

CONSTANTS
    Call,            \* signatures: a tool name with its arguments
    NoCall,
    KindOf,          \* what executing the call proposes, when it succeeds
    NotObject,       \* calls that are not objects, or have no function object
    BadArguments,    \* calls whose arguments decode to a list, text or number
    PathCalls,       \* calls of the tools that require a path
    MaxIterations,   \* MAX_TOOL_ITERATIONS, or the max_iterations argument
    MaxRetries,      \* MAX_OLLAMA_RETRIES
    MaxIdentical,    \* MAX_CONSECUTIVE_IDENTICAL_CALLS
    MaxEscalations,  \* MAX_REPETITION_ESCALATIONS
    MaxNarrations,   \* MAX_NARRATION_RETRIES
    MaxBatch,        \* bound: the most calls in one reply
    MaxTurns         \* bound: the turns of one conversation

Kinds == {"plain", "edit", "file_op", "command", "git", "plan"}

(* The kinds auto_approve_edits resolves before the yield (lines 505, 523  *)
(* and 588); the command and git blocks never read the flag.               *)
AutoKinds == {"edit", "file_op", "plan"}

(* MUTATING_TOOL_NAMES: every operation but a plan counts as progress.     *)
MutatingKinds == {"edit", "file_op", "command", "git"}

ASSUME CallAssumption ==
    /\ NoCall \notin Call
    /\ KindOf \in [Call -> Kinds]
    /\ NotObject \subseteq Call /\ BadArguments \subseteq Call

ASSUME LimitsAssumption ==
    /\ MaxIterations \in Nat
    /\ MaxRetries \in Nat
    /\ MaxIdentical \in Nat \ {0, 1}
    /\ MaxEscalations \in Nat
    /\ MaxNarrations \in Nat \ {0}
    /\ MaxBatch \in Nat
    /\ MaxTurns \in Nat

VARIABLES
    pc,          \* where the generator stands
    iteration,   \* iterations of the for loop begun this turn
    retries,     \* retry_attempt
    narrations,  \* narration_retry_count
    mutated,     \* mutating_tool_called_this_turn
    lastCall,    \* last_call_signature
    repeats,     \* consecutive_call_count
    batch,       \* the calls of the current reply not dealt with yet
    auto,        \* auto_approve_edits
    cancelled,   \* cancel_event
    outcome,     \* how the last turn ended
    owed,        \* calls listed in `messages' that no tool message answers
    poisoned,    \* compact_messages cannot get through `messages'
    owedBefore,  \* the same two when the turn began, for the caller's
    poisonedBefore, \* rollback
    streak,      \* history: the last call executed, times in a row
    turns        \* turns begun, for the bound MaxTurns

control == <<iteration, retries, narrations>>
guards  == <<lastCall, repeats, mutated, streak>>
talk    == <<owed, poisoned>>
env     == <<auto, owedBefore, poisonedBefore, turns>>
vars == <<pc, control, guards, batch, cancelled, outcome, talk, env>>

(* The replies with tool calls the model can give, structured or recovered *)
(* from the text by the fallback parser.                                   *)
Batches == UNION {[1..n -> Call] : n \in 1..MaxBatch}

Outcomes == {"none", "answered", "narrated", "incomplete", "stalled", "error",
             "max_iterations", "cancelled", "raised", "broken", "abandoned"}

Init ==
    /\ pc = "ended"
    /\ iteration = 0 /\ retries = 0 /\ narrations = 0
    /\ mutated = FALSE
    /\ lastCall = NoCall /\ repeats = 0
    /\ streak = [call |-> NoCall, n |-> 0]
    /\ batch = <<>>
    /\ auto = FALSE
    /\ cancelled = FALSE
    /\ outcome = "none"
    /\ owed = <<>> /\ owedBefore = <<>>
    /\ poisoned = FALSE /\ poisonedBefore = FALSE
    /\ turns = 0

-----------------------------------------------------------------------------
(* The caller's side.                                                      *)

(* The caller appends the user's message and creates the generator, with   *)
(* the cancel event clear and the mode of that moment.                     *)
Begin ==
    /\ pc = "ended"
    /\ turns < MaxTurns
    /\ pc' = "top"
    /\ iteration' = 0 /\ retries' = 0 /\ narrations' = 0
    /\ mutated' = FALSE
    /\ lastCall' = NoCall /\ repeats' = 0
    /\ streak' = [call |-> NoCall, n |-> 0]
    /\ auto' \in BOOLEAN
    /\ cancelled' = FALSE
    /\ outcome' = "none"
    /\ owedBefore' = owed /\ poisonedBefore' = poisoned
    /\ turns' = turns + 1
    /\ UNCHANGED <<batch, talk>>

(* Stop Task sets the event; nothing but the next turn clears it.          *)
Cancel ==
    /\ pc # "ended"
    /\ cancelled' = TRUE
    /\ UNCHANGED <<pc, control, guards, batch, outcome, talk, env>>

(* The turn returns.  The locals die with the generator's frame.           *)
End(how) ==
    /\ pc' = "ended"
    /\ outcome' = how
    /\ batch' = <<>>

(* The connection breaks, or Ctrl+C lands: the caller drops the generator  *)
(* and deletes every message the turn has appended.                        *)
Abandon ==
    /\ pc # "ended"
    /\ End("abandoned")
    /\ owed' = owedBefore /\ poisoned' = poisonedBefore
    /\ UNCHANGED <<control, guards, cancelled, env>>

-----------------------------------------------------------------------------
(* One iteration: ask the model.                                           *)

(* The for loop is exhausted.                                              *)
ReachLimit ==
    /\ pc = "top"
    /\ iteration = MaxIterations
    /\ End("max_iterations")
    /\ UNCHANGED <<control, guards, cancelled, talk, env>>

(* Cancellation observed at the start of an iteration.                     *)
StopAtTop ==
    /\ pc = "top"
    /\ iteration < MaxIterations
    /\ cancelled
    /\ End("cancelled")
    /\ iteration' = iteration + 1
    /\ UNCHANGED <<retries, narrations, guards, cancelled, talk, env>>

(* Otherwise the conversation is compacted, which walks every call it      *)
(* holds, and nobody catches what that raises ...                          *)
CompactRaises ==
    /\ pc = "top"
    /\ iteration < MaxIterations
    /\ ~cancelled
    /\ poisoned
    /\ End("raised")
    /\ iteration' = iteration + 1
    /\ UNCHANGED <<retries, narrations, guards, cancelled, talk, env>>

(* ... and sent.                                                           *)
AskModel ==
    /\ pc = "top"
    /\ iteration < MaxIterations
    /\ ~cancelled
    /\ ~poisoned
    /\ pc' = "chat"
    /\ iteration' = iteration + 1
    /\ retries' = 0
    /\ UNCHANGED <<narrations, guards, batch, cancelled, outcome, talk, env>>

(* The stream notices the event at one of its lines; it may also end       *)
(* before it does.                                                         *)
ChatCancelled ==
    /\ pc = "chat"
    /\ cancelled
    /\ End("cancelled")
    /\ UNCHANGED <<control, guards, cancelled, talk, env>>

(* Mutant of ChatRetry: one attempt too many.                              *)
ChatRetryOnceMore ==
    /\ pc = "chat"
    /\ retries <= MaxRetries
    /\ retries' = retries + 1
    /\ pc' = "backoff"
    /\ UNCHANGED <<iteration, narrations, guards, batch, cancelled, outcome,
                   talk, env>>

(* Mutant of ChatRetry: the attempts are not counted.                      *)
ChatRetryForEver ==
    /\ pc = "chat"
    /\ retries < MaxRetries
    /\ pc' = "backoff"
    /\ UNCHANGED <<control, guards, batch, cancelled, outcome, talk, env>>

(* A connection error or a timeout, with attempts left.                    *)
ChatRetry ==
    /\ pc = "chat"
    /\ retries < MaxRetries
    /\ retries' = retries + 1
    /\ pc' = "backoff"
    /\ UNCHANGED <<iteration, narrations, guards, batch, cancelled, outcome,
                   talk, env>>

(* A connection error or a timeout with none left, or an error that is not *)
(* retried at all.                                                         *)
ChatError ==
    /\ pc = "chat"
    /\ End("error")
    /\ UNCHANGED <<control, guards, cancelled, talk, env>>

(* A failure of the stream that the client does not translate (a read that *)
(* times out between two lines) passes through every handler of the loop.  *)
ChatRaises ==
    /\ pc = "chat"
    /\ End("raised")
    /\ UNCHANGED <<control, guards, cancelled, talk, env>>

(* The backoff sleep ends early when the event is set, and looks at it     *)
(* once more when it ends on time.                                         *)
Backoff ==
    /\ pc = "backoff"
    /\ IF cancelled
         THEN End("cancelled")
         ELSE pc' = "chat" /\ UNCHANGED <<outcome, batch>>
    /\ UNCHANGED <<control, guards, cancelled, talk, env>>

-----------------------------------------------------------------------------
(* A reply without a tool call.                                            *)

(* Text that reads as unactioned narration is answered with a correction   *)
(* while nothing mutating was called and corrections are left.             *)
NeedsCorrection(narration) ==
    ~mutated /\ narrations < MaxNarrations /\ narration

Redirect ==
    /\ pc = "chat"
    /\ NeedsCorrection(TRUE)
    /\ narrations' = narrations + 1
    /\ pc' = "top"
    /\ UNCHANGED <<iteration, retries, guards, batch, cancelled, outcome, talk,
                   env>>

(* The final event: marked incomplete when the corrections are used up and *)
(* the text still reads as narration.                                      *)
FinalOutcome(narration) ==
    IF ~narration THEN "answered"
    ELSE IF narrations >= MaxNarrations THEN "incomplete"
    ELSE "narrated"

Finish(narration) ==
    /\ pc = "chat"
    /\ ~NeedsCorrection(narration)
    /\ End(FinalOutcome(narration))
    /\ UNCHANGED <<control, guards, cancelled, talk, env>>

-----------------------------------------------------------------------------
(* A reply with tool calls.                                                *)

(* The assistant's message lists the calls, in order.  Nothing looks at    *)
(* their form before the message is in the conversation.                   *)
ReplyWithCalls ==
    /\ pc = "chat"
    /\ \E calls \in Batches :
         /\ batch' = calls
         /\ owed' = owed \o calls
         /\ poisoned' = (poisoned \/ \E i \in DOMAIN calls : calls[i] \in NotObject)
    /\ pc' = "call"
    /\ UNCHANGED <<control, guards, cancelled, outcome, env>>

(* A path that is required and cannot be found in the arguments.           *)
Unusable == BadArguments \cap PathCalls

(* A tool message is appended for the call in hand, and the inner loop     *)
(* moves on.  compact_messages will take it for the answer to the oldest   *)
(* call that has none, and look for a path in the arguments of that one.   *)
AnswerCall ==
    /\ owed' = Tail(owed)
    /\ poisoned' = (poisoned \/ Head(owed) \in Unusable)
    /\ batch' = Tail(batch)
    /\ pc' = IF Len(batch) = 1 THEN "top" ELSE "call"

(* The call in hand is taken apart before it is counted: call.get and      *)
(* function.get raise when they are called on something else than an       *)
(* object, and the turn breaks off in the middle of its batch.             *)
CallRaises ==
    /\ pc = "call"
    /\ Head(batch) \in NotObject
    /\ End("broken")
    /\ UNCHANGED <<control, guards, cancelled, talk, env>>

Taken == pc = "call" /\ Head(batch) \notin NotObject

(* consecutive_call_count once the call in hand is counted.                *)
Count == IF Head(batch) = lastCall THEN repeats + 1 ELSE 1

CountCall ==
    /\ lastCall' = Head(batch)
    /\ repeats' = Count

(* Mutant of Escalation: counted from zero.                                *)
EscalationFromZero == Count - MaxIdentical

Escalation == Count - MaxIdentical + 1

(* The same call once too often: the turn ends in the middle of its batch. *)
GiveUp ==
    /\ Taken
    /\ Count >= MaxIdentical
    /\ Escalation > MaxEscalations
    /\ CountCall
    /\ End("stalled")
    /\ UNCHANGED <<control, mutated, streak, cancelled, talk, env>>

(* The repeated call is answered with a notice and not executed.           *)
Intercept ==
    /\ Taken
    /\ Count >= MaxIdentical
    /\ Escalation <= MaxEscalations
    /\ CountCall
    /\ AnswerCall
    /\ UNCHANGED <<control, mutated, streak, cancelled, outcome, env>>

(* The registry executes the call; the mutating flag is set before it      *)
(* does, whatever comes of it.                                             *)
Dispatch ==
    /\ Taken
    /\ Count < MaxIdentical
    /\ CountCall
    /\ mutated' = (mutated \/ KindOf[Head(batch)] \in MutatingKinds)
    /\ streak' = [call |-> Head(batch),
                  n |-> IF streak.call = Head(batch) THEN streak.n + 1 ELSE 1]

(* Nothing is proposed: a tool that only reads, or one that failed.        *)
(* Arguments that are no object count as none at all, so a tool that needs *)
(* a path cannot succeed.                                                  *)
DispatchPlain ==
    /\ Dispatch
    /\ Head(batch) \notin Unusable
    /\ AnswerCall
    /\ UNCHANGED <<control, cancelled, outcome, env>>

(* A failed call has no display of its own, and _describe_call raises when *)
(* the arguments it describes are no object.                               *)
DescribeRaises ==
    /\ Dispatch
    /\ Head(batch) \in BadArguments
    /\ End("broken")
    /\ UNCHANGED <<control, cancelled, talk, env>>

(* Mutant of Exempt: Auto mode covers every kind.                          *)
ExemptAny(c) == auto

(* An operation is proposed.  Auto mode has granted some kinds by the time *)
(* the event is shown; the turn pauses for all others.                     *)
Exempt(c) == auto /\ KindOf[c] \in AutoKinds

DispatchProposal ==
    /\ Dispatch
    /\ Head(batch) \notin Unusable
    /\ KindOf[Head(batch)] # "plain"
    /\ pc' = IF Exempt(Head(batch)) THEN "perform" ELSE "confirm"
    /\ UNCHANGED <<control, batch, cancelled, outcome, talk, env>>

(* The caller sends back the human's answer.                               *)
Approve ==
    /\ pc = "confirm"
    /\ pc' = "perform"
    /\ UNCHANGED <<control, guards, batch, cancelled, outcome, talk, env>>

(* Mutant of Reject: the loop goes on without a tool message.              *)
RejectSilently ==
    /\ pc = "confirm"
    /\ batch' = Tail(batch)
    /\ pc' = IF Len(batch) = 1 THEN "top" ELSE "call"
    /\ UNCHANGED <<control, guards, cancelled, outcome, talk, env>>

Reject ==
    /\ pc = "confirm"
    /\ AnswerCall
    /\ UNCHANGED <<control, guards, cancelled, outcome, env>>

(* The operation is performed: applied, adopted, or run to its end, its    *)
(* timeout or its cancellation.  Success and failure both become the       *)
(* call's tool message.                                                    *)
Perform ==
    /\ pc = "perform"
    /\ AnswerCall
    /\ UNCHANGED <<control, guards, cancelled, outcome, env>>

(* What is performed is called without the net around a tool's run: a path *)
(* that may not be looked at, a null byte in an argument or output of git  *)
(* that is not text raises what nobody translates.  A plan has none.       *)
PerformRaises ==
    /\ pc = "perform"
    /\ KindOf[Head(batch)] # "plan"
    /\ End("broken")
    /\ UNCHANGED <<control, guards, cancelled, talk, env>>

-----------------------------------------------------------------------------
Loop ==
    \/ ReachLimit \/ StopAtTop \/ CompactRaises \/ AskModel
    \/ ChatCancelled \/ ChatRetry \/ ChatError \/ ChatRaises \/ Backoff
    \/ Redirect
    \/ \E narration \in BOOLEAN : Finish(narration)
    \/ ReplyWithCalls
    \/ CallRaises \/ GiveUp \/ Intercept
    \/ DispatchPlain \/ DescribeRaises \/ DispatchProposal
    \/ Perform \/ PerformRaises

Answer == Approve \/ Reject

Next == Begin \/ Cancel \/ Abandon \/ Loop \/ Answer

Spec == Init /\ [][Next]_vars

(* The generator runs whenever its caller iterates, and every caller sends *)
(* an answer to every question: the CLI prompts, the server polls.         *)
FairSpec == Spec /\ WF_vars(Loop) /\ WF_vars(Answer)

-----------------------------------------------------------------------------
(* Properties.                                                             *)

(* Every variable stays within its type; the counters of the loop stay     *)
(* within the limits loop.py names.                                        *)
TypeOK ==
    /\ pc \in {"ended", "top", "chat", "backoff", "call", "confirm", "perform"}
    /\ iteration \in 0..MaxIterations
    /\ retries \in 0..MaxRetries
    /\ narrations \in 0..MaxNarrations
    /\ mutated \in BOOLEAN
    /\ lastCall \in Call \cup {NoCall}
    /\ repeats \in Nat
    /\ batch \in Seq(Call)
    /\ batch # <<>> <=> pc \in {"call", "confirm", "perform"}
    /\ auto \in BOOLEAN
    /\ cancelled \in BOOLEAN
    /\ outcome \in Outcomes
    /\ owed \in Seq(Call)
    /\ owedBefore \in Seq(Call)
    /\ poisoned \in BOOLEAN /\ poisonedBefore \in BOOLEAN
    /\ streak \in [call : Call \cup {NoCall}, n : Nat]
    /\ turns \in 0..MaxTurns

(* The repetition guard (loop.py:52-56): one call is never executed        *)
(* MaxIdentical times with no other call executed in between, however the  *)
(* repeats are spread over replies, interceptions and iterations.          *)
NoRunawayCall == streak.n < MaxIdentical

(* The repetition guard ends the turn (loop.py:58-69): no call is requested *)
(* more than MaxIdentical + MaxEscalations times in a row, and the request *)
(* that reaches this number is the turn's last.                            *)
RepetitionEndsTurn ==
    /\ repeats <= MaxIdentical + MaxEscalations
    /\ repeats = MaxIdentical + MaxEscalations => pc = "ended"

(* The ends of a turn in the middle of its batch: it gave up on a repeated *)
(* call, or an exception went through it.                                  *)
CutShort == {"stalled", "broken"}

(* Requests and results balance (context_manager.py:169-174): whenever the *)
(* conversation goes to the model, and when a turn is over that was not    *)
(* cut short, the turn has left no call of its own unanswered.  One that   *)
(* was leaves at least the call it was cut at, and never more than the     *)
(* calls of one reply.                                                     *)
NoCallLeftUnanswered ==
    /\ \/ pc \in {"top", "chat", "backoff"}
       \/ pc = "ended" /\ outcome \notin CutShort
         => Len(owed) = Len(owedBefore)
    /\ pc = "ended" /\ outcome \in CutShort
         => Len(owed) \in (Len(owedBefore) + 1)..(Len(owedBefore) + MaxBatch)

(* A cancelled turn asks the model nothing new (loop.py:249-252): from no  *)
(* point of the loop, a retry's backoff included, does it send again.      *)
CancelledTurnAsksNoMore ==
    [][cancelled /\ pc # "chat" => pc' # "chat"]_vars

(* Every turn comes to an end, if its questions are answered: retries,     *)
(* corrections, repetitions and tool calls cannot go on for ever.          *)
TurnEnds == (pc # "ended") ~> (pc = "ended")

(* What context_manager.py:169-174 relies on: the result about to be       *)
(* appended belongs to the oldest call that has none.                      *)
ResultsPairInOrder == batch # <<>> => Head(owed) = Head(batch)

(* Where the loop is, as GatedTurn sees it: the operation it considers is  *)
(* that of the call in hand, from the question to its last effect.         *)
GatePhase ==
    CASE pc = "ended"   -> "ended"
      [] pc = "confirm" -> "asking"
      [] pc = "perform" -> "granted"
      [] OTHER          -> "working"

GateOp == IF pc \in {"confirm", "perform"} THEN Head(batch) ELSE NoCall

Gate == INSTANCE GatedTurn WITH phase <- GatePhase, op <- GateOp

(* The loop keeps the promise of GatedTurn: no operation is performed      *)
(* without its own grant, and Auto mode grants only edits, file operations *)
(* and plans (loop.py:256-270).                                            *)
ImplementsGate == Gate!Spec
=============================================================================
