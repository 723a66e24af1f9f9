---------------------------- MODULE SessionServer ----------------------------
(***************************************************************************)
(* One workspace's Session in agent/server.py and the threads that handle  *)
(* requests for it.  ThreadingHTTPServer gives every request a thread; the *)
(* threads of /chat, /chat/confirm, /task/stop and /task/new share the     *)
(* session's lock, cancel event, confirm queue and awaiting_confirm flag.  *)
(*                                                                         *)
(* The turn a /chat thread drives is AgentTurn's, reduced to what the      *)
(* session sees of it: it asks questions, it ends, and once its cancel     *)
(* event is set it asks at most the questions of the batch it is in.       *)
(* SessionStore.reset replaces tracker, task state, registry, messages and *)
(* cancel event together: `gen' names the set that is current, and a turn  *)
(* keeps the set it was created with.                                      *)
(***************************************************************************)
EXTENDS Naturals, Sequences

CONSTANTS
    Chats,          \* requests to /chat, each with the thread that handles it
    Confirms,       \* requests to /chat/confirm
    Stops,          \* requests to /task/stop
    News,           \* requests to /task/new
    NoOne,          \* the lock is free
    MaxAsks         \* bound: questions a turn asks

Threads == Chats \cup Confirms \cup Stops \cup News

ASSUME ThreadAssumption ==
    /\ NoOne \notin Threads
    /\ Chats \cap (Confirms \cup Stops \cup News) = {}
    /\ Confirms \cap (Stops \cup News) = {}
    /\ Stops \cap News = {}
    /\ MaxAsks \in Nat

VARIABLES
    pc,        \* where each request's thread stands
    lock,      \* session.lock: the thread that took it
    gen,       \* the session's current state set
    cancel,    \* the state sets whose cancel event is set
    awaiting,  \* session.awaiting_confirm
    queue,     \* session.confirm_queue, each answer with the question it is for
    turnGen,   \* turnGen[t]: the state set t's turn was created with
    asked,     \* asked[t]: questions t's turn has asked
    answer,    \* answer[t]: what _wait_for_confirm returned to t
    sent       \* sent[k]: the answer request k carries

session == <<lock, gen, cancel, awaiting, queue>>
vars == <<pc, session, turnGen, asked, answer, sent>>

(* The question t's turn has open, or asked last.                          *)
Question(t) == <<t, asked[t]>>

NoQuestion == <<NoOne, 0>>

NoAnswer == [approved |-> FALSE, for |-> NoQuestion]

Init ==
    /\ pc = [t \in Threads |-> "new"]
    /\ lock = NoOne
    /\ gen = 1
    /\ cancel = {}
    /\ awaiting = FALSE
    /\ queue = <<>>
    /\ turnGen = [t \in Chats |-> 1]
    /\ asked = [t \in Chats |-> 0]
    /\ answer = [t \in Chats |-> NoAnswer]
    /\ sent = [k \in Confirms |-> NoAnswer]

At(t, from, to) ==
    /\ pc[t] = from
    /\ pc' = [pc EXCEPT ![t] = to]

-----------------------------------------------------------------------------
(* /chat.                                                                  *)

(* The lock is taken without waiting, or the request is refused with 409.  *)
ChatAcquire(t) ==
    /\ lock = NoOne
    /\ At(t, "new", "locked")
    /\ lock' = t
    /\ UNCHANGED <<gen, cancel, awaiting, queue, turnGen, asked, answer,
                   sent>>

ChatRefuse(t) ==
    /\ lock # NoOne
    /\ At(t, "new", "refused")
    /\ UNCHANGED <<session, turnGen, asked, answer, sent>>

(* The current cancel event is cleared and the user's message appended to  *)
(* the current messages.                                                   *)
ChatClear(t) ==
    /\ At(t, "locked", "cleared")
    /\ cancel' = cancel \ {gen}
    /\ UNCHANGED <<lock, gen, awaiting, queue, turnGen, asked, answer,
                   sent>>

(* The headers are on their way, and the generator is created from the     *)
(* state set the session has now.                                          *)
ChatStart(t) ==
    /\ At(t, "cleared", "run")
    /\ turnGen' = [turnGen EXCEPT ![t] = gen]
    /\ UNCHANGED <<session, asked, answer, sent>>

(* The turn yields a confirm event and its line is written: the client has *)
(* the question from here on, if it still listens: the first write to a    *)
(* connection the client has closed succeeds.                              *)
Ask(t) ==
    /\ asked[t] < MaxAsks
    /\ At(t, "run", "shown")
    /\ asked' = [asked EXCEPT ![t] = @ + 1]
    /\ UNCHANGED <<session, turnGen, answer, sent>>

(* Only then does the session say that it awaits an answer.                *)
StartWaiting(t) ==
    /\ At(t, "shown", "wait")
    /\ awaiting' = TRUE
    /\ UNCHANGED <<lock, gen, cancel, queue, turnGen, asked, answer, sent>>

(* Mutant of WaitCancelled: the poll returns no value.                     *)
WaitReturnsNone(t) ==
    /\ gen \in cancel
    /\ At(t, "wait", "answered")
    /\ answer' = [answer EXCEPT ![t] = NoOne]
    /\ UNCHANGED <<session, turnGen, asked, sent>>

(* Mutant of WaitCancelled: the event is looked at once an answer is there. *)
WaitBlocks(t) ==
    /\ gen \in cancel
    /\ queue # <<>>
    /\ At(t, "wait", "answered")
    /\ answer' = [answer EXCEPT
                    ![t] = [approved |-> FALSE, for |-> Question(t)]]
    /\ UNCHANGED <<session, turnGen, asked, sent>>

(* _wait_for_confirm: the poll sees the session's cancel event and returns *)
(* False, leaving the queue as it is ...                                   *)
WaitCancelled(t) ==
    /\ gen \in cancel
    /\ At(t, "wait", "answered")
    /\ answer' = [answer EXCEPT
                    ![t] = [approved |-> FALSE, for |-> Question(t)]]
    /\ UNCHANGED <<session, turnGen, asked, sent>>

(* Mutant of WaitTake: the answer stays in the queue.                      *)
WaitPeek(t) ==
    /\ queue # <<>>
    /\ At(t, "wait", "answered")
    /\ answer' = [answer EXCEPT ![t] = Head(queue)]
    /\ UNCHANGED <<session, turnGen, asked, sent>>

(* ... or takes the oldest answer off it.  A get that is blocked when the  *)
(* answer arrives takes it even if the event has been set meanwhile.       *)
WaitTake(t) ==
    /\ queue # <<>>
    /\ At(t, "wait", "answered")
    /\ answer' = [answer EXCEPT ![t] = Head(queue)]
    /\ queue' = Tail(queue)
    /\ UNCHANGED <<lock, gen, cancel, awaiting, turnGen, asked, sent>>

(* The flag is lowered and the answer sent into the generator, which       *)
(* performs the operation or reports the rejection, and runs on.           *)
Resume(t) ==
    /\ At(t, "answered", "run")
    /\ awaiting' = FALSE
    /\ answer' = [answer EXCEPT ![t] = NoAnswer]
    /\ UNCHANGED <<lock, gen, cancel, queue, turnGen, asked, sent>>

(* The turn is over: by its own end, by its cancel event, or because a     *)
(* line could not be written to a client that is gone, and the turn was    *)
(* rolled back; or the headers could not be sent and there is no turn.     *)
(* The lock is released in every case.                                     *)
ChatEnd(t) ==
    /\ At(t, "run", "done") \/ At(t, "cleared", "done")
    /\ lock' = NoOne
    /\ UNCHANGED <<gen, cancel, awaiting, queue, turnGen, asked, answer,
                   sent>>

-----------------------------------------------------------------------------
(* /chat/confirm.                                                          *)

(* The questions whose lines a client has received and may answer: the one *)
(* that is open, or an earlier one, by a repeated or late request.  A      *)
(* client that has gone away is one that sends no answer.                  *)
SeenQuestions == {q \in Chats \X (1..MaxAsks) : q[2] <= asked[q[1]]}

(* The handler looks at awaiting_confirm first ...                         *)
ConfirmCheck(k) ==
    /\ awaiting
    /\ \E q \in SeenQuestions, approved \in BOOLEAN :
         sent' = [sent EXCEPT ![k] = [approved |-> approved, for |-> q]]
    /\ At(k, "new", "checked")
    /\ UNCHANGED <<session, turnGen, asked, answer>>

(* ... and refuses with 409 when it is not raised.                         *)
ConfirmRefuse(k) ==
    /\ ~awaiting
    /\ SeenQuestions # {}
    /\ At(k, "new", "refused")
    /\ UNCHANGED <<session, turnGen, asked, answer, sent>>

ConfirmPut(k) ==
    /\ At(k, "checked", "done")
    /\ queue' = Append(queue, sent[k])
    /\ UNCHANGED <<lock, gen, cancel, awaiting, turnGen, asked, answer,
                   sent>>

-----------------------------------------------------------------------------
(* /task/stop, and the first half of /task/new.                            *)

(* Mutant of SetCancel: only a waiting turn is stopped.                    *)
SetCancelIfAwaiting(r) ==
    /\ At(r, "new", "set")
    /\ cancel' = IF awaiting THEN cancel \cup {gen} ELSE cancel
    /\ UNCHANGED <<lock, gen, awaiting, queue, turnGen, asked, answer,
                   sent>>

SetCancel(r) ==
    /\ At(r, "new", "set")
    /\ cancel' = cancel \cup {gen}
    /\ UNCHANGED <<lock, gen, awaiting, queue, turnGen, asked, answer,
                   sent>>

(* A waiting turn is sent a rejection.                                     *)
PutRejection(r, to) ==
    /\ At(r, "set", to)
    /\ queue' = IF awaiting THEN Append(queue, NoAnswer) ELSE queue
    /\ UNCHANGED <<lock, gen, cancel, awaiting, turnGen, asked, answer,
                   sent>>

(* /task/new waits for the turn in progress to release the lock ...        *)
NewAcquire(n) ==
    /\ lock = NoOne
    /\ At(n, "drain", "drained")
    /\ lock' = n
    /\ UNCHANGED <<gen, cancel, awaiting, queue, turnGen, asked, answer,
                   sent>>

(* ... but not for ever.                                                   *)
NewTimeout(n) ==
    /\ lock # NoOne
    /\ At(n, "drain", "timeout")
    /\ UNCHANGED <<session, turnGen, asked, answer, sent>>

(* Mutant of NewReset: the lock is released also by a thread that timed    *)
(* out on it.                                                              *)
NewResetReleases(n) ==
    /\ \/ At(n, "drained", "done")
       \/ At(n, "timeout", "forced")
    /\ lock' = NoOne
    /\ gen' = gen + 1
    /\ UNCHANGED <<cancel, awaiting, queue, turnGen, asked, answer, sent>>

(* Mutant of NewReset: no turn is waited for.                              *)
NewResetAtOnce(n) ==
    /\ At(n, "drain", "done")
    /\ gen' = gen + 1
    /\ UNCHANGED <<lock, cancel, awaiting, queue, turnGen, asked, answer,
                   sent>>

(* SessionStore.reset, in either case; the lock is released only by the    *)
(* thread that took it.  The confirm queue, the flag and the mode stay.    *)
NewReset(n) ==
    /\ \/ At(n, "drained", "done") /\ lock' = NoOne
       \/ At(n, "timeout", "forced") /\ UNCHANGED lock
    /\ gen' = gen + 1
    /\ UNCHANGED <<cancel, awaiting, queue, turnGen, asked, answer, sent>>

-----------------------------------------------------------------------------
ChatStep(t) ==
    \/ ChatClear(t) \/ ChatStart(t) \/ Ask(t) \/ StartWaiting(t)
    \/ WaitCancelled(t) \/ WaitTake(t) \/ Resume(t) \/ ChatEnd(t)

NewStep(n) ==
    PutRejection(n, "drain") \/ NewAcquire(n) \/ NewTimeout(n) \/ NewReset(n)

ControlStep ==
    \/ \E k \in Confirms : ConfirmPut(k)
    \/ \E s \in Stops : PutRejection(s, "done")
    \/ \E n \in News : NewStep(n)

ClientStep ==
    \/ \E t \in Chats : ChatAcquire(t) \/ ChatRefuse(t)
    \/ \E k \in Confirms : ConfirmCheck(k) \/ ConfirmRefuse(k)
    \/ \E r \in Stops \cup News : SetCancel(r)

Next == ClientStep \/ ControlStep \/ \E t \in Chats : ChatStep(t)

Spec == Init /\ [][Next]_vars

(* A thread that has been given a request runs on; a client need not send  *)
(* one.                                                                    *)
FairSpec ==
    /\ Spec
    /\ \A t \in Chats : WF_vars(ChatStep(t))
    /\ WF_vars(ControlStep)

-----------------------------------------------------------------------------
(* Properties.                                                             *)

ChatStates == {"new", "refused", "locked", "cleared", "run", "shown", "wait",
               "answered", "done"}

NewStates == {"new", "set", "drain", "drained", "timeout", "done", "forced"}

Answers == [approved : BOOLEAN, for : (Chats \cup {NoOne}) \X Nat]

(* Every variable stays within its type.                                   *)
TypeOK ==
    /\ pc \in [Threads -> ChatStates \cup NewStates \cup {"checked"}]
    /\ \A t \in Chats : pc[t] \in ChatStates
    /\ \A k \in Confirms : pc[k] \in {"new", "refused", "checked", "done"}
    /\ \A s \in Stops : pc[s] \in {"new", "set", "done"}
    /\ \A n \in News : pc[n] \in NewStates
    /\ lock \in Threads \cup {NoOne}
    /\ gen \in Nat
    /\ cancel \subseteq Nat
    /\ awaiting \in BOOLEAN
    /\ queue \in Seq(Answers)
    /\ turnGen \in [Chats -> Nat]
    /\ asked \in [Chats -> Nat]
    /\ answer \in [Chats -> Answers]
    /\ sent \in [Confirms -> Answers]

(* A chat whose thread is inside the locked part of _handle_chat.          *)
Driving(t) ==
    pc[t] \in {"locked", "cleared", "run", "shown", "wait", "answered"}

(* A turn is in progress: its generator exists and has not returned.       *)
InTurn(t) == pc[t] \in {"run", "shown", "wait", "answered"}

(* README "Workspace isolation": a second /chat while one is in flight is  *)
(* refused, never mixed in.  Two turns never run at once, nor a turn while *)
(* /task/new holds the lock, even when /task/new gives up waiting.         *)
OneTurnAtATime ==
    /\ \A t, u \in Chats : Driving(t) /\ Driving(u) => t = u
    /\ \A t \in Chats, n \in News : ~(Driving(t) /\ pc[n] = "drained")

(* awaiting_confirm tells the truth: it is raised only while the turn that *)
(* runs has an open question, so no answer is accepted between turns.      *)
FlagMeansQuestion ==
    awaiting => \E t \in Chats : pc[t] \in {"wait", "answered"}

(* What the drain can break: some /task/new has reset the session under a  *)
(* turn that was still running.                                            *)
ForcedReset == \E n \in News : pc[n] \in {"timeout", "forced"}

(* A turn works on the session's current messages, tracker and task state, *)
(* unless a drain ran out.                                                 *)
TurnOwnsSession ==
    ForcedReset \/ \A t \in Chats : InTurn(t) => turnGen[t] = gen

(* Stop Task reaches the turn in progress (README, /task/stop): the event  *)
(* it sets is the one that turn looks at.                                  *)
StopReachesTurn ==
    [][\A s \in Stops, t \in Chats :
         pc[s] = "new" /\ pc'[s] = "set" /\ InTurn(t) => turnGen[t] \in cancel'
      ]_vars

(* The same, for as long as no drain has run out.                          *)
StopReachesTurnIfDrained ==
    [][\A s \in Stops, t \in Chats :
         pc[s] = "new" /\ pc'[s] = "set" /\ InTurn(t)
           => ForcedReset \/ turnGen[t] \in cancel'
      ]_vars

(* The answers given out of order, twice or beside a Stop: what a client   *)
(* that answers each open question once never does.                        *)
Disturbed ==
    \/ \E r \in Stops \cup News : pc[r] # "new"
    \/ \E k, l \in Confirms : k # l /\ sent[k].for = sent[l].for
                              /\ sent[k].for # NoQuestion

(* The human's approval counts for the operation the human was shown       *)
(* (loop.py:265-270): an approved answer that resumes a question was given *)
(* for that question.                                                      *)
ApprovalIsForQuestion ==
    \A t \in Chats :
        pc[t] = "answered" /\ answer[t].approved => answer[t].for = Question(t)

(* The same, and for rejections too, while clients answer every question   *)
(* once and nobody presses Stop.                                           *)
CalmAnswersMatch ==
    Disturbed
    \/ \A t \in Chats : pc[t] = "answered" => answer[t].for = Question(t)

(* A turn whose event is set comes to an end although nobody answers its   *)
(* question, unless a drain runs out (README, /task/stop: "or paused on an *)
(* approval").                                                             *)
StoppedTurnEnds ==
    \A t \in Chats :
        InTurn(t) /\ turnGen[t] \in cancel ~> (pc[t] = "done" \/ ForcedReset)
=============================================================================
