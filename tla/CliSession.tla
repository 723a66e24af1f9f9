----------------------------- MODULE CliSession ------------------------------
(***************************************************************************)
(* The interactive session: cli.py's prompt and render_turn, with the part *)
(* of run_agent_turn that asks, performs and records.  The human types,    *)
(* answers questions and presses Ctrl+C whenever the program is not at the *)
(* prompt; the model proposes.  A turn is a generator: after every effect  *)
(* it yields an event, and records the effect in the task's memory when it *)
(* is resumed, which an interrupted one never is.                          *)
(*                                                                         *)
(* A reply of the model holds one call; batches, redirections and retries  *)
(* are AgentTurn's, what may happen to a file behind the agent's back is   *)
(* WorkingSet's and FileEdits'.                                            *)
(***************************************************************************)
EXTENDS TaskMemory, FiniteSets

CONSTANTS
    FileOf,     \* the file each path resolves to
    None,       \* no argument
    MaxTurns,   \* bound: messages of the human
    MaxCalls    \* bound: calls of the model, and /new; one less in every
                \* turn after the first

(* A project has finitely many files, each with finitely many paths.       *)
ASSUME PathAssumption == IsFiniteSet(Path) /\ DOMAIN FileOf = Path

File == {FileOf[p] : p \in Path}

ASSUME SessionAssumption == {MaxTurns, MaxCalls} \subseteq Nat

VARIABLES
    mode,       \* "manual" or "auto"
    pc,         \* "prompt"; in a turn: "model", "asked", "approved", "event"
    messages,   \* the conversation after the system prompt
    turn,       \* the number of the last turn
    before,     \* history_len_before
    approveAll, \* turn_state["approve_all"]
    call,       \* the call of the model at hand
    owed,       \* the last effect in the log is still to be recorded
    task,       \* task_state
    files,      \* the files that exist
    calls,
    aborted,    \* history: turns that were interrupted
    said,       \* history: the answers of the turn that may still matter, by
                \* number of the call
    log,        \* history: what was done in the task, in order
    torn        \* history: an effect of the task was never recorded

memory == <<task, files, log, torn>>
convo  == <<messages, turn, before, aborted>>
vars   == <<mode, pc, convo, approveAll, call, owed, memory, calls, said>>

Call(kind, arg, to) == [kind |-> kind, arg |-> arg, to |-> to]
NoCall == Call("none", None, None)

Gated == {"edit", "delete", "rename", "command", "git", "plan"}
OfFiles == {"edit", "delete", "rename"}
AutoApproved == OfFiles \cup {"plan"}

Message(role) == [turn |-> turn, role |-> role]

Init ==
    /\ mode = "manual"
    /\ pc = "prompt"
    /\ messages = <<>> /\ turn = 0 /\ before = 0 /\ aborted = {}
    /\ approveAll = FALSE
    /\ call = NoCall /\ owed = FALSE
    /\ task = NewTask
    /\ files \in SUBSET File
    /\ log = <<>> /\ torn = FALSE
    /\ calls = 0
    /\ said = {}

-----------------------------------------------------------------------------
(* At the prompt.                                                          *)

SetMode(m) ==
    /\ pc = "prompt"
    /\ mode' = m
    /\ UNCHANGED <<pc, convo, approveAll, call, owed, memory, calls, said>>

(* /new.  Files and mode stay.                                             *)
FreshSession ==
    /\ pc = "prompt"
    /\ calls < MaxCalls
    /\ calls' = calls + 1
    /\ task' = NewTask /\ log' = <<>> /\ torn' = FALSE
    /\ messages' = <<>>
    /\ UNCHANGED <<mode, pc, turn, before, aborted, approveAll, call, owed, files,
                   said>>

(* Mutant of BeginTurn: turn_state is one of the session.                  *)
BeginTurnKeepsApproval ==
    /\ pc = "prompt"
    /\ turn < MaxTurns
    /\ turn' = turn + 1
    /\ before' = Len(messages)
    /\ messages' = Append(messages, [turn |-> turn', role |-> "user"])
    /\ pc' = "model"
    /\ UNCHANGED <<mode, call, owed, memory, calls, said, aborted, approveAll>>

(* Mutant of BeginTurn: the length is taken after the message was added.   *)
BeginTurnCountsMessage ==
    /\ pc = "prompt"
    /\ turn < MaxTurns
    /\ turn' = turn + 1
    /\ messages' = Append(messages, [turn |-> turn', role |-> "user"])
    /\ before' = Len(messages')
    /\ approveAll' = FALSE
    /\ pc' = "model"
    /\ UNCHANGED <<mode, call, owed, memory, calls, said, aborted>>

BeginTurn ==
    /\ pc = "prompt"
    /\ turn < MaxTurns
    /\ turn' = turn + 1
    /\ before' = Len(messages)
    /\ messages' = Append(messages, [turn |-> turn', role |-> "user"])
    /\ approveAll' = FALSE
    /\ pc' = "model"
    /\ UNCHANGED <<mode, call, owed, memory, calls, said, aborted>>

-----------------------------------------------------------------------------
(* The model.                                                              *)

Turn == UNCHANGED <<mode, turn, before, aborted>>

(* A final answer; or none, at the limit or after an error of the client,  *)
(* which leaves the turn's messages as they are.                           *)
EndTurn(answered) ==
    /\ pc = "model"
    /\ messages' = IF answered THEN Append(messages, Message("assistant")) ELSE messages
    /\ pc' = "prompt" /\ said' = {}
    /\ Turn
    /\ UNCHANGED <<approveAll, call, owed, memory, calls>>

Reply(c) ==
    /\ pc = "model"
    /\ calls + turn <= MaxCalls
    /\ calls' = calls + 1
    /\ messages' = Append(messages, Message("assistant"))
    /\ call' = c
    /\ Turn
    /\ UNCHANGED <<approveAll, files, torn, said>>

(* read_file: recorded after the event of the call.                        *)
Read(p) ==
    /\ Reply(Call("read", p, None))
    /\ FileOf[p] \in files
    /\ owed' = TRUE
    /\ log' = Append(log, [kind |-> "read", arg |-> p, to |-> None, outcome |-> "none"])
    /\ pc' = "event"
    /\ UNCHANGED task

(* update_plan: takes effect before the event.  Any step, any status.      *)
UpdatePlan(i, s) ==
    /\ Reply(Call("update", None, None))
    /\ i \in 1..Len(task.plan)
    /\ task' = UpdateStep(task, i, s)
    /\ owed' = FALSE
    /\ pc' = "event"
    /\ UNCHANGED log

(* A tool that fails, or has nothing to change or record.                  *)
OtherCall ==
    /\ Reply(NoCall)
    /\ owed' = FALSE
    /\ pc' = "event"
    /\ UNCHANGED <<task, log>>

(* A proposal.  The question is skipped for files and plans in Auto mode,  *)
(* and for files after "approve all".                                      *)
Unasked(kind) ==
    \/ mode = "auto" /\ kind \in AutoApproved
    \/ approveAll /\ kind \in OfFiles

Propose(kind, arg, to) ==
    /\ Reply(Call(kind, arg, to))
    /\ owed' = FALSE
    /\ pc' = IF Unasked(kind) THEN "approved" ELSE "asked"
    /\ UNCHANGED <<task, log>>

ProposeFile ==
    \E p \in Path :
        \/ Propose("edit", p, None)
        \/ FileOf[p] \in files /\ Propose("delete", p, None)
        \/ FileOf[p] \in files /\ \E q \in {q \in Path : FileOf[q] \notin files} :
             Propose("rename", p, q)

ProposePlan == \E n \in MinSteps..MaxSteps : Propose("plan", n, None)

ProposeCommand == \E c \in Command : Propose("command", c, None)
ProposeGit     == \E o \in GitOp : Propose("git", o, None)

-----------------------------------------------------------------------------
(* The human's answer.  Only a plan is approved by anything but a no, and  *)
(* only for files may it be "all".                                         *)

Words == {"yes", "all", "no", "enter"}

FileWord(word)    == word \in {"yes", "all"}
CommandWord(word) == word = "yes"
GitWord(word)     == word = "yes"
PlanWord(word)    == word # "no"

Approves(kind, word) ==
    CASE kind \in OfFiles  -> FileWord(word)
      [] kind = "command"  -> CommandWord(word)
      [] kind = "git"      -> GitWord(word)
      [] kind = "plan"     -> PlanWord(word)

Answer(word) ==
    /\ pc = "asked"
    /\ said' = said \cup {[n |-> calls, kind |-> call.kind, word |-> word]}
    /\ approveAll' = (approveAll \/ (call.kind \in OfFiles /\ word = "all"))
    /\ pc' = IF Approves(call.kind, word) THEN "approved" ELSE "event"
    /\ Turn
    /\ UNCHANGED <<messages, call, owed, memory, calls>>

-----------------------------------------------------------------------------
(* An approved operation, up to its event.                                 *)

(* The answers that are good for more than one question.                   *)
Standing == {a \in said : a.kind \in OfFiles /\ a.word = "all"}

Perform(outcome, done) ==
    /\ pc = "approved"
    /\ pc' = "event"
    /\ owed' = done
    /\ log' = IF done \/ outcome = "unverified"
              THEN Append(log, [kind |-> call.kind, arg |-> call.arg, to |-> call.to,
                                outcome |-> outcome])
              ELSE log
    /\ Turn
    /\ said' = Standing
    /\ UNCHANGED <<messages, approveAll, call, torn, calls>>

(* apply_change, apply_file_op.  A failure leaves the files as they were,  *)
(* but an edit also fails, and is not recorded, if the file that was       *)
(* written could not be read back, or had been changed by then.            *)
ApplyToFiles ==
    /\ call.kind \in OfFiles
    /\ \/ /\ \/ Perform("none", TRUE)
             \/ call.kind = "edit" /\ Perform("unverified", FALSE)
          /\ files' = CASE call.kind = "edit"   -> files \cup {FileOf[call.arg]}
                        [] call.kind = "delete" -> files \ {FileOf[call.arg]}
                        [] call.kind = "rename" ->
                             (files \ {FileOf[call.arg]}) \cup {FileOf[call.to]}
       \/ Perform("none", FALSE) /\ UNCHANGED files
    /\ UNCHANGED task

RunCommand(o) ==
    /\ call.kind = "command"
    /\ Perform(o, TRUE)
    /\ UNCHANGED <<task, files>>

ApplyGit(ok) ==
    /\ call.kind = "git"
    /\ Perform("none", ok)
    /\ UNCHANGED <<task, files>>

(* An approved plan is the active one before its event.                    *)
AdoptPlan ==
    /\ call.kind = "plan"
    /\ Perform("none", FALSE)
    /\ task' = [task EXCEPT !.plan = Proposed(call.arg)]
    /\ UNCHANGED files

(* What record_* make of an effect.                                        *)
Recorded(t, e) ==
    CASE e.kind = "read"    -> NoteInspected(t, e.arg)
      [] e.kind = "edit"    -> NoteModified(t, e.arg)
      [] e.kind = "delete"  -> NoteRemoved(t, e.arg)
      [] e.kind = "rename"  -> NoteModified(NoteRemoved(t, e.arg), e.to)
      [] e.kind = "command" -> RecordCommand(t, e.arg, e.outcome)
      [] e.kind = "git"     -> NoteGit(t, e.arg)

(* The generator is resumed: it records the effect and answers the call.   *)
Resume ==
    /\ pc = "event"
    /\ pc' = "model"
    /\ task' = IF owed THEN Recorded(task, log[Len(log)]) ELSE task
    /\ messages' = Append(messages, Message("tool"))
    /\ call' = NoCall /\ owed' = FALSE
    /\ said' = Standing
    /\ Turn
    /\ UNCHANGED <<approveAll, files, log, torn, calls>>

(* Ctrl+C, end of input at a question, or an unexpected error.  The turn's *)
(* messages are dropped; what it did, and what is remembered of it, stays. *)
Interrupt ==
    /\ pc # "prompt"
    /\ pc' = "prompt"
    /\ messages' = SubSeq(messages, 1, before)
    /\ aborted' = aborted \cup {turn}
    /\ torn' = (torn \/ owed)
    /\ call' = NoCall /\ owed' = FALSE /\ said' = {}
    /\ UNCHANGED <<mode, turn, before, approveAll, task, files, log, calls>>

-----------------------------------------------------------------------------
Prompt == BeginTurn \/ FreshSession \/ \E m \in {"manual", "auto"} : SetMode(m)

Model ==
    \/ \E answered \in BOOLEAN : EndTurn(answered)
    \/ \E p \in Path : Read(p)
    \/ \E i \in 1..MaxSteps, s \in Statuses : UpdatePlan(i, s)
    \/ OtherCall
    \/ ProposeFile \/ ProposePlan \/ ProposeCommand \/ ProposeGit

Apply ==
    \/ ApplyToFiles \/ AdoptPlan
    \/ \E o \in Outcomes \ {"cancelled"} : RunCommand(o)
    \/ \E ok \in BOOLEAN : ApplyGit(ok)

Next == Prompt \/ Model \/ (\E w \in Words : Answer(w)) \/ Apply \/ Resume \/ Interrupt

Spec == Init /\ [][Next]_vars

-----------------------------------------------------------------------------
(* Properties.                                                             *)

Effects == [kind : {"read", "edit", "delete", "rename", "command", "git"},
            arg : Path \cup Command \cup GitOp, to : Path \cup {None},
            outcome : Outcomes \cup {"none", "unverified"}]

(* Every variable stays within its type, and an effect is owed only at its *)
(* event.                                                                  *)
TypeOK ==
    /\ mode \in {"manual", "auto"}
    /\ pc \in {"prompt", "model", "asked", "approved", "event"}
    /\ messages \in Seq([turn : 1..MaxTurns, role : {"user", "assistant", "tool"}])
    /\ turn \in 0..MaxTurns /\ before \in Nat /\ aborted \subseteq 1..MaxTurns
    /\ approveAll \in BOOLEAN
    /\ call.kind \in Gated \cup {"read", "update", "none"}
    /\ pc \in {"asked", "approved"} => call.kind \in Gated
    /\ owed \in BOOLEAN /\ (owed => pc = "event" /\ log # <<>>)
    /\ task \in Task
    /\ files \subseteq File
    /\ log \in Seq(Effects)
    /\ torn \in BOOLEAN
    /\ calls \in 0..MaxCalls

(* What allows the operation at hand: for a command or a Git operation a   *)
(* yes to this very question (README.md:680-683), for a file also Auto     *)
(* mode, or an "all" to an earlier question of the turn, and for a plan    *)
(* any answer but a no.                                                    *)
Permitted ==
    \/ mode = "auto" /\ call.kind \in AutoApproved
    \/ \E a \in said :
          \/ a.n = calls /\ a.word = "yes"
          \/ a.n = calls /\ call.kind = "plan" /\ a.word # "no"
          \/ a.kind \in OfFiles /\ call.kind \in OfFiles /\ a.word = "all"

(* Nothing is changed, run or adopted that the human has not permitted in  *)
(* this turn.                                                              *)
EffectsArePermitted == [][Apply => Permitted]_vars

(* del messages[history_len_before:] (cli.py:806) drops the turn that was  *)
(* interrupted, all of it, and no other.                                   *)
TurnsAreWhole ==
    /\ \A i \in 1..Len(messages) : messages[i].turn \notin aborted
    /\ pc # "prompt" =>
         /\ Len(messages) > before
         /\ \A i \in 1..Len(messages) : messages[i].turn = turn <=> i > before

(* What the memory says, compared with what was done.  An interrupted turn *)
(* may have done what it did not get to record.                            *)
Names(e, p) ==
    \/ e.kind \in {"read", "edit", "delete"} /\ e.arg = p
    \/ e.kind = "rename" /\ p \in {e.arg, e.to}

Touches(e, p) ==
    \/ e.kind \in {"read", "edit", "delete"} /\ FileOf[e.arg] = FileOf[p]
    \/ e.kind = "rename" /\ FileOf[p] \in {FileOf[e.arg], FileOf[e.to]}

LastIn(S)   == CHOOSE i \in S : \A j \in S : j <= i
Touching(p) == {i \in 1..Len(log) : Touches(log[i], p)}
Changing(p) == {i \in Touching(p) : log[i].kind # "read"}

CurrentRead(p) ==
    LET t == Touching(p) IN t # {} /\ log[LastIn(t)].kind = "read"

Changed(p) ==
    LET c == Changing(p) IN
      /\ c # {}
      /\ LET e == log[LastIn(c)] IN
           e.kind = "edit" \/ (e.kind = "rename" /\ FileOf[e.to] = FileOf[p])

(* The last change of it was reported as a failure.                        *)
Unsure(p) ==
    LET c == Changing(p) IN c # {} /\ log[LastIn(c)].outcome = "unverified"

(* The task has named the file in no other way.                            *)
NamedAlike(p) == \A i \in Touching(p) : Names(log[i], p)

Calm == ~torn /\ ~owed

(* files_inspected are the files read since they were last changed,        *)
(* files_modified those that were changed and are still there.  Both are   *)
(* lists of paths, and neither is told of a change that was reported as a  *)
(* failure.                                                                *)
FilesMatchLog ==
    Calm =>
      \A p \in {p \in Path : NamedAlike(p)} :
        LET inspected == Listed(p, task.inspected)
            modified  == Listed(p, task.modified)
            read      == CurrentRead(p)
            changed   == Changed(p)
        IN  /\ inspected => read \/ Unsure(p)
            /\ modified => changed
            /\ Cardinality(Path) <= MaxStored =>
                 /\ read => inspected
                 /\ changed => modified \/ Unsure(p)

(* errors_encountered are the failures since the last clean run of tests,  *)
(* the latest of them and in their order: the k-th from the end is the     *)
(* k-th failure from the end.                                              *)
Fails(e)  == e.kind = "command" /\ IsError(e.outcome)
Clears(e) == e.kind = "command" /\ CleanRun(e.arg, e.outcome)

Unresolved == {i \in 1..Len(log) :
                  Fails(log[i]) /\ \A j \in i..Len(log) : ~Clears(log[j])}

ErrorsMatchLog ==
    Calm =>
      /\ Len(task.errors) = IF Cardinality(Unresolved) > MaxStored THEN MaxStored
                            ELSE Cardinality(Unresolved)
      /\ \A i \in Unresolved :
           LET later == Cardinality({j \in Unresolved : j > i}) IN
             later < MaxStored
               => task.errors[Len(task.errors) - later]
                    = [cmd |-> log[i].arg, outcome |-> log[i].outcome]

(* A plan with no step to work on is one that is reported as complete or   *)
(* as blocked (cli.py:416-419), and a complete one has none.               *)
PlanIsAccountedFor ==
    /\ task.plan # NoPlan /\ CurrentStep(task.plan) = {}
         => IsComplete(task.plan) \/ IsBlocked(task.plan)
    /\ IsComplete(task.plan) => CurrentStep(task.plan) = {} /\ ~IsBlocked(task.plan)

(* "... so nothing display-relevant is ever lost before it would have      *)
(* scrolled out of the summary anyway" (task_state.py:35-37): one of the   *)
(* ShownFiles files read last and not changed since is in the summary.     *)
SummaryLosesNothing ==
    \A p \in Path :
      /\ Calm
      /\ CurrentRead(p)
      /\ Cardinality({q \in Path : CurrentRead(q)
                        /\ LastIn(Touching(q)) > LastIn(Touching(p))}) < ShownFiles
      => Listed(p, Summarize(task).inspected)

(* What FilesMatchLog excepts: a file that was changed is never one that   *)
(* counts as read.                                                         *)
InspectedAreCurrent ==
    Calm => \A p \in Path : Listed(p, task.inspected) => CurrentRead(p)
=============================================================================
