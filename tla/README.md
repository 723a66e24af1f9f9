# code-agent in TLA+

`code-agent` is a local coding assistant: a Python process that drives a model
served by Ollama, proposes edits, commands and Git operations, and asks a human
before it performs them. It runs as an interactive CLI or as a local HTTP server
behind a VS Code extension. This directory models the parts of it whose
correctness depends on the order of events, checks them with TLC on small
instances, and proves the main results with TLAPS for every instance.

## The system

| Part | State it keeps | Operations | What is hard about it |
|---|---|---|---|
| Turn loop, `agent/loop.py` | one generator frame per turn: iteration, retry, correction and repetition counters, the reply's remaining calls; the shared `messages` | ask the model, retry, correct, dispatch a call, pause for approval, perform, end | nested bounds, cancellation at any point, a caller that drops the generator |
| HTTP server, `agent/server.py` | per workspace a `Session`: lock, cancel event, confirm queue, `awaiting_confirm`, mode, and the set replaced by `reset` (messages, tracker, task state, registry, event) | `/chat`, `/chat/confirm`, `/task/stop`, `/task/new`, `/task/mode` | a thread per request, shared flags without a lock, a drain that times out |
| Server process, `server.py` (`build_server`, `run_server`) | a port, a token, `~/.code-agent/server.json` | start, serve, stop, die | restarts, two runs beside each other, signals at any time |
| Working set, `tools/filesystem.py`, `tools/state.py`, `task_state.py` | hash of every file's last known content; list of paths read and unchanged since | `read_file` and its cache, record, forget | two records under two keys that must agree with the disk and with the conversation |
| Compaction, `context_manager.py` | none of its own; rewrites `messages` | supersede, mark stale, trim | must remove outdated copies and keep the ones others point at |
| Edits, `tools/editing.py`, `tools/file_ops.py` | the proposed change while the human decides | propose, apply, verify | the file may change between the proposal and the approval |
| Commands, `tools/terminal.py`, `command_policy.py` | a child process group | run, time out, cancel, kill | readers, deadlines and kills race |
| Git, `tools/git.py`, `git_policy.py` | the proposed operation | propose, recheck, apply | the index may change between the proposal and the approval |
| Ollama client, `ollama_client.py` | one stream | chat | which errors are translated |
| VS Code extension, `vscode-extension/` | the panel's turn and its cards; no address, which it reads anew | send, confirm, stop, new task | the server may be another one than when the file was read |
| CLI, `cli.py` | mode, `messages`, `turn_state["approve_all"]` | ask, answer, `/auto`, `/manual`, `/new`, Ctrl+C | which word is a yes to which question, and the rollback of a turn |
| Task memory, `task_state.py`, `planner.py`, the `record_*` of `context_manager.py` | the plan; lists of files, commands, errors, Git operations | note, adopt, update a step, summarize | bounded lists that must agree with what happened |
| Search, project boundary, logging, benchmark | none | | |

The caller (CLI or server) appends the user's message to `messages`, creates the
loop's generator and iterates it. The generator asks the Ollama client, calls the
tools through the registry, and yields events; a confirm event is answered by the
value the caller sends back. The server gets that value from the confirm queue,
which another request's thread fills. Tools propose and the loop applies; the
tracker and `TaskState` are shared by the tools, the loop and compaction. When a
client is gone the server drops the generator and deletes the messages of the
turn; nothing else is rolled back. The CLI does the same for Ctrl+C and for any
other exception, the server for no other: what the loop lets through leaves the
session's conversation as it stands.

## Modules

| Module | Models | Notes |
|---|---|---|
| `GatedTurn` | what a turn promises about approvals | abstract specification, no loop in it |
| `AgentTurn` | `run_agent_turn` | refines `GatedTurn` |
| `SessionServer` | one `Session` and the threads of its requests | the turn it drives is `AgentTurn` as the session sees it |
| `WorkingSet` | tracker, `files_inspected`, tool messages, compaction, rollback | |
| `FileChange` | contents, proposed changes, and what each makes of the disk | shared by the next two |
| `ApprovedChange` | what the editing tools promise about the disk | abstract specification |
| `FileEdits` | `edit_file`, `write_file`, `delete_file`, `rename_file` from the proposal to the result | refines `ApprovedChange` |
| `EditMatch` | how `edit_file` finds and replaces `old_text` | a function, checked over all short texts |
| `CommandExec` | `execute_command`, `_kill_process_group` and the processes of one command | |
| `GitOps` | the Git tools, and a repository and a remote that others use too | |
| `TaskMemory` | `TaskState`, `Plan` and what `record_*` make of results | operators on records, no state of its own |
| `CliSession` | the interactive session around them | EXTENDS `TaskMemory` |
| `Serve` | `code-agent serve` as a process, and the extension's requests | |
| `MC*` | the instances TLC checks | |
| `*Proofs` | the theorems | extend the component's module; `FileEditsProofs` also `EditMatch`, whose `MatchInit`, `MatchNext` and `MatchSpec` are named so as not to clash |

### AgentTurn

`pc` is where the generator stands: `top` (start of the `for` body), `chat`
(inside `client.chat`), `backoff`, `call` (a call of the reply is next),
`confirm` (paused at a confirm event), `perform` (approved, not yet answered),
`ended`. The other variables carry the code's names where it has one:
`repeats` is `consecutive_call_count`, `lastCall` is `last_call_signature`,
`narrations` is `narration_retry_count`, `mutated` is
`mutating_tool_called_this_turn`. A call is its signature, and `KindOf` says which
kind of proposal it makes when it succeeds. A call may always fail
(`DispatchPlain`). Of `messages` the model keeps `owed`: the queue of the calls
listed by an assistant message that no tool message has answered yet. Every tool
message is appended by `AnswerCall`, which is part of the action that finishes the
call; like `_iter_tool_messages_with_args` it takes the oldest call off the queue,
which need not be the one in hand. `streak` is a history variable.

The server hands on whatever JSON Ollama sends, and nothing looks at a call's form
before it is in the conversation. `NotObject` are calls that are no objects,
`BadArguments` those whose arguments decode to a list, a number or a text. An exception
nobody translates ends the turn as `raised` where no call is open and as `broken` in
the middle of a batch:

| Action | Raised by |
|---|---|
| `ChatRaises` | a stream that breaks between two lines (`ollama_client.py:260`) |
| `CallRaises` | `call.get` and `function.get` on something else (`loop.py:432-434`) |
| `DescribeRaises` | `_describe_call` of a failed call, `args.items()` (`loop.py:608`, 661-665) |
| `PerformRaises` | `apply_*` outside of the net of `Tool.execute`: a path that may not be looked at, a null byte, output of git that is no text (`loop.py:510-604`) |
| `CompactRaises` | `compact_messages`, once such a call is in the conversation (`context_manager.py:180`, 241, 253, 265) |

`poisoned` says that the conversation holds a call the last of them cannot get
through: from then on every turn of the session ends before it asks the model, until a
new task. In the CLI the rollback (`Abandon`) takes the call away again, in the server
nothing does. `raw_args.get` in `loop.py:617` cannot raise: arguments that are no
object count as none (`registry.execute`), and `read_file` then fails for want of a
path. A call whose name cannot be hashed is taken for one whose arguments are bad.

The pause between a granted operation and its result is a state of its own
because events are yielded there: the client can disappear, and the cancel event
can be set, while an operation is being performed.

### SessionServer

One action per step of a handler between two accesses to shared state. `gen`
numbers the set of objects that `SessionStore.reset` replaces together;
`cancel` holds the sets whose event is set, and `turnGen[t]` the set a turn was
created with, so that a turn which outlives a reset keeps its old event while
`_wait_for_confirm` polls the session's new one, as in the code. Queue entries
carry the question they were meant for, which the code does not; only properties
look at it.

### WorkingSet

A tool call has two steps: `Execute` (the tool runs: disk and tracker change)
and `Record` (the caller came back: `TaskState` and `messages` are updated).
Between them the event is yielded, and `Interrupt` may drop the turn. Contents
are opaque and equal contents have equal hashes. `FileOf` maps spellings of paths
to files, since `files_inspected` is keyed by the spelling and the tracker by
the resolved path. A change that was written but whose verification failed is a
failed call and an external change before it is recorded. `pending` also holds at
most one call because the loop runs one at a time.

`RecordHash` is part of every read that gets to the text, of one that fails as well:
`tracker.record` (`filesystem.py:194`) comes before the range is checked (232-235),
so `RangeFails` shows nothing and vouches for what it did not show. `convo` holds a
call with its tool message in one entry, or without one (`LeaveUnanswered`: the batch
was cut). `CallOf` pairs them as `_iter_tool_messages_with_args` does, first in, first
out: the n-th tool message belongs to the n-th call, whether that call was
answered or not. Calls that touch no file are in the conversation for this reason.
`Bracketed` are the paths that start with `[`, as in `[slug]/page.tsx`. A copy of such
a file starts with its path, so `content.startswith("[")` takes it for a placeholder
and neither pass replaces it (`context_manager.py:199`, 285).

`seen` and `interrupted` are history variables: what `read_file` last showed for a path
(`Unshown` after a failed read that recorded another content), and the worst
interruption of a turn.

### FileEdits

The agent has one change in hand: `pc` runs from `asked` (the question is open)
over `granted` to the steps of `_atomic_write` (`temp`, `synced`, `replaced`) or
the second look of a renaming (`checked`), and back to `idle` with a `result`, the
kind of answer the model gets. `World` changes any file at any step. `Interrupt` is
Ctrl+C, or any exception the tools do not translate: it passes through the
`except BaseException` of `_atomic_write`. `Crash` is the death of the process;
the temporary file it leaves is not looked at again and not in the state.
`ApplyFails` and `VerifyFails` are the two groups of handlers of `apply_change`,
with the two different things they tell the model.

A content is a normalized text and its line endings (`lf`, `crlf` or `mixed`). Texts
are taken to have a line break; `RawText` are proposed texts with a carriage
return, which are written and read back differently. `raced` and `writer` are
history variables: whether somebody else has touched the files of the change, and
who changed the disk last. Without `writer` the refinement would be empty, because
anything the agent does to one file could be taken for a step of `World`.

### CommandExec

One approved command. `pc` is where `execute_command` stands: `check` (top of the
while loop), `communicate`, then `terminate`, `grace`, `kill` and `wait` in
`_kill_process_group`, and `drain` (the last `communicate`). The command's side is a
group of processes that fork, close their pipes and exit at any step; `deaf` are
those that ignore SIGTERM. A process that was sent a signal it can not ignore is
`doomed` (SIGTERM: it may still clean up, and fork) or `killed`, and ends some time
later. A dead leader that nobody has waited for is a zombie and keeps its id and
its group, as on Linux, so the `ProcessLookupError` branches never run. `missed`
is a history variable. Children that leave the group are not modelled.

### EditMatch

The three strategies of `_resolve_replacement`, in their order: the text as it is, the
text without the line numbers `read_file` prints, and blocks of lines compared without
regard to indentation, with the new block moved to the margin it finds. A text is a
sequence over letters, `sp`, `nl` and `num` (a line number with its bar). The module
has one step, from the arguments to the proposal or the refusal.

The same definitions were evaluated by TLC for all files of up to four characters
and compared with the results of the Python functions on the same 107,690 inputs:
they agree on every one.

### GitOps

`pc` runs from `asked` over the rechecks of `apply_git_operation` (`repository`,
`commit` or `push`, `remote`) to `run`, the process that has the effect, and `sha`,
the `rev-parse` behind a commit. Each is a process of its own, may fail, and is
killed by its timeout; `done` says whether the one that runs has had its effect. In
between, `Others` edit, stage, commit, rewind, switch, detach, change the URL, push
and fetch. A history is the sequence of its commits, so an ancestor is a prefix.
`Lines` is `git status --porcelain=v1`: for both columns what happened to each file
(`Change`), with type changes (`T`: the contents in `Links` are symbolic links),
renamings in either column, and the files of `git add --intent-to-add` (`intent`), whose
second column may be `A`. `Lists` is what `_git_status` makes of the columns, `Printed`
what is left of a list that is cut. A renamed file keeps its content, so a line has no
renaming together with a change of the same tree; merges, submodules and the quoting of
names are left out. `raced` is a history variable: somebody acted after the last check.

### TaskMemory and CliSession

`TaskMemory` has the methods of `TaskState` and of `Plan` as operators from task to
task, with `_trim`, the looks-passing rule of test output, `current_step` and the
summary. `CliSession` is the prompt and `render_turn`: `asked` is an open question,
`approved` an operation to perform, `event` the generator's pause after an effect.
`Resume` records the effect (`owed`) as the loop does once it is resumed; after
`Interrupt` it never is. `log`, `said`, `aborted` and `torn` are history variables:
what was done in the task, what the human answered in the turn, which turns were
dropped and whether an effect went unrecorded. A reply holds one call, because
batches are `AgentTurn`'s. The lists of the memory are lists of paths, as the calls spell
them (`loop.py:514`, 617); `FileOf` says which paths lead to the same file.
`ApplyToFiles` has three outcomes: the operation took place; it failed and changed
nothing; or, of an edit, the file was replaced and then could not be read back or held
something else (`editing.py:516-533`). The last is `unverified` in `log`, is reported as a
failure, and is not recorded (`loop.py:515-516`).

### Serve

A server is one run of the process and stands for its token. `OpenTokenFile`,
`WriteTokenFile` and `ChmodTokenFile` are the three system calls that leave the
address, and `path` and `content` tell the name from the file, because a run that
opens the file keeps writing to it after another has removed the name. `Interrupt`
is the one signal the code prepares for; `InterruptEarly` is one before `serve_forever`
or in the `finally` clause, `Kill` a crash. A request reads the file, connects to
whoever has that port by then, and is answered or refused with 401. `overlap`,
`early` and `killed` are history variables.

## Runs

All runs use two workers. Most finish in about a minute; `turn` (1.2 million states),
`working_set` (2.6), `git` (1.2) and `cli` (1.9) take one and a half to two and a half.

| Run | Checks | Bounds |
|---|---|---|
| `turn` | types and counter bounds, `RepetitionEndsTurn`, `NoCallLeftUnanswered`, refinement of `GatedTurn`, `TurnEnds` | two turns; six calls, one of each way to be granted, one that is no object and one with bad arguments; `MaxIterations` 3, replies of up to 2 calls, so a repetition of 5 needs three replies; one retry and one correction; the limits of repetition are the code's |
| `session` | `OneTurnAtATime`, `TurnOwnsSession`, `CalmAnswersMatch`, `StopReachesTurnIfDrained`, `StoppedTurnEnds` | two chats, two confirmations, a Stop, a new task; one question per turn |
| `working_set` | `UnchangedNoticeIsTrue`, `CopiesAreCurrent` | two files, one of them long and with a path that starts with `[`, two contents, a list of one path, conversations of two calls |
| `file_edits` | `SuccessIsTrue`, `RenameOverwritesNothing`, refinement of `ApprovedChange` | two files, two texts, one text with a carriage return, any number of changes; files and texts are interchangeable |
| `edit_match` | `LiteralWins`, `OneTargetUnlessAll`, `ReplacesWholeBlocks`, `BlockKeepsMargin` | every file of up to five characters over a letter, the space and the line end; every `old_text` of up to three with line numbers, and four longer ones; five new texts |
| `command` | `SignalsStayInGroup`, `SignalsReachGroup`, `StoppedCommandEnds`, `Returns` | the program and two children, each of which may ignore SIGTERM |
| `git` | `CalmCommitIsAsShown`, `StatusIsComplete`, `LosesNoCommit` | two branches, two files, three versions of which one is a link, lists of one line, a remote that may be unconfigured; three operations and one action of anybody else at any point |
| `cli` | `TurnsAreWhole`, `FilesMatchLog`, `ErrorsMatchLog`, `PlanIsAccountedFor`, `EffectsArePermitted` | two turns, three calls or `/new` (two once there is a second turn), three paths of which two lead to one file, a test command and another, one Git operation, plans of two steps, lists of three entries |
| `serve` | `LiveServerAnswers`, `CleanStopRemovesFile` | two runs of the server, three ports, a request with a token and one without |
| `session_approval`, `edit_clobber`, `edit_anchor` | one property each, violated | the smallest instance that shows it |

`MaxIterations` is 3 instead of 25, and there is one retry and one correction instead of
two: every guard of the loop (a correction, a retry in each iteration, a repetition of
five over batches of two) can run to its limit, and both can meet `ReachLimit`. Two turns of one session suffice for
what one turn leaves behind for the next (a stale answer, a flag, an event, a word
given to a question, a call without its answer). With two files a rename has a source and a
destination, and a list of one path trims on the second read. The lists of the `cli` run
are as long as there are paths, which is where its property says most;
`MCCliSessionTrim.cfg` passes with lists of one entry for two paths. Two children suffice for one that obeys
SIGTERM beside one that does not, whichever the program does. One foreign action
in `GitOps` may fall between any two processes of an operation, and the operations
before it change the repository as the user would. Two runs of the server
are enough for a restart and for two beside each other, and the third port for one that
neither has. A file of five characters has three lines or two that a block of two
can match twice. `MaxTurns`, `MaxCalls`, `MaxBatch`, `MaxAsks`, `MaxMessages`,
`MaxMoves`, `MaxOps` and `MaxVersion` are bounds of the models; the theorems hold
for every value of them.

Conversations of two calls in `working_set` have a read and what outdates it; the
unlisted configurations below go to four.

`CHECK_DEADLOCK FALSE` appears where the bounded number of turns, requests or
operations runs out, the command or the call is over, or all servers have ended. It is
absent from the `WorkingSet`, `FileEdits` and `CliSession` runs.

### What the violated runs show

- `session_approval`: `/chat/confirm` queues a bare answer; a repeated or late
  one approves the next question.
- `edit_clobber`: `apply_change` writes the text prepared at the proposal without
  looking at the file again, so what was saved there while the question was open
  is lost, although `editing.py:419-421` relies on the human having seen it.
- `edit_anchor`: `old_text` is tested for emptiness with its line number on
  (`editing.py:316-319`) and searched for without it, so a blank line copied from
  `read_file` is searched for as the empty text, and `new_text` is inserted where
  nothing was replaced.

### Further configurations

They can be run by hand. `MCCliSessionTrim.cfg` checks the properties of the `cli` run
with lists of one entry, and passes. Each of the others checks one more property and
finds it violated.

| Configuration | Shows |
|---|---|
| `MCAgentTurnPairing.cfg` | giving up on a repeated call returns in the middle of a batch (`loop.py:454-471`); `_iter_tool_messages_with_args` then pairs every later result with the wrong call, against its docstring (`context_manager.py:169-174`) |
| `MCSessionServerStop.cfg` | a new task that stopped waiting replaces the cancel event under the running turn, which no Stop reaches from then on |
| `MCWorkingSetPointer.cfg` | the "unchanged" notice points at a copy that was a range, cut, or removed by compaction |
| `MCWorkingSetTorn.cfg` | a client lost between a change and its record leaves a path listed as read with the hash of content that was never shown |
| `MCWorkingSetUnshown.cfg` | a ranged read that fails has recorded the hash of content nobody saw (`filesystem.py:194`); the next full read calls it unchanged |
| `MCWorkingSetSpellings.cfg` | a change takes one spelling out of `files_inspected` and records the new hash for both: a read of the other spelling is answered by "unchanged" |
| `MCWorkingSetUnanswered.cfg` | after a call without its result, compaction looks for the path in another call, and a copy outlives the change of its file |
| `MCWorkingSetBracketed.cfg` | a copy of a file whose path starts with `[` is never superseded |
| `MCCommandExecSurvivors.cfg` | `_kill_process_group` waits for the leader alone; a worker that ignores SIGTERM survives as soon as the leader does not |
| `MCGitOpsPush.cfg` | commits made after the preview of a push are pushed with it: the recheck compares the branch's name only |
| `MCGitOpsStatus.cfg` | `git_status` has no branch for a second column `T` or `A` (`git.py:204-207`) and calls the tree clean (215-216) while a file has become a link or is intended to be added |
| `MCCliSessionUnverified.cfg` | a file that was changed by an edit reported as a failure (`editing.py:516-533`) is still listed as inspected |
| `MCCliSessionSpellings.cfg` | a file that was changed under one spelling is still listed as inspected under the other |
| `MCCliSessionSummary.cfg` | `_trim` forgets the oldest file for good, so when newer ones are changed and leave the list, the summary shows fewer files than it has room for, against `task_state.py:35-37` |
| `MCServeCleanup.cfg` | a SIGTERM while `run_server` still waits for Ollama, before its handler is installed, leaves the token file, against its comment (`server.py:611-614`); so does a second signal |

The models also show, without a configuration of their own:

- a call that is no object, or a required path in arguments that are none, ends every
  later turn of a server's session before it asks the model (`CompactRaises`), until
  `/task/new`;
- a turn that an exception ends in mid stream keeps the user's message without an
  answer in the server's conversation (`ChatRaises`);
- the mutating flag is set before the call is executed (`loop.py:492`), so a call
  that failed disarms the narration guard, against the comment at `loop.py:72-74`
  (`Dispatch`);
- Ctrl+C in the CLI leaves a command running with nobody to end it
  (`CommandExec`'s `Interrupt`), and a command that ends by itself just before its
  deadline is reported as terminated, without its exit code (`TimesOut`);
- with `replace_all` the windows found without regard to indentation may overlap,
  and later replacements then cut into earlier ones: the `old_text` `' x\nx'`
  replaced by `y` in `x\nx\nx` leaves a single `y` (`ReplacesWholeBlocks` excepts them);
- `str.count` leaves out overlapping places, so an `old_text` that overlaps itself
  is taken for unique, although the README has it occur "exactly once"
  (`OneTargetUnlessAll` excepts them);
- a server that stops removes the token file of another run that has started beside
  it (`RemoveTokenFile`; `LiveServerAnswers` excepts runs beside each other).

What some properties do not see: `CalmCommitIsAsShown` compares names, as the code does, so
contents that change under the same names between the question and the commit pass;
`LosesNoCommit` does not say that an operation reported as failed had no effect (a
`Timeout` may come after it); `SuccessIsTrue` and `RenameOverwritesNothing` leave out the
window between the last look and the replacement; `BlockKeepsMargin` knows spaces only,
while `editing.py:174` turns a margin of tabs into spaces.

The weaker properties that do hold (`NoCallLeftUnanswered`, `CalmAnswersMatch`,
`StopReachesTurnIfDrained`, `UnchangedNoticeIsTrue`, `CopiesAreCurrent`,
`FilesMatchLog`, `StatusIsComplete`, `CalmCommitIsAsShown`, `LiveServerAnswers`) name the
exceptions exactly.

## Fairness

`AgentTurn` is checked with weak fairness of the loop's own steps and of the
answers: the callers iterate the generator without pause, the CLI prompts for
every question, and the server polls for its answer. No fairness is assumed of
Stop, of a lost client or of any single outcome of the model: a request to Ollama
has a timeout, so it ends, but it need not end well. `SessionServer` has weak
fairness of every chat thread and of the confirm, stop and new-task threads once
they have a request; clients need not send any. `StoppedTurnEnds` therefore holds
without anybody answering. The bound on questions per turn stands for
`AgentTurn`'s `TurnEnds`. `CommandExec` has weak fairness of `execute_command`, whose
waits all have timeouts, of the clock, and of the end of processes that were sent a
signal they can not ignore; the command itself need not do anything.

No fairness is stated for `GitOps`, `CliSession`, `Serve`, `FileEdits` and `WorkingSet`: a
human may leave a question open for ever, and their properties are about safety.

## Proofs

The theorems hold for all values of the constants under the assumptions the
modules name (`CallAssumption`, `LimitsAssumption`, `ThreadAssumption`,
`PathAssumption`, `LimitAssumption`, `NameAssumption`, `BoundAssumption`,
`MemoryAssumption`, `SessionAssumption`, `ServeAssumption`, `MatchAssumption`, and
`FileAssumption`: a session and a repository have finitely many files), which TLC
evaluates on every run of those modules. Some theorems state a property that no run lists any more, because
another of the run's properties needs it or says more (`NoRunawayCall`,
`CancelledTurnAsksNoMore`, `FlagMeansQuestion`, `TempBelongsToWrite`,
`FailureLeavesFiles`, `ReportedLeaderEnds`, `StagesOnlyPaths`, `TokenIsForItsServer`).

- `AgentTurnProofs`: `IInv` adds two facts to the type invariant. `Balance` says
  that in mid turn as many calls are owed as were owed when the turn began plus
  the rest of the batch, and after a turn that was cut short at least one and at most
  `MaxBatch` more: `NoCallLeftUnanswered` alone says nothing of the states in
  which a batch is half done, nor that there is a call to take off the queue when a
  result is appended. `Repetition` relates `streak` to `repeats`: as long
  as the last call executed is the last one requested, it was executed at most
  as often as requested in a row. From it follow `NoRunawayCall` and
  `RepetitionEndsTurn`. `AgentTurnImplementsGate` maps every action to an action
  of `GatedTurn` or to a stutter, and uses the type invariant for the head of the
  batch. `GatedTurn` has its own set of the kinds that may be granted (`Grantable`), so
  the loop's (`AutoKinds`) is compared with it, not with itself.
- `SessionServerProofs`: `LockOwned` says that whoever drives a turn, or has
  drained one, is the thread in `lock`. `OneTurnAtATime` follows at once;
  `TurnOwnsSession` is inductive only together with it, because a drained reset
  must know that no turn is in progress; `FlagMeansQuestion` needs it to know
  that the thread lowering the flag is the only one that can have raised it.
  `CalmInv` says of sessions without a Stop or a reset that a question which is not open
  any more has been answered, and that the queue holds at most the answer to the
  open one: an answer of another question would be a second answer.
- `WorkingSetProofs`: `Known` strengthens `UnchangedNoticeIsTrue` to the states
  with a call pending and relates the tracker to `seen` instead of the disk,
  since only the hash survives a change by someone else. It is stated of the paths whose
  file has no other spelling, path by path, and allows for content that was recorded and
  not shown; the theorem `NoticeTrue` assumes nothing of `FileOf`.
  `Copies` says that a copy which compaction would keep is the recorded content,
  or is about to be superseded by the call in hand. Compaction pairs by counting, and
  `InOrder` shows that this pairs every result with its own call as long as all calls have
  one; `CopiesInv` is conditional on that (`AllAnswered`), which a rollback or a new task
  may make true again, and `CopiesCurrent` follows.
- `FileEditsProofs`: `Mid` says what holds while a change is in hand: until
  somebody else touches them the files are as the human saw them (`AsShown`), and
  after the replacement the file holds what was written. `SuccessIsTrue` and
  `FailureLeavesFiles` speak of finished changes only and follow from it step by
  step. `EditsImplementApproved` maps every step that changes the disk to a grant's
  `Commit`, and every way out before that to `Withdraw`.
  The second half is about `EditMatch`, which shares no state with `FileEdits`.
  `MatchInv` says that the outcome of a call is what its arguments and the file
  decide. That leaves facts about the operators: `FoundCovers`, by induction over the
  scan, that every place where the text stands is one that `str.count` counts or is
  covered by an earlier one; and `ReplacedAt`, by induction over the concatenation,
  that replacing at one place keeps what is before and after it. `OneTarget` says of
  texts of any length that an accepted edit hides no second target, `LiteralFirst`
  that an exact edit is made as it was asked for; it needs `ReplacingChanges`, since an
  edit that changes nothing is refused. `WholeBlocks` and `KeepsMargin` are about the
  edit by lines. Both rest on `LinesOfJoined` (the lines of lines put together are those
  lines, as long as none holds a line end), on `SpliceIs` (one window is exchanged for the
  new lines at the margin of the window) and on `AtMarginIs` (moving a block to a margin
  keeps its nesting and what its lines say). For many windows `StagesExist` gives the
  sequence of files between them, and `WholeBlocks` goes along it by induction: before
  the k-th window the file is, up to indentation, the old one with the last k - 1
  windows replaced, and the window is still where it was found, because the windows
  descend (`Backwards`) and do not overlap. The step is `ReplacedMore`: one more place,
  before the others, is one more exchange.
- `CommandExecProofs`: `Phase` adds that the leader is not waited for before the last
  phase, which keeps the group's id from being reused when a signal is sent, and
  that past `_kill_process_group` it is dead or has a SIGKILL on its way.
- `GitOpsProofs`: that no commit is lost (`CommitsAreKept`) follows from the type
  invariant alone, one effect at a time, because an effect only appends or makes a prefix
  longer. `CommitsAreAsShown` needs `CommitInv`: from the check on, as long as nobody
  else acts, the index differs from the tip in the files shown (`Checked`), then the tip
  is the agent's commit of them (`Made`), then the one named (`Named`). `StatusComplete`
  is a fact about trees: the renamings Git reports are one matching among finitely many,
  so a largest exists and is a matching (`RenamingsMatch`); a file then is old in one
  renaming, new in one, or has a letter of its own (`ChangeSays`), in each column, and
  each case ends in a list or is `Overlooked`. A list that is not cut is printed whole.
- `CliSessionProofs`: four invariants. `WholeInv` adds to `TurnsAreWhole` that every
  message has the number of a turn that has begun, which makes the next number fresh.
  `ConsentInv` says that the answer behind "approve all" is still among those of the
  turn. `SessionInv` is the type invariant with what a call in hand and the log are
  made of: a plan in hand has a legal number of steps, a log entry names its file,
  which `TypeOK` alone does not say and `Recorded` needs. From it follow `SessionTyped`
  and `PlansAccountedFor`; that a step is left to work on is the existence of a least
  number. `MemoryInv` compares the memory with the log at all times, where
  `FilesMatchLog` and `ErrorsMatchLog` speak only of the moments when nothing is owed:
  between an effect and its record the memory agrees with the log without its last
  entry (`Behind`). It speaks of names, since the lists do (`NamedByPath` leads back to the
  files, for a path under which alone its file was named). `FilesAgree` and `ErrorsAgree` are then preserved by one entry and
  one `Recorded`, or by an edit that could not be verified and is not recorded
  (`FilesAgreeUnverified`); the case that takes work is a list at its limit, which drops its
  oldest element, and a rename that moves a file over one already listed.
- `ServeProofs`: `FileIsOwn` says what a run that is alone finds in the file from the
  opening to the removal, and `RequestsKnow` that a request under way holds the address
  of the server it saw serving, if that serves still, and is connected to it.
  `LiveServerAnswers` alone says nothing of requests that are not over.

Updates of two places of a function are written as function constructors instead
of `EXCEPT` with two clauses: this version of tlapm takes both clauses to hold even
where the two places are the same, and would accept a proof that rests on it.

Only model-checked: the liveness properties `TurnEnds`, `StoppedTurnEnds`,
`StoppedCommandEnds` and `Returns`, which are out of the prover's reach. Every other
property of a passing run is stated by a theorem.

## Not modelled

- Texts: the narration patterns, the fallback parser of tool calls, wording, sizes
  and layout; `command_policy`, which compares a command with a fixed list on each
  call and keeps nothing; the syntax of branch names and commit messages.
- `/task/mode` is one assignment; its effect is the free choice of `auto` in
  `AgentTurn`'s `Begin`, and `CliSession`'s `SetMode` is its twin in the CLI.
- `SessionStore.reset` replaces its five objects in one step; in the code a forced
  reset may interleave with the creation of a generator.
- The read-only endpoints and tools (`list_files`, `git_diff`, `git_log`, search), path
  resolution, logging and the benchmark keep no state that goes wrong over time.
- The extension's panel and webview: they render the events of one turn and hold
  cards the server never reads. Its client is in `Serve`.
- Merges, submodules and hooks of Git beyond "the process fails"; files that are renamed
  and changed at once; names that Git prints in quotes.
- Failures of the machine below the program (no memory, no threads), and what an
  exception leaves half done inside of one call of the standard library.
- Children of a command that leave its process group.

## Status of the plan

All modules of the plan are written: `GatedTurn`, `AgentTurn`, `SessionServer`,
`WorkingSet`, `FileChange`, `ApprovedChange`, `FileEdits`, `EditMatch`, `CommandExec`,
`GitOps`, `TaskMemory`, `CliSession` and `Serve`, with theorems about nine of them.
What is left is a model of the panel's cards against `SessionServer`.
