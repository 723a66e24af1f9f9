---------------------------- MODULE CommandExec ------------------------------
(***************************************************************************)
(* execute_command and _kill_process_group of agent/tools/terminal.py: one *)
(* approved command, its process group, its timeout and Stop.  The program *)
(* that is started leads a group of its own; it and its children fork,     *)
(* close their ends of the pipes and exit as they like, and some ignore    *)
(* SIGTERM.  A child that leaves the group is out of the picture.          *)
(***************************************************************************)
EXTENDS Naturals, FiniteSets

CONSTANTS
    Leader,   \* the program that is started
    Child     \* the other processes its group may get

ASSUME LeaderAssumption == Leader \notin Child

Process == Child \cup {Leader}

VARIABLES
    pc,        \* where execute_command is
    status,    \* what ended the command
    late,      \* its timeout is over
    cancel,    \* cancel_event is set
    output,    \* what is known of its output
    reaped,    \* the leader has been waited for
    state,     \* state[p]: "doomed" has a SIGTERM that will end it, "killed" a
               \* SIGKILL
    holding,   \* the processes that have the pipes open
    deaf,      \* the processes that ignore SIGTERM
    signal,    \* the last signal sent to the group
    missed     \* history: the processes born after SIGTERM was sent

caller  == <<pc, status, output, reaped, signal>>
env     == <<late, cancel>>
group   == <<state, holding, deaf, missed>>
vars    == <<caller, env, group>>

Init ==
    /\ pc = "start"
    /\ status = "none"
    /\ late = FALSE
    /\ cancel \in BOOLEAN
    /\ output = "none"
    /\ reaped = FALSE
    /\ state = [p \in Process |-> "unborn"]
    /\ holding = {}
    /\ deaf \in SUBSET Process
    /\ signal = "none"
    /\ missed = {}

In(what) == {p \in Process : state[p] \in what}

-----------------------------------------------------------------------------
(* The command.                                                            *)

(* p starts c, which shares the pipes unless it is started without them.   *)
Fork(p, c) ==
    /\ state[p] \in {"running", "doomed"}
    /\ state[c] = "unborn"
    /\ state' = [state EXCEPT ![c] = "running"]
    /\ \/ p \in holding /\ holding' = holding \cup {c}
       \/ UNCHANGED holding
    /\ missed' = IF signal = "none" THEN missed ELSE missed \cup {c}
    /\ UNCHANGED <<caller, env, deaf>>

Close(p) ==
    /\ p \in holding
    /\ state[p] \in {"running", "doomed"}
    /\ holding' = holding \ {p}
    /\ UNCHANGED <<caller, env, state, deaf, missed>>

Gone(p) ==
    /\ state' = [state EXCEPT ![p] = "dead"]
    /\ holding' = holding \ {p}
    /\ UNCHANGED <<caller, env, deaf, missed>>

Exit(p) ==
    /\ state[p] = "running"
    /\ Gone(p)

Die(p) ==
    /\ state[p] \in {"doomed", "killed"}
    /\ Gone(p)

-----------------------------------------------------------------------------
(* execute_command.                                                        *)

Launch ==
    /\ pc = "start"
    /\ pc' = "check"
    /\ state' = [state EXCEPT ![Leader] = "running"]
    /\ holding' = {Leader}
    /\ UNCHANGED <<status, output, reaped, signal, env, deaf, missed>>

(* Mutant of LaunchFails: no return; the loop is entered with the pipes    *)
(* made and nothing started.                                               *)
LaunchFallsThrough ==
    /\ pc = "start"
    /\ pc' = "check"
    /\ holding' = {Leader}
    /\ UNCHANGED <<status, output, reaped, signal, env, state, deaf, missed>>

(* The program is not found, or can not be started.                        *)
LaunchFails ==
    /\ pc = "start"
    /\ pc' = "done"
    /\ status' = "failed"
    /\ UNCHANGED <<output, reaped, signal, env, group>>

(* The top of the while loop.                                              *)
TimesOut ==
    /\ pc = "check"
    /\ late
    /\ pc' = "terminate"
    /\ status' = "timed_out"
    /\ UNCHANGED <<output, reaped, signal, env, group>>

IsCancelled ==
    /\ pc = "check"
    /\ ~late
    /\ cancel
    /\ pc' = "terminate"
    /\ status' = "cancelled"
    /\ UNCHANGED <<output, reaped, signal, env, group>>

Poll ==
    /\ pc = "check"
    /\ ~late
    /\ ~cancel
    /\ pc' = "communicate"
    /\ UNCHANGED <<status, output, reaped, signal, env, group>>

(* communicate has read the pipes to their end and waited for the leader.  *)
Ended == holding = {} /\ state[Leader] = "dead"

Finish ==
    /\ pc = "communicate"
    /\ Ended
    /\ pc' = "done"
    /\ status' = "finished"
    /\ output' = "whole"
    /\ reaped' = TRUE
    /\ UNCHANGED <<signal, env, group>>

PollExpires ==
    /\ pc = "communicate"
    /\ pc' = "check"
    /\ UNCHANGED <<status, output, reaped, signal, env, group>>

(* _kill_process_group.  Until the leader is waited for, its process id    *)
(* and its group exist, dead or not: the lookups before each signal find   *)
(* them.                                                                   *)
Terminate ==
    /\ pc = "terminate"
    /\ pc' = "grace"
    /\ signal' = "term"
    /\ state' = [p \in Process |->
                   IF p \in In({"running"}) \ deaf THEN "doomed" ELSE state[p]]
    /\ UNCHANGED <<status, output, reaped, env, holding, deaf, missed>>

(* Mutant of Reap: the group is killed in any case.                        *)
ReapAndKill ==
    /\ pc \in {"grace", "wait"}
    /\ state[Leader] = "dead"
    /\ pc' = IF pc = "grace" THEN "kill" ELSE "drain"
    /\ reaped' = TRUE
    /\ UNCHANGED <<status, output, signal, env, group>>

(* proc.wait returns ...                                                   *)
Reap ==
    /\ pc \in {"grace", "wait"}
    /\ state[Leader] = "dead"
    /\ pc' = "drain"
    /\ reaped' = TRUE
    /\ UNCHANGED <<status, output, signal, env, group>>

(* ... or its timeout is over.                                             *)
GraceExpires ==
    /\ pc = "grace"
    /\ state[Leader] # "dead"
    /\ pc' = "kill"
    /\ UNCHANGED <<status, output, reaped, signal, env, group>>

(* Mutant of Kill: only the direct child is killed.                        *)
KillLeaderOnly ==
    /\ pc = "kill"
    /\ pc' = "wait"
    /\ signal' = "kill"
    /\ state' = IF state[Leader] = "dead" THEN state
                ELSE [state EXCEPT ![Leader] = "killed"]
    /\ UNCHANGED <<status, output, reaped, env, holding, deaf, missed>>

(* Mutant of Kill: SIGTERM again.                                          *)
TerminateAgain ==
    /\ pc = "kill"
    /\ pc' = "wait"
    /\ UNCHANGED <<status, output, reaped, signal, env, group>>

Kill ==
    /\ pc = "kill"
    /\ pc' = "wait"
    /\ signal' = "kill"
    /\ state' = [p \in Process |->
                   IF p \in In({"running", "doomed"}) THEN "killed" ELSE state[p]]
    /\ UNCHANGED <<status, output, reaped, env, holding, deaf, missed>>

WaitExpires ==
    /\ pc = "wait"
    /\ state[Leader] # "dead"
    /\ pc' = "drain"
    /\ UNCHANGED <<status, output, reaped, signal, env, group>>

(* The last communicate, for what was written before the end.              *)
Drain ==
    /\ pc = "drain"
    /\ Ended
    /\ pc' = "done"
    /\ output' = "whole"
    /\ reaped' = TRUE
    /\ UNCHANGED <<status, signal, env, group>>

(* Mutant of DrainExpires: the last communicate has no timeout.            *)
DrainForever ==
    /\ pc = "drain"
    /\ ~Ended
    /\ UNCHANGED vars

(* Somebody still has the pipes open: all output is lost, what was read    *)
(* before included.                                                        *)
DrainExpires ==
    /\ pc = "drain"
    /\ ~Ended
    /\ pc' = "done"
    /\ output' = "lost"
    /\ UNCHANGED <<status, reaped, signal, env, group>>

(* Ctrl+C in the CLI.  The command is in a session of its own and gets no  *)
(* SIGINT; nobody ends it.                                                 *)
Interrupt ==
    /\ pc \notin {"start", "done"}
    /\ pc' = "done"
    /\ status' = "interrupted"
    /\ UNCHANGED <<output, reaped, signal, env, group>>

-----------------------------------------------------------------------------
(* The clock and Stop.                                                     *)

Deadline ==
    /\ pc \notin {"start", "done"}
    /\ ~late
    /\ late' = TRUE
    /\ UNCHANGED <<caller, cancel, group>>

SetCancel ==
    /\ ~cancel
    /\ cancel' = TRUE
    /\ UNCHANGED <<caller, late, group>>

-----------------------------------------------------------------------------
Command ==
    \E p \in Process :
      \/ \E c \in Child : Fork(p, c)
      \/ Close(p) \/ Exit(p) \/ Die(p)

Execute ==
    \/ Launch \/ LaunchFails
    \/ TimesOut \/ IsCancelled \/ Poll \/ Finish \/ PollExpires
    \/ Terminate \/ Reap \/ GraceExpires \/ Kill \/ WaitExpires
    \/ Drain \/ DrainExpires

Next == Command \/ Execute \/ Interrupt \/ Deadline \/ SetCancel

Spec ==
    /\ Init
    /\ [][Next]_vars
    /\ WF_vars(Execute)
    /\ WF_vars(Deadline)
    /\ \A p \in Process : WF_vars(Die(p))

-----------------------------------------------------------------------------
(* Properties.                                                             *)

(* Every variable stays within its type, and processes that are not there  *)
(* hold no pipes.                                                          *)
TypeOK ==
    /\ pc \in {"start", "check", "communicate", "terminate", "grace", "kill",
               "wait", "drain", "done"}
    /\ status \in {"none", "failed", "timed_out", "cancelled", "finished",
                   "interrupted"}
    /\ late \in BOOLEAN /\ cancel \in BOOLEAN
    /\ output \in {"none", "whole", "lost"}
    /\ reaped \in BOOLEAN
    /\ state \in [Process -> {"unborn", "running", "doomed", "killed", "dead"}]
    /\ holding \subseteq In({"running", "doomed", "killed"})
    /\ deaf \subseteq Process /\ missed \subseteq Process
    /\ signal \in {"none", "term", "kill"}

Stopped == status \in {"timed_out", "cancelled"}

(* "Only ever signals the group this specific command created"             *)
(* (terminal.py:128): a signal is sent only while a process of the group,  *)
(* or its unwaited leader, keeps its id from being given to another.       *)
SignalsStayInGroup ==
    [][signal' # signal
         => ~reaped \/ In({"running", "doomed", "killed"}) # {}]_vars

(* What each signal achieves (terminal.py:123-127): whoever was there when *)
(* SIGKILL was sent will end, and whoever was there when SIGTERM was sent  *)
(* and does not ignore it.                                                 *)
SignalsReachGroup ==
    /\ signal = "kill" => In({"running", "doomed"}) = {}
    /\ signal = "term" => In({"running"}) \subseteq deaf \cup missed

(* A command reported as finished, cancelled or timed out has no leader    *)
(* any more, or one that has been sent SIGKILL.                            *)
ReportedLeaderEnds ==
    pc = "done" /\ (Stopped \/ status = "finished")
      => state[Leader] \in {"killed", "dead"}

(* A stopped command's leader does end, and its caller gets a result,      *)
(* whatever the command does about it (terminal.py:160-166).               *)
StoppedCommandEnds ==
    Stopped ~> (state[Leader] = "dead" \/ status = "interrupted")

Returns == pc = "check" ~> pc = "done"

(* "so e.g. a test runner's own worker subprocesses don't survive a        *)
(* timeout or Stop Task" (terminal.py:124-126).                            *)
NobodySurvives ==
    pc = "done" /\ Stopped => In({"running"}) = {}
=============================================================================
