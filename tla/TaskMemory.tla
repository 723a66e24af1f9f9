----------------------------- MODULE TaskMemory ------------------------------
(***************************************************************************)
(* Short-term memory of a task: task_state.py and planner.py, with the     *)
(* recording of results in context_manager.py and tools/planning.py.       *)
(* A task state is a record, its methods are operators on it.              *)
(***************************************************************************)
EXTENDS Naturals, Sequences, SequencesExt

CONSTANTS
    Path,         \* the files, as their paths are spelled
    Command, GitOp,
    Tests,        \* the commands _looks_like_test_command knows
    MinSteps,     \* MIN_PLAN_STEPS
    MaxSteps,     \* MAX_PLAN_STEPS
    MaxStored,    \* _MAX_STORED
    ShownFiles,   \* MAX_FILES_IN_SUMMARY
    ShownCommands,
    ShownErrors

ASSUME MemoryAssumption ==
    /\ Tests \subseteq Command
    /\ {MinSteps, MaxSteps, MaxStored, ShownFiles, ShownCommands, ShownErrors}
         \subseteq Nat \ {0}

NoPlan   == <<>>
Statuses == {"pending", "in_progress", "completed", "blocked", "failed"}
Plan     == {p \in Seq(Statuses) : Len(p) \in MinSteps..MaxSteps}

(* How a command may end, as far as it is recorded.  The first three left  *)
(* with exit code 0, and with a summary of tests that passed, one that     *)
(* says "failed" or "error" or has none passed, or no summary.  "absent"   *)
(* could not be started and has no exit code; one that was cancelled has   *)
(* the code of the signal.                                                 *)
Outcomes == {"passed", "mixed", "quiet", "failed", "cancelled", "timed_out", "absent"}

Task == [plan      : Plan \cup {NoPlan},
         inspected : Seq(Path),
         modified  : Seq(Path),
         commands  : Seq([cmd : Command, outcome : Outcomes]),
         errors    : Seq([cmd : Command, outcome : Outcomes]),
         git       : Seq(GitOp)]

NewTask == [plan |-> NoPlan, inspected |-> <<>>, modified |-> <<>>,
            commands |-> <<>>, errors |-> <<>>, git |-> <<>>]

-----------------------------------------------------------------------------
(* The lists.                                                              *)

LastOf(n, s) == IF Len(s) > n THEN SubSeq(s, Len(s) - n + 1, Len(s)) ELSE s
Trim(s)      == LastOf(MaxStored, s)
Listed(x, s) == \E i \in 1..Len(s) : s[i] = x

NoteInspected(t, f) ==
    [t EXCEPT !.inspected = Trim(Append(RemoveFirst(@, f), f))]

(* A file that changed has to be read again.                               *)
NoteModified(t, f) ==
    [t EXCEPT !.modified = IF Listed(f, @) THEN @ ELSE Trim(Append(@, f)),
              !.inspected = RemoveFirst(@, f)]

(* Mutant of NoteRemoved: the file is still one that was modified.         *)
NoteRemovedInspectedOnly(t, f) ==
    [t EXCEPT !.inspected = RemoveFirst(@, f)]

NoteRemoved(t, f) ==
    [t EXCEPT !.inspected = RemoveFirst(@, f), !.modified = RemoveFirst(@, f)]

NoteGit(t, o) == [t EXCEPT !.git = Trim(Append(@, o))]

-----------------------------------------------------------------------------
(* The result of a command: it is noted, and so is an error, or else a     *)
(* clean run of tests makes the earlier ones stale.                        *)

IsError(o)        == o \in {"failed", "cancelled", "timed_out"}
LooksPassing(o)   == o \in {"passed", "quiet"}
CleanRun(c, o)    == c \in Tests /\ LooksPassing(o)

(* Mutant of RecordCommand: any command that succeeds clears the errors.   *)
RecordCommandClears(t, c, o) ==
    LET r == [cmd |-> c, outcome |-> o]
    IN  [t EXCEPT !.commands = Trim(Append(@, r)),
                  !.errors = IF IsError(o) THEN Trim(Append(@, r))
                             ELSE IF LooksPassing(o) THEN <<>> ELSE @]

RecordCommand(t, c, o) ==
    LET r == [cmd |-> c, outcome |-> o]
    IN  [t EXCEPT !.commands = Trim(Append(@, r)),
                  !.errors = IF IsError(o) THEN Trim(Append(@, r))
                             ELSE IF CleanRun(c, o) THEN <<>> ELSE @]

-----------------------------------------------------------------------------
(* Plans.  A step is its status; the numbers are positions.                *)

(* Mutant of Proposed: a blank description is counted out, but kept.       *)
ProposedWithBlank(n) == [i \in 1..(n + 1) |-> "pending"]

Proposed(n) == [i \in 1..n |-> "pending"]

UpdateStep(t, i, s) == [t EXCEPT !.plan[i] = s]

WithStatus(p, s) == {i \in 1..Len(p) : p[i] = s}

(* Mutant of CurrentStep: work on pending steps has to be announced.       *)
CurrentStepInProgress(p) ==
    LET next == WithStatus(p, "in_progress")
    IN  {i \in next : \A j \in next : i <= j}

(* The step to work on, if there is one: the first in progress, or else    *)
(* the first pending.                                                      *)
CurrentStep(p) ==
    LET next == IF WithStatus(p, "in_progress") # {} THEN WithStatus(p, "in_progress")
                ELSE WithStatus(p, "pending")
    IN  {i \in next : \A j \in next : i <= j}

IsComplete(p) == p # NoPlan /\ WithStatus(p, "completed") = 1..Len(p)
IsBlocked(p)  == WithStatus(p, "blocked") \cup WithStatus(p, "failed") # {}

-----------------------------------------------------------------------------
(* What the model is told of a task in the system prompt.                  *)
Summarize(t) ==
    [done      |-> WithStatus(t.plan, "completed"),
     current   |-> CurrentStep(t.plan),
     stuck     |-> WithStatus(t.plan, "blocked") \cup WithStatus(t.plan, "failed"),
     inspected |-> LastOf(ShownFiles, t.inspected),
     modified  |-> t.modified,
     commands  |-> LastOf(ShownCommands, t.commands),
     errors    |-> LastOf(ShownErrors, t.errors),
     git       |-> LastOf(ShownCommands, t.git)]
=============================================================================
