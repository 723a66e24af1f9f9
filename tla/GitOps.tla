------------------------------- MODULE GitOps -------------------------------
(***************************************************************************)
(* The Git tools: agent/tools/git.py with the proposals of git_policy.py.  *)
(* A tool looks at the repository and proposes an operation, the human is  *)
(* asked, and apply_git_operation performs it as a series of git           *)
(* processes.  The repository belongs to everybody: between any two of     *)
(* these processes the user works in it, and others push to its remote.    *)
(*                                                                         *)
(* A history is the sequence of its commits, so that equal histories are   *)
(* equal commits, and an ancestor is a prefix.  There are no merges, no    *)
(* submodules, and a renamed file keeps its content.                       *)
(***************************************************************************)
EXTENDS Naturals, Sequences, FiniteSets, SequencesExt

CONSTANTS
    Branch,       \* branch names
    File,         \* the files of the project
    First,        \* those of its first commit
    Url,          \* where the remote may point to
    Detached,     \* HEAD is on no branch
    NoUrl,        \* the remote is not configured
    Root,         \* the project root, as a path to stage
    MaxVersion,   \* bound: contents of a file
    Links,        \* those of them that are the target of a symbolic link
    MaxListed,    \* MAX_STATUS_ENTRIES_PER_CATEGORY
    MaxMoves,     \* bound: what the user and others do
    MaxOps        \* bound: proposals

ASSUME NameAssumption ==
    Detached \notin Branch /\ NoUrl \notin Url /\ Root \notin File
ASSUME BoundAssumption ==
    First \subseteq File /\ MaxVersion \in Nat \ {0}
    /\ MaxMoves \in Nat /\ MaxOps \in Nat
ASSUME StatusAssumption ==
    Links \subseteq 1..MaxVersion /\ MaxListed \in Nat \ {0}

(* A project has finitely many files.                                      *)
ASSUME FileAssumption == IsFiniteSet(File)

Tree    == [File -> 0..MaxVersion]   \* 0 is "no such file"
Commit  == [tree : Tree, by : {"agent", "user"}]
History == Seq(Commit)               \* empty for a branch without commits

(* Paths resolve inside of the project, and a directory is as good as a    *)
(* file.                                                                   *)
Stageable == File \cup {Root}

Op      == [kind : {"none", "create_branch", "stage", "commit", "push"},
            branch : Branch \cup {Detached},
            paths : SUBSET Stageable,
            files : SUBSET File,     \* expected_staged_files
            url : Url \cup {NoUrl},
            shown : History]         \* what commits_preview ends with

VARIABLES
    log,        \* log[b]: the commits of b; b exists if there are any
    head,       \* the branch checked out
    loose,      \* the commits of a detached HEAD
    index,
    intent,     \* the files the index only names (git add --intent-to-add)
    work,
    refs,       \* refs[u][b]: the branches of the repository at u
    tracking,   \* what is known here of the remote's branches
    url,        \* where the remote points to
    moves,
    pc,         \* where apply_git_operation is; "idle", "asked" outside of it
    op,         \* the operation proposed last
    done,       \* the git process that is running has had its effect
    report,     \* the result of the last operation
    named,      \* the commit the result of a commit names
    raced,      \* history: somebody acted after the last check
    ops

stage  == <<index, intent>>
local  == <<log, head, loose, stage, work>>
remote == <<refs, tracking, url>>
repo   == <<local, remote>>
agent  == <<pc, op, done, report, named, ops>>
vars   == <<repo, moves, agent, raced>>

Empty       == [f \in File |-> 0]
TreeOf(h)   == IF h = <<>> THEN Empty ELSE h[Len(h)].tree
Tip         == IF head = Detached THEN loose ELSE log[head]
Covered(ps) == IF Root \in ps THEN File ELSE ps
Diff(s, t)  == {f \in File : s[f] # t[f]}

(* From tree s to tree t: a file that is gone and one with its content     *)
(* that is new are a renaming, each file in one of them.                   *)
Moved(s, t) ==
    {p \in File \X File : /\ s[p[1]] # 0 /\ t[p[1]] = 0
                         /\ s[p[2]] = 0 /\ t[p[2]] = s[p[1]]}

Renamings(s, t) ==
    LET Matching == {m \in SUBSET Moved(s, t) :
                       \A p, q \in m : p[1] = q[1] <=> p[2] = q[2]}
    IN  CHOOSE m \in Matching : \A n \in Matching : Cardinality(n) <= Cardinality(m)

(* git diff --name-only lists a renamed file by its new name only.         *)
Names(s, t) == Diff(s, t) \ {p[1] : p \in Renamings(s, t)}
Staged      == Names(TreeOf(Tip), index)

NoOp == [kind |-> "none", branch |-> Detached, paths |-> {}, files |-> {},
         url |-> NoUrl, shown |-> <<>>]

Init ==
    /\ LET t == [f \in File |-> IF f \in First THEN 1 ELSE 0] IN
         /\ log \in [Branch -> {<<>>, <<[tree |-> t, by |-> "user"]>>}]
         /\ head \in {b \in Branch : log[b] # <<>>}
         /\ index = t /\ intent = {}
    /\ work \in Tree
    /\ loose = <<>>
    /\ refs \in [Url -> {log, [b \in Branch |-> <<>>]}]
    /\ url \in Url
    /\ tracking = refs[url]
    /\ moves = 0 /\ ops = 0
    /\ pc = "idle" /\ op = NoOp /\ done = FALSE
    /\ report = "none" /\ named = <<>> /\ raced = FALSE

-----------------------------------------------------------------------------
(* The tools.  Each proposes one operation, or fails and proposes none.    *)

Propose(o) ==
    /\ pc = "idle"
    /\ ops < MaxOps
    /\ ops' = ops + 1
    /\ pc' = "asked"
    /\ op' = o
    /\ report' = "none" /\ named' = <<>> /\ raced' = FALSE
    /\ UNCHANGED <<repo, moves, done>>

ProposeBranch(b) ==
    /\ log[b] = <<>>
    /\ Propose([NoOp EXCEPT !.kind = "create_branch", !.branch = b])

ProposeStage(ps) ==
    /\ ps # {} /\ ps \subseteq Stageable
    /\ Propose([NoOp EXCEPT !.kind = "stage", !.paths = ps])

(* Mutant of ProposeCommit: nothing needs to be staged.                    *)
ProposeCommitAnyway ==
    Propose([NoOp EXCEPT !.kind = "commit", !.files = Staged])

ProposeCommit ==
    /\ Staged # {}
    /\ Propose([NoOp EXCEPT !.kind = "commit", !.files = Staged])

(* The commits the remote's branch is behind by, as far as is known here:  *)
(* they end with the branch as it is.                                      *)
Preview(b) == log[b]

ProposePush ==
    /\ url # NoUrl
    /\ head # Detached
    /\ Propose([NoOp EXCEPT !.kind = "push", !.branch = head, !.url = url,
                            !.shown = Preview(head)])

-----------------------------------------------------------------------------
(* The human, and apply_git_operation.  Every process it starts may fail,  *)
(* and is killed when its timeout is over.                                 *)

End(r) ==
    /\ pc' = "idle"
    /\ done' = FALSE
    /\ report' = r
    /\ op' = IF r = "ok" THEN op ELSE NoOp
    /\ UNCHANGED <<named, ops>>

Goto(l) ==
    /\ pc' = l
    /\ UNCHANGED <<op, done, report, named, ops>>

Approve ==
    /\ pc = "asked"
    /\ Goto("repository")
    /\ UNCHANGED <<repo, moves, raced>>

Reject ==
    /\ pc = "asked"
    /\ End("none")
    /\ UNCHANGED <<repo, moves, raced>>

CheckRepository ==
    /\ pc = "repository"
    /\ Goto(IF op.kind \in {"commit", "push"} THEN op.kind ELSE "run")
    /\ raced' = FALSE
    /\ UNCHANGED <<repo, moves>>

(* Mutant of RecheckCommit: something is staged, whatever it is.           *)
RecheckCommitNotEmpty ==
    /\ pc = "commit"
    /\ IF Staged # {} THEN Goto("run") ELSE End("stale")
    /\ raced' = FALSE
    /\ UNCHANGED <<repo, moves>>

(* The names are compared, not the contents.                               *)
RecheckCommit ==
    /\ pc = "commit"
    /\ IF Staged = op.files THEN Goto("run") ELSE End("stale")
    /\ raced' = FALSE
    /\ UNCHANGED <<repo, moves>>

RecheckBranch ==
    /\ pc = "push"
    /\ IF head = op.branch THEN Goto("remote") ELSE End("stale")
    /\ raced' = FALSE
    /\ UNCHANGED <<repo, moves>>

RecheckRemote ==
    /\ pc = "remote"
    /\ IF url # NoUrl THEN Goto("run") ELSE End("failed")
    /\ UNCHANGED <<repo, moves, raced>>

(* A process in front of the last one fails.                               *)
ToolFails ==
    /\ pc \in {"repository", "commit", "push", "remote"}
    /\ End("failed")
    /\ UNCHANGED <<repo, moves, raced>>

(* The last process: git branch, git add, git commit, git push.            *)
Effect ==
    /\ pc = "run"
    /\ ~done
    /\ done' = TRUE
    /\ UNCHANGED <<moves, pc, op, report, named, ops, raced>>

MakeBranch ==
    /\ op.kind = "create_branch"
    /\ Effect
    /\ log[op.branch] = <<>> /\ Tip # <<>>
    /\ log' = [log EXCEPT ![op.branch] = Tip]
    /\ UNCHANGED <<head, loose, stage, work, remote>>

(* What the files hold now is staged.                                      *)
AddFiles ==
    /\ op.kind = "stage"
    /\ Effect
    /\ index' = [f \in File |-> IF f \in Covered(op.paths) THEN work[f] ELSE index[f]]
    /\ intent' = intent \ Covered(op.paths)
    /\ UNCHANGED <<log, head, loose, work, remote>>

Grow(by) ==
    LET h == Append(Tip, [tree |-> index, by |-> by])
    IN  /\ log' = IF head = Detached THEN log ELSE [log EXCEPT ![head] = h]
        /\ loose' = IF head = Detached THEN h ELSE loose
        /\ UNCHANGED <<head, stage, work>>

MakeCommit ==
    /\ op.kind = "commit"
    /\ Effect
    /\ Staged # {}
    /\ Grow("agent")
    /\ UNCHANGED remote

(* Mutant of Push: git push --force.                                       *)
PushForced ==
    /\ op.kind = "push"
    /\ Effect
    /\ url # NoUrl /\ log[op.branch] # <<>>
    /\ refs' = [refs EXCEPT ![url][op.branch] = log[op.branch]]
    /\ tracking' = [tracking EXCEPT ![op.branch] = log[op.branch]]
    /\ UNCHANGED <<local, url>>

(* The remote takes the branch only if it loses no commit by that.         *)
Push ==
    /\ op.kind = "push"
    /\ Effect
    /\ url # NoUrl /\ log[op.branch] # <<>>
    /\ IsPrefix(refs[url][op.branch], log[op.branch])
    /\ refs' = [refs EXCEPT ![url][op.branch] = log[op.branch]]
    /\ tracking' = [tracking EXCEPT ![op.branch] = log[op.branch]]
    /\ UNCHANGED <<local, url>>

(* git itself declines: a hook, a lock, nothing to commit, a branch that   *)
(* exists, a remote that is ahead or out of reach.                         *)
GitRefuses ==
    /\ pc = "run"
    /\ ~done
    /\ End("failed")
    /\ UNCHANGED <<repo, moves, raced>>

Exit ==
    /\ pc = "run"
    /\ done
    /\ IF op.kind = "commit" THEN Goto("sha") ELSE End("ok")
    /\ UNCHANGED <<repo, moves, raced>>

(* rev-parse HEAD, for the message: a process of its own.                  *)
ReadSha ==
    /\ pc = "sha"
    /\ pc' = "idle" /\ done' = FALSE
    /\ report' = "ok"
    /\ named' = Tip
    /\ UNCHANGED <<repo, moves, op, ops, raced>>

Applying == {"repository", "commit", "push", "remote", "run", "sha"}

(* The process is killed, before or after its effect.                      *)
Timeout ==
    /\ pc \in Applying
    /\ End("failed")
    /\ UNCHANGED <<repo, moves, raced>>

(* Ctrl+C ends the turn.                                                   *)
Interrupt ==
    /\ pc # "idle"
    /\ End("none")
    /\ UNCHANGED <<repo, moves, raced>>

-----------------------------------------------------------------------------
(* Everybody else.                                                         *)

Move ==
    /\ moves < MaxMoves
    /\ moves' = moves + 1
    /\ raced' = (raced \/ pc \in Applying)
    /\ UNCHANGED agent

Edit(f, v) ==
    /\ Move
    /\ work' = [work EXCEPT ![f] = v]
    /\ UNCHANGED <<log, head, loose, stage, remote>>

UserAdd(f) ==
    /\ Move
    /\ index' = [index EXCEPT ![f] = work[f]]
    /\ intent' = intent \ {f}
    /\ UNCHANGED <<log, head, loose, work, remote>>

(* git add --intent-to-add.                                                *)
UserIntend(f) ==
    /\ Move
    /\ index[f] = 0 /\ work[f] # 0
    /\ intent' = intent \cup {f}
    /\ UNCHANGED <<log, head, loose, index, work, remote>>

UserCommit ==
    /\ Move
    /\ Staged # {}
    /\ Grow("user")
    /\ UNCHANGED remote

(* git reset --soft, or the first half of an amend.                        *)
Rewind ==
    /\ Move
    /\ head # Detached /\ Len(log[head]) > 1
    /\ log' = [log EXCEPT ![head] = Front(log[head])]
    /\ UNCHANGED <<head, loose, stage, work, remote>>

(* git switch, which keeps what is not committed if it is in nobody's way. *)
Switch(b) ==
    /\ Move
    /\ b # head /\ log[b] # <<>>
    /\ LET t == TreeOf(log[b])
           Carried(s) == [f \in File |-> IF f \in Diff(TreeOf(Tip), t) THEN t[f] ELSE s[f]]
       IN  /\ Diff(TreeOf(Tip), t)
                 \cap (Staged \cup intent \cup Diff(work, TreeOf(Tip))) = {}
           /\ index' = Carried(index) /\ work' = Carried(work)
    /\ head' = b
    /\ UNCHANGED <<log, loose, intent, remote>>

NewBranch(b) ==
    /\ Move
    /\ log[b] = <<>> /\ Tip # <<>>
    /\ log' = [log EXCEPT ![b] = Tip]
    /\ head' = b
    /\ UNCHANGED <<loose, stage, work, remote>>

Detach ==
    /\ Move
    /\ head # Detached /\ Tip # <<>>
    /\ head' = Detached
    /\ loose' = Tip
    /\ UNCHANGED <<log, stage, work, remote>>

SetUrl(u) ==
    /\ Move
    /\ u # url
    /\ url' = u
    /\ tracking' = IF u = NoUrl THEN [b \in Branch |-> <<>>] ELSE tracking
    /\ UNCHANGED <<local, refs>>

OthersPush(u, b) ==
    /\ Move
    /\ refs' = [refs EXCEPT ![u][b] = Append(@, [tree |-> Empty, by |-> "user"])]
    /\ UNCHANGED <<local, tracking, url>>

Fetch ==
    /\ Move
    /\ url # NoUrl
    /\ tracking' = refs[url]
    /\ UNCHANGED <<local, refs, url>>

-----------------------------------------------------------------------------
(* git_status: the lines of git status, and the lists they go to.          *)

(* What happened to each file from tree s to tree t, a letter.  A renaming *)
(* is told of its new name.                                                *)
Change(s, t) ==
    LET m == Renamings(s, t)
    IN  [f \in File |->
          IF s[f] = t[f] \/ \E r \in m : r[1] = f THEN " "
          ELSE IF \E r \in m : r[2] = f THEN "R"
          ELSE IF s[f] = 0 THEN "A" ELSE IF t[f] = 0 THEN "D"
          ELSE IF s[f] \in Links <=> t[f] \notin Links THEN "T" ELSE "M"]

(* The files as far as the index names them.                               *)
Held == [f \in File |-> IF index[f] = 0 /\ f \notin intent THEN 0 ELSE work[f]]

(* The files of a renaming share a line.                                   *)
Lines ==
    LET m == Renamings(TreeOf(Tip), index) \cup Renamings(index, Held)
        x == Change(TreeOf(Tip), index)
        c == Change(index, Held)
        y == [f \in File |-> IF f \in intent /\ work[f] = 0 THEN "D" ELSE c[f]]
        Untracked == {f \in File : index[f] = 0 /\ f \notin intent /\ work[f] # 0}
    IN  {[x |-> "?", y |-> "?", names |-> {f}] : f \in Untracked}
        \cup {[x |-> x[f], y |-> y[f], names |-> {f} \cup {r[1] : r \in {r \in m : r[2] = f}}] :
                f \in {f \in File : x[f] # " " \/ y[f] # " "}}

(* Mutant of Lists: the columns are taken for alternatives.                *)
ListsOneColumn(l) ==
    IF l.x = "?" THEN {"untracked"}
    ELSE IF Cardinality(l.names) > 1 THEN {"renamed"}
    ELSE IF l.y = "M" THEN {"modified"} ELSE IF l.y = "D" THEN {"deleted"}
    ELSE {"staged"}

Lists(l) ==
    IF l.x = "?" THEN {"untracked"}
    ELSE (IF Cardinality(l.names) > 1 THEN {"renamed"}
          ELSE IF l.x # " " THEN {"staged"} ELSE {})
         \cup (IF l.y = "M" THEN {"modified"} ELSE IF l.y = "D" THEN {"deleted"} ELSE {})

Listing  == {"staged", "modified", "deleted", "renamed", "untracked"}
Category == LET ls == Lines
            IN  [list \in Listing |-> {l \in ls : list \in Lists(l)}]

(* A long list is cut, in the order of git's lines, and says that it is.   *)
Cut(lines)     == Cardinality(lines) > MaxListed
Printed(lines) == IF Cut(lines)
                  THEN {p \in SUBSET lines : Cardinality(p) = MaxListed}
                  ELSE {lines}

NamesIn(lines) == UNION {l.names : l \in lines}

-----------------------------------------------------------------------------
Tools ==
    \/ \E b \in Branch : ProposeBranch(b)
    \/ \E ps \in SUBSET Stageable : ProposeStage(ps)
    \/ ProposeCommit \/ ProposePush

Checks == CheckRepository \/ RecheckCommit \/ RecheckBranch \/ RecheckRemote

Perform == MakeBranch \/ AddFiles \/ MakeCommit \/ Push

Agent ==
    \/ Tools \/ Approve \/ Reject \/ Interrupt
    \/ Checks \/ ToolFails \/ Perform \/ GitRefuses \/ Exit \/ ReadSha \/ Timeout

Others ==
    \/ \E f \in File : UserAdd(f) \/ UserIntend(f) \/ \E v \in 0..MaxVersion : Edit(f, v)
    \/ \E b \in Branch : Switch(b) \/ NewBranch(b)
    \/ UserCommit \/ Rewind \/ Detach \/ Fetch
    \/ \E u \in Url \cup {NoUrl} : SetUrl(u)
    \/ \E u \in Url, b \in Branch : OthersPush(u, b)

Next == Agent \/ Others

Spec == Init /\ [][Next]_vars

-----------------------------------------------------------------------------
(* Properties.                                                             *)

(* An operation has what its kind needs.                                   *)
Complete(o) ==
    /\ o.kind = "create_branch" => o.branch \in Branch
    /\ o.kind = "stage" => o.paths # {}
    /\ o.kind = "commit" => o.files # {}
    /\ o.kind = "push" => o.branch \in Branch /\ o.url # NoUrl

(* Every variable stays within its type; what is proposed is complete, and *)
(* an effect is one of a process that runs.                                *)
TypeOK ==
    /\ log \in [Branch -> History] /\ loose \in History
    /\ head \in Branch \cup {Detached}
    /\ index \in Tree /\ work \in Tree
    /\ intent \in SUBSET {f \in File : index[f] = 0}
    /\ refs \in [Url -> [Branch -> History]] /\ tracking \in [Branch -> History]
    /\ url \in Url \cup {NoUrl}
    /\ moves \in 0..MaxMoves /\ ops \in 0..MaxOps
    /\ pc \in {"idle", "asked"} \cup Applying
    /\ op \in Op /\ Complete(op) /\ named \in History
    /\ done \in BOOLEAN /\ (done => pc \in {"run", "sha"})
    /\ report \in {"none", "stale", "failed", "ok"}
    /\ raced \in BOOLEAN

(* "destructive Git commands ... permanently unreachable, not just         *)
(* discouraged" (git.py:15-17): no step of the agent takes a commit from   *)
(* a branch, here or at a remote, or from a detached HEAD.                 *)
LosesNoCommit ==
    [][Agent => /\ \A b \in Branch : IsPrefix(log[b], log'[b])
                /\ \A u \in Url, b \in Branch : IsPrefix(refs[u][b], refs'[u][b])
                /\ IsPrefix(Tip, Tip')]_vars

(* Nor does it touch a file, or stage more than the paths the human was    *)
(* shown cover (git.py:563-567).                                           *)
StagesOnlyPaths ==
    [][Agent => /\ work' = work
                /\ index' = index \/ Diff(index, index') \subseteq Covered(op.paths)]_vars

(* The check in front of a commit (git.py:456-468): if nobody acts after   *)
(* it, the commit that is reported is the agent's and changes the files    *)
(* the human was shown.  A commit somebody else makes before rev-parse is  *)
(* reported in its place.                                                  *)
CalmCommitIsAsShown ==
    report = "ok" /\ op.kind = "commit" /\ ~raced
      => /\ named # <<>> /\ named[Len(named)].by = "agent"
         /\ Names(TreeOf(Front(named)), TreeOf(named)) = op.files

(* What the lists of git_status lose.  A file that differs between HEAD,   *)
(* index and files, unless it is overlooked, is in one of them, and is     *)
(* printed unless the list says that it is cut; no other file is; and what *)
(* a commit would be proposed with is listed as staged or renamed.         *)
Differing == Diff(TreeOf(Tip), index) \cup Diff(index, work) \cup intent

(* There is no branch for a second column that is T or A (git.py:204-207). *)
Overlooked ==
    {f \in File : /\ TreeOf(Tip)[f] = index[f] /\ work[f] # 0
                  /\ \/ f \in intent
                     \/ index[f] # 0 /\ (index[f] \in Links <=> work[f] \notin Links)}

StatusIsComplete ==
    LET listed == Category
    IN  /\ \A f \in Differing \ Overlooked :
             \E list \in Listing :
               /\ f \in NamesIn(listed[list])
               /\ Cut(listed[list]) \/ \A p \in Printed(listed[list]) : f \in NamesIn(p)
        /\ \A list \in Listing : NamesIn(listed[list]) \subseteq Differing
        /\ Staged \subseteq NamesIn(listed["staged"] \cup listed["renamed"])

(* "Working tree: clean" (git.py:215-216), which is printed when no file   *)
(* is listed, though some may be overlooked.                               *)
CleanMeansClean ==
    (\A list \in Listing : Category[list] = {}) => Differing = {}

(* "so a push can't silently fire against a branch that moved since it     *)
(* was proposed" (git_policy.py:69-73), nor against one that moved before  *)
(* the check at apply time.                                                *)
PushesWhatWasShown ==
    [][Push /\ ~raced => log[op.branch] = op.shown]_vars
=============================================================================
