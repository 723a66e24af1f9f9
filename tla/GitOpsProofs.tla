---------------------------- MODULE GitOpsProofs ----------------------------
(***************************************************************************)
(* Theorems about GitOps, for any names, files and bounds.                 *)
(***************************************************************************)
EXTENDS GitOps, TLAPS, WellFoundedInduction, FiniteSetTheorems

LEMMA PrefixRefl ==
    ASSUME NEW S, NEW s \in Seq(S)
    PROVE  IsPrefix(s, s)
  BY DEF IsPrefix

LEMMA PrefixAppend ==
    ASSUME NEW S, NEW s \in Seq(S), NEW e \in S
    PROVE  IsPrefix(s, Append(s, e))
  BY DEF IsPrefix

LEMMA FrontAppend ==
    ASSUME NEW S, NEW s \in Seq(S), NEW e \in S
    PROVE  /\ Append(s, e) \in Seq(S) /\ Append(s, e) # <<>>
           /\ Front(Append(s, e)) = s
           /\ Append(s, e)[Len(Append(s, e))] = e
  <1>1. Append(s, e) \in Seq(S) /\ Len(Append(s, e)) = Len(s) + 1
        /\ Append(s, e)[Len(s) + 1] = e
    OBVIOUS
  <1>2. SubSeq(Append(s, e), 1, Len(s)) = s
    OBVIOUS
  <1>3. QED
    BY <1>1, <1>2 DEF Front

LEMMA FrontInSeq ==
    ASSUME NEW S, NEW s \in Seq(S), Len(s) > 1
    PROVE  Front(s) \in Seq(S)
  BY DEF Front

(* What the sequences and records of the model are made of.                *)
LEMMA TreeTypes ==
    /\ Empty \in Tree
    /\ \A h \in History : TreeOf(h) \in Tree
    /\ \A h \in History : (h # <<>>) => Len(h) > 0
  <1>1. Empty \in Tree
    BY BoundAssumption DEF Empty, Tree
  <1>2. ASSUME NEW h \in History, h # <<>>
        PROVE  h[Len(h)].tree \in Tree /\ Len(h) > 0
    <2>1. h[Len(h)] \in Commit /\ Len(h) > 0
      BY <1>2 DEF History
    <2>2. QED
      BY <2>1 DEF Commit
  <1>3. QED
    BY <1>1, <1>2 DEF TreeOf

LEMMA NoOpType == NoOp \in Op /\ Complete(NoOp)
  BY NameAssumption DEF NoOp, Op, History, Stageable, Complete

LEMMA NamesType == \A s, t : Names(s, t) \subseteq File
  BY DEF Names, Diff

(* TypeOK falls into the repository's part, that of an operation, and the  *)
(* two that relate the counters and the control.                           *)
RepoOK ==
    /\ log \in [Branch -> History] /\ loose \in History
    /\ head \in Branch \cup {Detached}
    /\ index \in Tree /\ work \in Tree
    /\ intent \in SUBSET {f \in File : index[f] = 0}
    /\ refs \in [Url -> [Branch -> History]] /\ tracking \in [Branch -> History]
    /\ url \in Url \cup {NoUrl}

OpOK ==
    op \in Op /\ Complete(op) /\ named \in History /\ report \in {"none", "stale", "failed", "ok"}

ControlOK ==
    /\ pc \in {"idle", "asked"} \cup Applying
    /\ done \in BOOLEAN /\ (done => pc \in {"run", "sha"})
    /\ raced \in BOOLEAN

CountOK == moves \in 0..MaxMoves /\ ops \in 0..MaxOps

LEMMA TypeParts ==
    /\ TypeOK <=> RepoOK /\ OpOK /\ ControlOK /\ CountOK
    /\ TypeOK' <=> RepoOK' /\ OpOK' /\ ControlOK' /\ CountOK'
  BY DEF TypeOK, RepoOK, OpOK, ControlOK, CountOK

LEMMA TipType ==
    ASSUME RepoOK
    PROVE  Tip \in History /\ TreeOf(Tip) \in Tree /\ Staged \subseteq File
  BY TreeTypes, NamesType DEF RepoOK, Tip, Staged

LEMMA GrowType ==
    ASSUME RepoOK, NEW by \in {"agent", "user"}, Grow(by)
    PROVE  /\ log' \in [Branch -> History] /\ loose' \in History
           /\ Tip' = Append(Tip, [tree |-> index, by |-> by])
  <1> DEFINE c == [tree |-> index, by |-> by]
             h == Append(Tip, c)
  <1>1. c \in Commit
    BY DEF RepoOK, Commit
  <1>2. h \in History
    BY <1>1, TipType DEF History
  <1>3. CASE head = Detached
    BY <1>2, <1>3 DEF Grow, RepoOK, Tip
  <1>4. CASE head # Detached
    <2>1. head \in Branch
      BY <1>4 DEF RepoOK
    <2>2. log' = [log EXCEPT ![head] = h] /\ loose' = loose /\ head' = head
      BY <1>4 DEF Grow
    <2>3. QED
      BY <1>2, <1>4, <2>1, <2>2 DEF RepoOK, Tip
  <1>5. QED
    BY <1>3, <1>4

(* A step of the control that leaves the repository alone keeps the types. *)
LEMMA EndType ==
    ASSUME TypeOK, NEW r \in {"none", "stale", "failed", "ok"}, End(r)
    PROVE  OpOK' /\ pc' = "idle" /\ done' = FALSE /\ ops' = ops
  BY NoOpType, TypeParts DEF OpOK, End

LEMMA GotoType ==
    ASSUME TypeOK, NEW l, Goto(l)
    PROVE  OpOK' /\ pc' = l /\ done' = done /\ ops' = ops
  BY TypeParts DEF OpOK, Goto

LEMMA ProposeType ==
    ASSUME TypeOK, NEW o \in Op, Complete(o), Propose(o)
    PROVE  TypeOK'
  <1>1. RepoOK' /\ ControlOK'
    BY TypeParts DEF Propose, RepoOK, ControlOK, Applying, repo, local, stage, remote
  <1>2. OpOK'
    BY TypeParts DEF Propose, OpOK, History
  <1>3. CountOK'
    BY TypeParts, BoundAssumption DEF Propose, CountOK
  <1>4. QED
    BY <1>1, <1>2, <1>3, TypeParts

LEMMA ToolsType ==
    ASSUME TypeOK, Tools
    PROVE  TypeOK'
  <1>1. ASSUME NEW b \in Branch, ProposeBranch(b)
        PROVE  TypeOK'
    <2> DEFINE o == [NoOp EXCEPT !.kind = "create_branch", !.branch = b]
    <2>1. o \in Op /\ Complete(o)
      BY NoOpType DEF Op, Complete
    <2>2. QED
      BY <1>1, <2>1, ProposeType DEF ProposeBranch
  <1>2. ASSUME NEW ps \in SUBSET Stageable, ProposeStage(ps)
        PROVE  TypeOK'
    <2> DEFINE o == [NoOp EXCEPT !.kind = "stage", !.paths = ps]
    <2>1. o \in Op /\ (ps # {} => Complete(o))
      BY NoOpType DEF Op, Complete
    <2>2. QED
      BY <1>2, <2>1, ProposeType DEF ProposeStage
  <1>3. CASE ProposeCommit
    <2> DEFINE o == [NoOp EXCEPT !.kind = "commit", !.files = Staged]
    <2>1. o \in Op /\ (Staged # {} => Complete(o))
      BY NoOpType, TipType, TypeParts DEF Op, Complete
    <2>2. QED
      BY <1>3, <2>1, ProposeType DEF ProposeCommit
  <1>4. CASE ProposePush
    <2>1. head \in Branch /\ log[head] \in History /\ url \in Url /\ url # NoUrl
      BY <1>4, TypeParts DEF ProposePush, RepoOK
    <2> DEFINE o == [NoOp EXCEPT !.kind = "push", !.branch = head, !.url = url,
                                 !.shown = Preview(head)]
    <2>2. o \in Op /\ Complete(o)
      BY <2>1, NoOpType DEF Op, Preview, Complete
    <2>3. QED
      BY <1>4, <2>2, ProposeType DEF ProposePush
  <1>5. QED
    BY <1>1, <1>2, <1>3, <1>4 DEF Tools

(* Everything of apply_git_operation but the effects leaves the repository *)
(* as it is.                                                               *)
Control ==
    Approve \/ Reject \/ Interrupt \/ Checks \/ ToolFails \/ GitRefuses \/ Exit
    \/ ReadSha \/ Timeout

LEMMA ControlType ==
    ASSUME TypeOK, Control
    PROVE  TypeOK' /\ UNCHANGED repo
  <1> USE DEF Applying
  <1>1. UNCHANGED <<repo, moves>>
    BY DEF Control, Checks, Approve, Reject, Interrupt, CheckRepository, RecheckCommit,
       RecheckBranch, RecheckRemote, ToolFails, GitRefuses, Exit, ReadSha, Timeout
  <1>2. RepoOK'
    BY <1>1, TypeParts DEF RepoOK, repo, local, stage, remote
  <1>3. raced' \in BOOLEAN
    BY TypeParts DEF ControlOK, Control, Checks, Approve, Reject, Interrupt,
       CheckRepository, RecheckCommit, RecheckBranch, RecheckRemote, ToolFails,
       GitRefuses, Exit, ReadSha, Timeout
  <1>4. CASE ReadSha
    BY <1>1, <1>2, <1>3, <1>4, TypeParts, TipType DEF ReadSha, OpOK, ControlOK, CountOK
  <1>5. ASSUME NEW r \in {"none", "stale", "failed", "ok"}, End(r)
        PROVE  TypeOK'
    BY <1>1, <1>2, <1>3, <1>5, EndType, TypeParts DEF ControlOK, CountOK
  <1>6. ASSUME NEW l, Goto(l), l \in {"repository", "commit", "push", "remote", "run", "sha"},
               done => l \in {"run", "sha"}
        PROVE  TypeOK'
    BY <1>1, <1>2, <1>3, <1>6, GotoType, TypeParts DEF ControlOK, CountOK
  <1>7. pc \notin {"run", "sha"} => ~done
    BY TypeParts DEF ControlOK
  <1>8. CASE Approve
    BY <1>6, <1>7, <1>8 DEF Approve
  <1>9. CASE CheckRepository
    <2>1. op.kind \in {"commit", "push"} \/ op.kind \notin {"commit", "push"}
      OBVIOUS
    <2>2. QED
      BY <1>6, <1>7, <1>9, <2>1 DEF CheckRepository
  <1>10. CASE Reject \/ Interrupt \/ ToolFails \/ GitRefuses \/ Timeout
    BY <1>5, <1>10 DEF Reject, Interrupt, ToolFails, GitRefuses, Timeout
  <1>11. CASE RecheckCommit
    BY <1>5, <1>6, <1>7, <1>11 DEF RecheckCommit
  <1>12. CASE RecheckBranch
    BY <1>5, <1>6, <1>7, <1>12 DEF RecheckBranch
  <1>13. CASE RecheckRemote
    BY <1>5, <1>6, <1>7, <1>13 DEF RecheckRemote
  <1>14. CASE Exit
    BY <1>5, <1>6, <1>14 DEF Exit
  <1>15. QED
    BY <1>1, <1>4, <1>8, <1>9, <1>10, <1>11, <1>12, <1>13, <1>14 DEF Control, Checks

LEMMA PerformType ==
    ASSUME TypeOK, Perform
    PROVE  TypeOK'
  <1>1. OpOK' /\ CountOK'
    BY TypeParts DEF Perform, MakeBranch, AddFiles, MakeCommit, Push, Effect, OpOK, CountOK
  <1>2. ControlOK'
    BY TypeParts DEF Perform, MakeBranch, AddFiles, MakeCommit, Push, Effect, ControlOK
  <1>3. ASSUME MakeBranch PROVE RepoOK'
    <2>1. Tip \in History /\ op.branch \in Branch \cup {Detached}
      BY TipType, TypeParts DEF OpOK, Op
    <2>2. log' \in [Branch -> History]
      BY <1>3, <2>1, TypeParts DEF MakeBranch, RepoOK
    <2>3. QED
      BY <1>3, <2>2, TypeParts DEF MakeBranch, RepoOK, stage, remote
  <1>4. ASSUME AddFiles PROVE RepoOK'
    <2>1. index' \in Tree
      BY <1>4, TypeParts DEF AddFiles, RepoOK, Tree
    <2>2. intent' \in SUBSET {f \in File : index'[f] = 0}
      BY <1>4, TypeParts DEF AddFiles, RepoOK
    <2>3. QED
      BY <1>4, <2>1, <2>2, TypeParts DEF AddFiles, RepoOK, remote
  <1>5. ASSUME MakeCommit PROVE RepoOK'
    <2>1. log' \in [Branch -> History] /\ loose' \in History
      BY <1>5, GrowType, TypeParts DEF MakeCommit
    <2>2. QED
      BY <1>5, <2>1, TypeParts DEF MakeCommit, Grow, RepoOK, stage, remote
  <1>6. ASSUME Push PROVE RepoOK'
    <2>1. op.branch \in Branch \cup {Detached} /\ url \in Url
      BY <1>6, TypeParts DEF Push, RepoOK, OpOK, Op
    <2>2. CASE op.branch = Detached
      BY <1>6, <2>1, <2>2, TypeParts DEF Push, RepoOK, local, stage
    <2>3. CASE op.branch \in Branch
      BY <1>6, <2>1, <2>3, TypeParts DEF Push, RepoOK, local, stage
    <2>4. QED
      BY <2>1, <2>2, <2>3
  <1>7. RepoOK'
    BY <1>3, <1>4, <1>5, <1>6, TypeParts DEF Perform
  <1>8. QED
    BY <1>1, <1>2, <1>7, TypeParts

LEMMA MoveType ==
    ASSUME TypeOK, Move
    PROVE  OpOK' /\ CountOK' /\ ControlOK'
  <1>1. OpOK' /\ ControlOK'
    BY TypeParts DEF Move, agent, OpOK, ControlOK
  <1>2. CountOK'
    BY TypeParts, BoundAssumption DEF Move, agent, CountOK
  <1>3. QED
    BY <1>1, <1>2

LEMMA OthersType ==
    ASSUME TypeOK, Others
    PROVE  TypeOK'
  <1>1. Move
    BY DEF Others, Edit, UserAdd, UserIntend, UserCommit, Rewind, Switch, NewBranch, Detach, SetUrl,
       OthersPush, Fetch
  <1>2. RepoOK /\ Tip \in History
    BY TipType, TypeParts
  <1>3. ASSUME NEW f \in File,
               UserAdd(f) \/ UserIntend(f) \/ \E v \in 0..MaxVersion : Edit(f, v)
        PROVE  RepoOK'
    <2>1. CASE UserAdd(f)
      <3>1. index' \in Tree /\ \A g \in File \ {f} : index'[g] = index[g]
        BY <1>2, <2>1 DEF UserAdd, RepoOK, Tree
      <3>2. intent' \in SUBSET {g \in File : index'[g] = 0}
        BY <1>2, <2>1, <3>1 DEF UserAdd, RepoOK
      <3>3. QED
        BY <1>2, <2>1, <3>1, <3>2 DEF UserAdd, RepoOK, remote
    <2>2. CASE UserIntend(f)
      BY <1>2, <2>2 DEF UserIntend, RepoOK, remote
    <2>3. CASE \E v \in 0..MaxVersion : Edit(f, v)
      BY <1>2, <2>3 DEF Edit, RepoOK, Tree, stage, remote
    <2>4. QED
      BY <1>3, <2>1, <2>2, <2>3
  <1>4. ASSUME NEW b \in Branch, Switch(b)
        PROVE  RepoOK'
    <2>1. TreeOf(log[b]) \in Tree
      BY <1>2, TreeTypes DEF RepoOK
    <2>2. index' \in Tree /\ work' \in Tree
      BY <1>2, <1>4, <2>1 DEF Switch, RepoOK, Tree
    <2>3. intent' \in SUBSET {f \in File : index'[f] = 0}
      BY <1>2, <1>4 DEF Switch, RepoOK
    <2>4. QED
      BY <1>2, <1>4, <2>2, <2>3 DEF Switch, RepoOK, remote
  <1>5. ASSUME NEW b \in Branch, NewBranch(b)
        PROVE  RepoOK'
    BY <1>2, <1>5 DEF NewBranch, RepoOK, stage, remote
  <1>6. ASSUME UserCommit PROVE RepoOK'
    <2>1. log' \in [Branch -> History] /\ loose' \in History
      BY <1>2, <1>6, GrowType DEF UserCommit
    <2>2. QED
      BY <1>2, <1>6, <2>1 DEF UserCommit, Grow, RepoOK, stage, remote
  <1>7. ASSUME Rewind PROVE RepoOK'
    <2>1. head \in Branch /\ Front(log[head]) \in History
      BY <1>2, <1>7, FrontInSeq DEF Rewind, RepoOK, History
    <2>2. QED
      BY <1>2, <1>7, <2>1 DEF Rewind, RepoOK, stage, remote
  <1>8. ASSUME Detach PROVE RepoOK'
    BY <1>2, <1>8 DEF Detach, RepoOK, stage, remote
  <1>9. ASSUME Fetch PROVE RepoOK'
    BY <1>2, <1>9 DEF Fetch, RepoOK, local, stage
  <1>10. ASSUME NEW u \in Url \cup {NoUrl}, SetUrl(u)
         PROVE  RepoOK'
    <2>1. [b \in Branch |-> <<>>] \in [Branch -> History]
      BY DEF History
    <2>2. QED
      BY <1>2, <1>10, <2>1 DEF SetUrl, RepoOK, local, stage
  <1>11. ASSUME NEW u \in Url, NEW b \in Branch, OthersPush(u, b)
         PROVE  RepoOK'
    <2> DEFINE c == [tree |-> Empty, by |-> "user"]
    <2>1. c \in Commit
      BY TreeTypes DEF Commit
    <2>2. Append(refs[u][b], c) \in History
      BY <1>2, <2>1 DEF RepoOK, History
    <2>3. refs' \in [Url -> [Branch -> History]]
      BY <1>2, <1>11, <2>2 DEF OthersPush, RepoOK
    <2>4. QED
      BY <1>2, <1>11, <2>3 DEF OthersPush, RepoOK, local, stage
  <1>12. RepoOK'
    BY <1>3, <1>4, <1>5, <1>6, <1>7, <1>8, <1>9, <1>10, <1>11 DEF Others
  <1>13. QED
    BY <1>1, <1>12, MoveType, TypeParts

(* TypeOK holds in every state: the prover's version of the runs' check,   *)
(* for any branches, files, URLs and bounds.                               *)
THEOREM TypeCorrect == Spec => []TypeOK
  <1>1. Init => TypeOK
    <2> SUFFICES ASSUME Init PROVE TypeOK
      OBVIOUS
    <2> DEFINE t == [f \in File |-> IF f \in First THEN 1 ELSE 0]
    <2>1. t \in Tree
      BY BoundAssumption DEF Tree
    <2>2. <<>> \in History /\ <<[tree |-> t, by |-> "user"]>> \in History
      BY <2>1 DEF History, Commit
    <2>3. log \in [Branch -> History] /\ index \in Tree
      BY <2>1, <2>2 DEF Init
    <2>4. refs \in [Url -> [Branch -> History]]
      BY <2>2, <2>3 DEF Init
    <2>5. RepoOK
      BY <2>2, <2>3, <2>4 DEF Init, RepoOK
    <2>6. OpOK /\ ControlOK
      BY <2>2, NoOpType DEF Init, OpOK, ControlOK
    <2>7. CountOK
      BY BoundAssumption DEF Init, CountOK
    <2>8. QED
      BY <2>5, <2>6, <2>7, TypeParts
  <1>2. TypeOK /\ [Next]_vars => TypeOK'
    <2> SUFFICES ASSUME TypeOK, [Next]_vars PROVE TypeOK'
      OBVIOUS
    <2>1. CASE Agent
      BY <2>1, ToolsType, ControlType, PerformType DEF Agent, Control
    <2>2. CASE UNCHANGED vars
      BY <2>2 DEF vars, repo, local, stage, remote, agent, TypeOK
    <2>3. QED
      BY <2>1, <2>2, OthersType DEF Next
  <1>3. QED
    BY <1>1, <1>2, PTL DEF Spec

-----------------------------------------------------------------------------
(* What a step of the agent does to the commits.                           *)
NoLoss ==
    /\ \A b \in Branch : IsPrefix(log[b], log'[b])
    /\ \A u \in Url, b \in Branch : IsPrefix(refs[u][b], refs'[u][b])
    /\ IsPrefix(Tip, Tip')

LEMMA SameRepoNoLoss ==
    ASSUME RepoOK, UNCHANGED <<log, head, loose, refs>>
    PROVE  NoLoss
  <1>1. \A b \in Branch : IsPrefix(log[b], log'[b])
    BY PrefixRefl DEF RepoOK, History
  <1>2. \A u \in Url, b \in Branch : IsPrefix(refs[u][b], refs'[u][b])
    BY PrefixRefl DEF RepoOK, History
  <1>3. IsPrefix(Tip, Tip')
    <2>1. Tip' = Tip
      BY DEF Tip
    <2>2. QED
      BY <2>1, TipType, PrefixRefl DEF History
  <1>4. QED
    BY <1>1, <1>2, <1>3 DEF NoLoss

LEMMA PerformNoLoss ==
    ASSUME TypeOK, Perform
    PROVE  NoLoss
  <1>1. RepoOK /\ Tip \in History
    BY TypeParts, TipType
  <1>2. CASE AddFiles
    BY <1>1, <1>2, SameRepoNoLoss DEF AddFiles, remote
  <1>3. CASE MakeBranch
    <2>1. UNCHANGED <<head, loose, refs>>
      BY <1>3 DEF MakeBranch, remote
    <2>2. \A b \in Branch : IsPrefix(log[b], log'[b])
      <3> SUFFICES ASSUME NEW b \in Branch PROVE IsPrefix(log[b], log'[b])
        OBVIOUS
      <3>1. CASE b = op.branch
        <4>1. log[b] = <<>> /\ log'[b] = Tip
          BY <1>1, <1>3, <3>1 DEF MakeBranch, RepoOK
        <4>2. IsPrefix(<<>>, Tip)
          BY <1>1 DEF IsPrefix, History
        <4>3. QED
          BY <4>1, <4>2
      <3>2. CASE b # op.branch
        <4>1. log'[b] = log[b] /\ log[b] \in Seq(Commit)
          BY <1>1, <1>3, <3>2 DEF MakeBranch, RepoOK, History
        <4>2. QED
          BY <4>1, PrefixRefl
      <3>3. QED
        BY <3>1, <3>2
    <2>3. \A u \in Url, b \in Branch : IsPrefix(refs[u][b], refs'[u][b])
      BY <1>1, <2>1, PrefixRefl DEF RepoOK, History
    <2>4. Tip' = Tip
      <3>1. CASE head = Detached
        BY <2>1, <3>1 DEF Tip
      <3>2. CASE head # Detached
        <4>1. head # op.branch
          BY <1>3, <3>2 DEF MakeBranch, Tip
        <4>2. log'[head] = log[head]
          BY <1>1, <1>3, <3>2, <4>1 DEF MakeBranch, RepoOK
        <4>3. QED
          BY <2>1, <3>2, <4>2 DEF Tip
      <3>3. QED
        BY <3>1, <3>2
    <2>5. QED
      BY <1>1, <2>2, <2>3, <2>4, PrefixRefl DEF NoLoss, History
  <1>4. CASE MakeCommit
    <2> DEFINE c == [tree |-> index, by |-> "agent"]
    <2>1. Grow("agent") /\ refs' = refs
      BY <1>4 DEF MakeCommit, remote
    <2>2. Tip' = Append(Tip, c) /\ c \in Commit
      BY <1>1, <2>1, GrowType DEF RepoOK, Commit
    <2>3. \A b \in Branch : log'[b] = log[b] \/ (log[b] = Tip /\ log'[b] = Append(Tip, c))
      <3>1. CASE head = Detached
        BY <2>1, <3>1 DEF Grow
      <3>2. CASE head # Detached
        BY <1>1, <2>1, <3>2 DEF Grow, Tip, RepoOK
      <3>3. QED
        BY <3>1, <3>2
    <2>4. IsPrefix(Tip, Append(Tip, c))
      BY <1>1, <2>2, PrefixAppend DEF History
    <2>5. \A b \in Branch : IsPrefix(log[b], log[b])
      BY <1>1, PrefixRefl DEF RepoOK, History
    <2>6. \A u \in Url, b \in Branch : IsPrefix(refs[u][b], refs'[u][b])
      BY <1>1, <2>1, PrefixRefl DEF RepoOK, History
    <2>7. \A b \in Branch : IsPrefix(log[b], log'[b])
      BY <2>3, <2>4, <2>5
    <2>8. QED
      BY <2>2, <2>4, <2>6, <2>7 DEF NoLoss
  <1>5. CASE Push
    <2>1. UNCHANGED <<log, head, loose>>
      BY <1>5 DEF Push, local
    <2>2. ASSUME NEW u \in Url, NEW b \in Branch
          PROVE  IsPrefix(refs[u][b], refs'[u][b])
      <3>1. CASE u = url /\ b = op.branch
        <4>1. refs'[u][b] = log[b]
          BY <1>1, <1>5, <3>1 DEF Push, RepoOK
        <4>2. QED
          BY <1>5, <3>1, <4>1 DEF Push
      <3>2. CASE ~(u = url /\ b = op.branch)
        <4>1. refs'[u][b] = refs[u][b]
          BY <1>1, <1>5, <3>2 DEF Push, RepoOK
        <4>2. QED
          BY <1>1, <4>1, PrefixRefl DEF RepoOK, History
      <3>3. QED
        BY <3>1, <3>2
    <2>3. Tip' = Tip
      BY <2>1 DEF Tip
    <2>4. QED
      BY <1>1, <2>1, <2>2, <2>3, PrefixRefl DEF NoLoss, RepoOK, History
  <1>6. QED
    BY <1>2, <1>3, <1>4, <1>5 DEF Perform

LEMMA AgentParts == Agent <=> Tools \/ Control \/ Perform
  BY DEF Agent, Control

LEMMA ToolsSameRepo == Tools => UNCHANGED repo
  BY DEF Tools, ProposeBranch, ProposeStage, ProposeCommit, ProposePush, Propose

(* No step of the agent takes a commit from a branch, here or at a remote, *)
(* or from a detached HEAD, whatever is proposed and approved.             *)
THEOREM CommitsAreKept == Spec => LosesNoCommit
  <1>1. TypeOK /\ [Next]_vars => [Agent => NoLoss]_vars
    <2> SUFFICES ASSUME TypeOK, Agent PROVE NoLoss
      OBVIOUS
    <2>1. CASE Tools \/ Control
      <3>1. UNCHANGED <<log, head, loose, refs>>
        BY <2>1, ToolsSameRepo, ControlType DEF repo, local, remote
      <3>2. QED
        BY <3>1, SameRepoNoLoss, TypeParts
    <2>2. QED
      BY <2>1, AgentParts, PerformNoLoss
  <1>2. QED
    BY <1>1, TypeCorrect, PTL DEF Spec, LosesNoCommit, NoLoss

(* The agent touches no file, and stages only what the paths it showed     *)
(* cover.                                                                  *)
THEOREM StagedArePaths == Spec => StagesOnlyPaths
  <1> DEFINE P == /\ work' = work
                  /\ index' = index \/ Diff(index, index') \subseteq Covered(op.paths)
  <1>1. TypeOK /\ [Next]_vars => [Agent => P]_vars
    <2> SUFFICES ASSUME TypeOK, Agent PROVE P
      OBVIOUS
    <2>1. CASE Tools \/ Control
      BY <2>1, ToolsSameRepo, ControlType DEF repo, local, stage
    <2>2. CASE MakeBranch \/ MakeCommit \/ Push
      BY <2>2 DEF MakeBranch, MakeCommit, Grow, Push, local, stage
    <2>3. CASE AddFiles
      BY <2>3 DEF AddFiles, Diff
    <2>4. QED
      BY <2>1, <2>2, <2>3, AgentParts DEF Perform
  <1>2. QED
    BY <1>1, TypeCorrect, PTL DEF Spec, StagesOnlyPaths

-----------------------------------------------------------------------------
(* Why a commit nobody interferes with is the one that was shown: what the *)
(* check compared is still staged when git commit runs, and the commit it  *)
(* makes is HEAD until rev-parse has named it.                             *)
AsShown(h) ==
    /\ h # <<>> /\ h[Len(h)].by = "agent"
    /\ Names(TreeOf(Front(h)), TreeOf(h)) = op.files

Checked  == pc = "run" /\ op.kind = "commit" /\ ~raced /\ ~done => Staged = op.files
Made     == pc \in {"run", "sha"} /\ op.kind = "commit" /\ ~raced /\ done => AsShown(Tip)
Named    == report = "ok" /\ op.kind = "commit" /\ ~raced => AsShown(named)
AtSha    == pc = "sha" => op.kind = "commit" /\ done
AtPush   == pc \in {"push", "remote"} => op.kind = "push"
NoReport == pc # "idle" => report # "ok"

CommitInv == Checked /\ Made /\ Named /\ AtSha /\ AtPush /\ NoReport

LEMMA ToolsCommitInv ==
    ASSUME TypeOK, CommitInv, Tools
    PROVE  CommitInv'
  <1>1. pc' = "asked" /\ report' = "none"
    BY DEF Tools, ProposeBranch, ProposeStage, ProposeCommit, ProposePush, Propose
  <1>2. QED
    BY <1>1 DEF CommitInv, Checked, Made, Named, AtSha, AtPush, NoReport

LEMMA ControlCommitInv ==
    ASSUME TypeOK, CommitInv, Control
    PROVE  CommitInv'
  <1>1. UNCHANGED repo /\ Tip' = Tip /\ Staged' = Staged
    BY ControlType DEF repo, local, stage, Tip, Staged
  <1>2. ASSUME End("none") \/ End("stale") \/ End("failed") \/ (End("ok") /\ op.kind # "commit")
        PROVE  CommitInv'
    <2>1. pc' = "idle" /\ (report' # "ok" \/ op'.kind # "commit")
      BY <1>2 DEF End
    <2>2. QED
      BY <2>1 DEF CommitInv, Checked, Made, Named, AtSha, AtPush, NoReport
  <1>3. ASSUME pc # "idle", Goto("repository") \/ Goto("commit")
        PROVE  CommitInv'
    BY <1>3 DEF Goto, CommitInv, Checked, Made, Named, AtSha, AtPush, NoReport
  <1>4. ASSUME pc # "idle", op.kind = "push", Goto("push") \/ Goto("remote") \/ Goto("run")
        PROVE  CommitInv'
    BY <1>4 DEF Goto, CommitInv, Checked, Made, Named, AtSha, AtPush, NoReport
  <1>5. CASE Approve
    BY <1>3, <1>5 DEF Approve
  <1>6. CASE CheckRepository
    <2>1. CASE op.kind = "commit"
      BY <1>3, <1>6, <2>1 DEF CheckRepository
    <2>2. CASE op.kind = "push"
      BY <1>4, <1>6, <2>2 DEF CheckRepository
    <2>3. CASE op.kind \notin {"commit", "push"}
      BY <1>6, <2>3 DEF CheckRepository, Goto, CommitInv, Checked, Made, Named, AtSha,
         AtPush, NoReport
    <2>4. QED
      BY <2>1, <2>2, <2>3
  <1>7. CASE RecheckCommit
    <2>1. CASE Staged = op.files
      <3>1. Goto("run") /\ pc = "commit"
        BY <1>7, <2>1 DEF RecheckCommit
      <3>2. ~done
        BY <3>1, TypeParts DEF ControlOK
      <3>3. QED
        BY <1>1, <2>1, <3>1, <3>2 DEF Goto, CommitInv, Checked, Made, Named, AtSha, AtPush,
           NoReport
    <2>2. CASE Staged # op.files
      BY <1>2, <1>7, <2>2 DEF RecheckCommit
    <2>3. QED
      BY <2>1, <2>2
  <1>8. CASE RecheckBranch
    BY <1>2, <1>4, <1>8 DEF RecheckBranch, CommitInv, AtPush
  <1>9. CASE RecheckRemote
    BY <1>2, <1>4, <1>9 DEF RecheckRemote, CommitInv, AtPush
  <1>10. CASE Exit
    <2>1. CASE op.kind = "commit"
      <3>1. pc' = "sha" /\ done' /\ done /\ UNCHANGED <<op, report, named, raced>> /\ pc = "run"
        BY <1>10, <2>1 DEF Exit, Goto
      <3>2. AsShown(Tip)' <=> AsShown(Tip)
        BY <1>1, <3>1 DEF AsShown
      <3>3. QED
        BY <2>1, <3>1, <3>2 DEF CommitInv, Checked, Made, Named, AtSha, AtPush, NoReport
    <2>2. CASE op.kind # "commit"
      BY <1>2, <1>10, <2>2 DEF Exit
    <2>3. QED
      BY <2>1, <2>2
  <1>11. CASE ReadSha
    <2>1. pc' = "idle" /\ UNCHANGED <<op, raced>> /\ named' = Tip /\ pc = "sha"
      BY <1>11 DEF ReadSha
    <2>2. AsShown(named)' <=> AsShown(Tip)
      BY <2>1 DEF AsShown
    <2>3. Named'
      BY <2>1, <2>2 DEF CommitInv, Made, Named, AtSha
    <2>4. QED
      BY <2>1, <2>3 DEF CommitInv, Checked, Made, AtSha, AtPush, NoReport
  <1>12. CASE Reject \/ Interrupt \/ ToolFails \/ GitRefuses \/ Timeout
    BY <1>2, <1>12 DEF Reject, Interrupt, ToolFails, GitRefuses, Timeout
  <1>13. QED
    BY <1>5, <1>6, <1>7, <1>8, <1>9, <1>10, <1>11, <1>12 DEF Control, Checks

LEMMA PerformCommitInv ==
    ASSUME TypeOK, CommitInv, Perform
    PROVE  CommitInv'
  <1>1. pc = "run" /\ ~done /\ done' /\ UNCHANGED <<pc, op, report, named, raced>>
    BY DEF Perform, MakeBranch, AddFiles, MakeCommit, Push, Effect
  <1>2. Checked' /\ Named' /\ AtSha' /\ AtPush' /\ NoReport'
    BY <1>1 DEF CommitInv, Checked, Named, AtSha, AtPush, NoReport
  <1>3. Made'
    <2> SUFFICES ASSUME op.kind = "commit", ~raced PROVE AsShown(Tip)'
      BY <1>1 DEF Made
    <2> DEFINE c == [tree |-> index, by |-> "agent"]
               h == Append(Tip, c)
    <2>1. MakeCommit /\ Staged = op.files
      BY <1>1 DEF Perform, MakeBranch, AddFiles, Push, CommitInv, Checked
    <2>2. RepoOK /\ Tip \in Seq(Commit)
      BY TypeParts, TipType DEF History
    <2>3. Tip' = h /\ c \in Commit
      BY <2>1, <2>2, GrowType DEF MakeCommit, RepoOK, Commit
    <2>4. h # <<>> /\ Front(h) = Tip /\ h[Len(h)] = c
      BY <2>2, <2>3, FrontAppend
    <2>5. TreeOf(h) = index
      BY <2>4 DEF TreeOf
    <2>6. Names(TreeOf(Front(h)), TreeOf(h)) = op.files
      BY <2>1, <2>4, <2>5 DEF Staged
    <2>7. QED
      BY <1>1, <2>3, <2>4, <2>6 DEF AsShown
  <1>4. QED
    BY <1>2, <1>3 DEF CommitInv

LEMMA OthersCommitInv ==
    ASSUME TypeOK, CommitInv, Others
    PROVE  CommitInv'
  <1>1. UNCHANGED agent /\ raced' = (raced \/ pc \in Applying)
    BY DEF Others, Move, Edit, UserAdd, UserCommit, Rewind, Switch, NewBranch, Detach,
       SetUrl, OthersPush, Fetch, UserIntend
  <1>2. QED
    BY <1>1 DEF agent, Applying, CommitInv, Checked, Made, Named, AtSha, AtPush, NoReport,
       AsShown

(* If nobody acts after the check in front of a commit, the commit that is *)
(* reported is the agent's, and changes the files the human was shown.     *)
THEOREM CommitsAreAsShown == Spec => []CalmCommitIsAsShown
  <1>1. Init => CommitInv
    BY DEF Init, CommitInv, Checked, Made, Named, AtSha, AtPush, NoReport
  <1>2. TypeOK /\ CommitInv /\ [Next]_vars => CommitInv'
    <2> SUFFICES ASSUME TypeOK, CommitInv, [Next]_vars PROVE CommitInv'
      OBVIOUS
    <2>1. CASE UNCHANGED vars
      BY <2>1 DEF vars, repo, local, stage, agent, CommitInv, Checked, Made, Named, AtSha, AtPush,
         NoReport, AsShown, Staged, Tip
    <2>2. QED
      BY <2>1, AgentParts, ToolsCommitInv, ControlCommitInv, PerformCommitInv,
         OthersCommitInv DEF Next
  <1>3. CommitInv => CalmCommitIsAsShown
    BY DEF CommitInv, Named, AsShown, CalmCommitIsAsShown
  <1>4. QED
    BY <1>1, <1>2, <1>3, TypeCorrect, PTL DEF Spec

-----------------------------------------------------------------------------
(* git_status.  Renamings is one of the matchings, which takes that there  *)
(* is a largest one; what the lists say follows from that alone.           *)

LEMMA Least ==
    ASSUME NEW S \in SUBSET Nat, S # {}
    PROVE  \E i \in S : \A j \in S : i <= j
<1>1. \E i \in S : \A j \in S : ~ (<<j, i>> \in OpToRel(<, Nat))
  BY NatLessThanWellFounded, WFMin
<1>2. ASSUME NEW i \in Nat, NEW j \in Nat, j < i
      PROVE  <<j, i>> \in OpToRel(<, Nat)
  BY <1>2 DEF OpToRel
<1>3. PICK i \in S : \A j \in S : ~ (<<j, i>> \in OpToRel(<, Nat))
  BY <1>1
<1>4. \A j \in S : ~ (j < i)
  BY <1>2, <1>3
<1>. QED
  BY <1>4

(* A finite set has a largest one among any of its subsets.                *)
LEMMA Largest ==
    ASSUME NEW S, IsFiniteSet(S), NEW F \in SUBSET (SUBSET S), F # {}
    PROVE  \E m \in F : \A n \in F : Cardinality(n) <= Cardinality(m)
<1> DEFINE size(n) == Cardinality(n)
           rest(n) == size(S) - size(n)
           R == {rest(n) : n \in F}
<1>1. size(S) \in Nat
  BY FS_CardinalityType
<1>2. \A n \in F : size(n) \in Nat /\ size(n) <= size(S)
  BY FS_Subset, FS_CardinalityType
<1> HIDE DEF size
<1>3. R \in SUBSET Nat /\ R # {}
  BY <1>1, <1>2
<1>4. PICK r \in R : \A q \in R : r <= q
  BY <1>3, Least
<1>5. PICK m \in F : r = rest(m)
  BY <1>4
<1>6. \A n \in F : size(n) <= size(m)
  BY <1>1, <1>2, <1>4, <1>5
<1>. QED
  BY <1>6 DEF size

(* Each file is gone or new, and in one renaming at most.                  *)
LEMMA RenamingsMatch ==
    ASSUME NEW s \in Tree, NEW t \in Tree
    PROVE  /\ Renamings(s, t) \subseteq Moved(s, t)
           /\ \A p, q \in Renamings(s, t) : p[1] = q[1] <=> p[2] = q[2]
<1> DEFINE Matching == {m \in SUBSET Moved(s, t) :
                          \A p, q \in m : p[1] = q[1] <=> p[2] = q[2]}
<1>1. IsFiniteSet(Moved(s, t))
  <2>1. IsFiniteSet(File \X File)
    BY FileAssumption, FS_Product
  <2>2. Moved(s, t) \subseteq File \X File
    BY DEF Moved
  <2>. QED
    BY <2>1, <2>2, FS_Subset
<1>2. {} \in Matching
  OBVIOUS
<1>3. Matching \in SUBSET (SUBSET Moved(s, t))
  OBVIOUS
<1>4. Renamings(s, t) = CHOOSE m \in Matching :
                          \A n \in Matching : Cardinality(n) <= Cardinality(m)
  BY DEF Renamings
<1> HIDE DEF Matching
<1>5. \E m \in Matching : \A n \in Matching : Cardinality(n) <= Cardinality(m)
  BY <1>1, <1>2, <1>3, Largest
<1>6. Renamings(s, t) \in Matching
  BY <1>4, <1>5
<1>. QED
  BY <1>6 DEF Matching

(* What a change says of a file.                                           *)
LEMMA ChangeSays ==
    ASSUME NEW s \in Tree, NEW t \in Tree, NEW f \in File
    PROVE  LET c == Change(s, t)[f]
           IN  /\ c \in {" ", "R", "A", "D", "T", "M"}
               /\ (c # " ") => s[f] # t[f]
               /\ (s[f] # t[f] /\ c = " ") => \E r \in Renamings(s, t) : r[1] = f
               /\ (c = "R") => \E r \in Renamings(s, t) : r[2] = f
               /\ (c = "A") => s[f] = 0
               /\ (c = "T") => t[f] # 0 /\ (s[f] \in Links <=> t[f] \notin Links)
<1> DEFINE m    == Renamings(s, t)
           Gone == \E r \in m : r[1] = f
           Came == \E r \in m : r[2] = f
           Type == s[f] \in Links <=> t[f] \notin Links
           c    == Change(s, t)[f]
<1>1. c = IF s[f] = t[f] \/ Gone THEN " " ELSE IF Came THEN "R"
          ELSE IF s[f] = 0 THEN "A" ELSE IF t[f] = 0 THEN "D"
          ELSE IF Type THEN "T" ELSE "M"
  BY DEF Change
<1>2. c \in {" ", "R", "A", "D", "T", "M"}
  <2> HIDE DEF c, Gone, Came, Type
  <2>. QED
    BY <1>1
<1>3. /\ (c # " ") => s[f] # t[f]
      /\ (s[f] # t[f] /\ c = " ") => Gone
      /\ (c = "R") => Came
      /\ (c = "A") => s[f] = 0
      /\ (c = "T") => t[f] # 0 /\ Type
  <2> HIDE DEF c, Gone, Came, Type
  <2>. QED
    BY <1>1
<1>. QED
  BY <1>2, <1>3

(* The new name of a renaming has a line that says so.                     *)
LEMMA Renames ==
    ASSUME NEW s \in Tree, NEW t \in Tree, NEW r \in Renamings(s, t)
    PROVE  /\ r[1] \in File /\ r[2] \in File /\ r[1] # r[2]
           /\ s[r[1]] # 0 /\ t[r[1]] = 0 /\ s[r[2]] = 0 /\ t[r[2]] # 0
           /\ Change(s, t)[r[2]] = "R"
<1>1. /\ r[1] \in File /\ r[2] \in File /\ s[r[1]] # 0 /\ t[r[1]] = 0
      /\ s[r[2]] = 0 /\ t[r[2]] = s[r[1]]
  BY RenamingsMatch DEF Moved
<1>2. \A q \in Renamings(s, t) : s[q[1]] # 0
  BY RenamingsMatch DEF Moved
<1>3. ~ (s[r[2]] = t[r[2]] \/ \E q \in Renamings(s, t) : q[1] = r[2])
  BY <1>1, <1>2
<1>4. \E q \in Renamings(s, t) : q[2] = r[2]
  OBVIOUS
<1>5. Change(s, t)[r[2]] = "R"
  BY <1>1, <1>3, <1>4 DEF Change
<1>. QED
  BY <1>1, <1>5

(* The columns of a file's line, and the files that have one.              *)
X == Change(TreeOf(Tip), index)
C == Change(index, Held)
Y == [f \in File |-> IF f \in intent /\ work[f] = 0 THEN "D" ELSE C[f]]

Renamed == Renamings(TreeOf(Tip), index) \cup Renamings(index, Held)
Altered == {f \in File : X[f] # " " \/ Y[f] # " "}
New     == {f \in File : index[f] = 0 /\ f \notin intent /\ work[f] # 0}
LineNew(f) == [x |-> "?", y |-> "?", names |-> {f}]
LineOf(f)  == [x |-> X[f], y |-> Y[f],
               names |-> {f} \cup {r[1] : r \in {r \in Renamed : r[2] = f}}]

LEMMA LinesAre == Lines = {LineNew(f) : f \in New} \cup {LineOf(f) : f \in Altered}
  BY DEF Lines, LineNew, LineOf, New, Altered, Renamed, X, Y, C

LEMMA CategoryIs ==
    ASSUME NEW list \in Listing
    PROVE  Category[list] = {l \in Lines : list \in Lists(l)}
  BY DEF Category

LEMMA Trees ==
    ASSUME RepoOK
    PROVE  /\ TreeOf(Tip) \in Tree /\ index \in Tree /\ Held \in Tree
           /\ \A f \in File : Held[f] = IF index[f] = 0 /\ f \notin intent THEN 0 ELSE work[f]
           /\ intent \subseteq File /\ \A f \in intent : index[f] = 0
  BY TipType, BoundAssumption DEF RepoOK, Held, Tree

LEMMA Columns ==
    ASSUME RepoOK, NEW f \in File
    PROVE  /\ X[f] \in {" ", "R", "A", "D", "T", "M"}
           /\ Y[f] \in {" ", "R", "A", "D", "T", "M"}
<1>1. X[f] \in {" ", "R", "A", "D", "T", "M"} /\ C[f] \in {" ", "R", "A", "D", "T", "M"}
  BY Trees, ChangeSays DEF X, C
<1>. QED
  BY <1>1 DEF Y

Shown(f) == \E list \in Listing : f \in NamesIn(Category[list])

(* A file whose line is in a list is shown.                                *)
LEMMA Listed ==
    ASSUME NEW l \in Lines, NEW f \in l.names, NEW list \in Listing, list \in Lists(l)
    PROVE  f \in NamesIn(Category[list])
<1>1. l \in Category[list]
  BY CategoryIs
<1>. QED
  BY <1>1 DEF NamesIn

(* A line that is staged goes to the staged or to the renamed files, one   *)
(* that is modified or deleted to these, and one with two names to the     *)
(* renamed ones.                                                           *)
LEMMA StagedLine ==
    ASSUME RepoOK, NEW f \in File, X[f] # " ", NEW g \in LineOf(f).names
    PROVE  g \in NamesIn(Category["staged"]) \cup NamesIn(Category["renamed"])
<1>1. LineOf(f) \in Lines
  BY LinesAre DEF Altered
<1>2. LineOf(f).x = X[f] /\ X[f] # "?"
  BY Columns DEF LineOf
<1>3. "staged" \in Lists(LineOf(f)) \/ "renamed" \in Lists(LineOf(f))
  BY <1>2 DEF Lists
<1>4. "staged" \in Listing /\ "renamed" \in Listing
  BY DEF Listing
<1>. QED
  BY <1>1, <1>3, <1>4, Listed

LEMMA WorkLine ==
    ASSUME RepoOK, NEW f \in File, Y[f] \in {"M", "D"}
    PROVE  Shown(f)
<1>1. LineOf(f) \in Lines /\ f \in LineOf(f).names
  BY LinesAre DEF LineOf, Altered
<1>2. LineOf(f).x # "?" /\ LineOf(f).y = Y[f]
  BY Columns DEF LineOf
<1>3. "modified" \in Lists(LineOf(f)) \/ "deleted" \in Lists(LineOf(f))
  BY <1>2 DEF Lists
<1>4. "modified" \in Listing /\ "deleted" \in Listing
  BY DEF Listing
<1>. QED
  BY <1>1, <1>3, <1>4, Listed DEF Shown

LEMMA NamesFinite ==
    ASSUME RepoOK, NEW f \in File
    PROVE  IsFiniteSet(LineOf(f).names)
<1>1. \A r \in Renamed : r[1] \in File
  BY Trees, Renames DEF Renamed
<1>2. LineOf(f).names \subseteq File
  BY <1>1 DEF LineOf
<1>. QED
  BY <1>2, FileAssumption, FS_Subset

LEMMA RenamedLine ==
    ASSUME RepoOK, NEW r \in Renamings(index, Held)
    PROVE  Shown(r[1])
<1> DEFINE f == r[2]
           N == LineOf(f).names
<1>1. f \in File /\ r[1] # f /\ index[f] = 0 /\ Held[f] # 0 /\ C[f] = "R"
  BY Trees, Renames DEF C
<1>2. work[f] # 0
  BY <1>1, Trees
<1>3. LineOf(f) \in Lines
  <2>1. Y[f] = "R"
    BY <1>1, <1>2 DEF Y
  <2>. QED
    BY <1>1, <2>1, LinesAre DEF Altered
<1>4. f \in N /\ r[1] \in N
  BY DEF LineOf, Renamed
<1>5. Cardinality(N) > 1
  <2> HIDE DEF f, N
  <2>1. IsFiniteSet(N)
    BY <1>1, NamesFinite DEF N
  <2>2. Cardinality(N) \in Nat
    BY <2>1, FS_CardinalityType
  <2>3. Cardinality(N) # 0
    BY <2>1, <1>4, FS_EmptySet
  <2>4. Cardinality(N) # 1
    BY <2>1, <1>1, <1>4, FS_Singleton
  <2>. QED
    BY <2>2, <2>3, <2>4
<1>6. LineOf(f).x # "?"
  BY <1>1, Columns DEF LineOf
<1>7. "renamed" \in Lists(LineOf(f)) /\ "renamed" \in Listing
  BY <1>5, <1>6 DEF Lists, Listing
<1>. QED
  BY <1>3, <1>4, <1>7, Listed DEF Shown

LEMMA NewLine ==
    ASSUME NEW f \in New
    PROVE  Shown(f)
<1>1. LineNew(f) \in Lines /\ f \in LineNew(f).names
  BY LinesAre DEF LineNew
<1>2. "untracked" \in Lists(LineNew(f)) /\ "untracked" \in Listing
  BY DEF Lists, LineNew, Listing
<1>. QED
  BY <1>1, <1>2, Listed DEF Shown

LEMMA StatusMissesNone ==
    ASSUME RepoOK, NEW f \in Differing, f \notin Overlooked
    PROVE  Shown(f)
<1> DEFINE s == TreeOf(Tip)
<1>1. f \in File /\ (s[f] # index[f] \/ index[f] # work[f] \/ f \in intent)
  BY Trees DEF Differing, Diff
<1>2. CASE s[f] # index[f] /\ X[f] # " "
  <2>1. f \in LineOf(f).names /\ "staged" \in Listing /\ "renamed" \in Listing
    BY DEF LineOf, Listing
  <2>. QED
    BY <1>1, <1>2, <2>1, StagedLine DEF Shown
<1>3. CASE s[f] # index[f] /\ X[f] = " "
  <2>1. PICK r \in Renamings(s, index) : r[1] = f
    BY <1>1, <1>3, Trees, ChangeSays DEF X
  <2>2. r[2] \in File /\ X[r[2]] = "R"
    BY <2>1, Trees, Renames DEF X
  <2>3. f \in LineOf(r[2]).names /\ "staged" \in Listing /\ "renamed" \in Listing
    BY <2>1 DEF LineOf, Renamed, Listing
  <2>. QED
    BY <2>2, <2>3, StagedLine DEF Shown
<1>4. CASE s[f] = index[f] /\ f \in intent
  <2>1. work[f] = 0
    BY <1>1, <1>4 DEF Overlooked
  <2>2. Y[f] = "D"
    BY <1>1, <1>4, <2>1 DEF Y
  <2>. QED
    BY <1>1, <2>2, WorkLine
<1>5. CASE s[f] = index[f] /\ f \notin intent /\ index[f] = 0
  BY <1>1, <1>5, NewLine DEF New
<1>6. CASE s[f] = index[f] /\ f \notin intent /\ index[f] # 0
  <2>1. Held[f] = work[f] /\ index[f] # work[f]
    BY <1>1, <1>6, Trees
  <2>2. CASE C[f] = " "
    <3>1. PICK r \in Renamings(index, Held) : r[1] = f
      BY <1>1, <2>1, <2>2, Trees, ChangeSays DEF C
    <3>. QED
      BY <3>1, RenamedLine
  <2>3. C[f] # "R"
    <3>1. C[f] = "R" => \E r \in Renamings(index, Held) : r[2] = f
      BY <1>1, Trees, ChangeSays DEF C
    <3>2. \A r \in Renamings(index, Held) : index[r[2]] = 0
      BY Trees, Renames
    <3>. QED
      BY <1>6, <3>1, <3>2
  <2>4. C[f] # "A"
    BY <1>1, <1>6, Trees, ChangeSays DEF C
  <2>5. C[f] # "T"
    <3>1. C[f] = "T" => Held[f] # 0 /\ (index[f] \in Links <=> Held[f] \notin Links)
      BY <1>1, Trees, ChangeSays DEF C
    <3>. QED
      BY <1>1, <1>6, <2>1, <3>1 DEF Overlooked
  <2>6. CASE C[f] # " "
    <3>1. C[f] \in {" ", "R", "A", "D", "T", "M"}
      BY <1>1, Trees, ChangeSays DEF C
    <3>2. C[f] \in {"D", "M"}
      BY <2>3, <2>4, <2>5, <2>6, <3>1
    <3>3. Y[f] = C[f]
      BY <1>1, <1>6 DEF Y
    <3>. QED
      BY <1>1, <3>2, <3>3, WorkLine
  <2>. QED
    BY <2>2, <2>6
<1>. QED
  BY <1>1, <1>2, <1>3, <1>4, <1>5, <1>6

LEMMA StatusOnlyChanged ==
    ASSUME RepoOK, NEW list \in Listing, NEW f \in NamesIn(Category[list])
    PROVE  f \in Differing
<1>1. PICK l \in Lines : f \in l.names
  BY CategoryIs DEF NamesIn
<1>2. CASE \E g \in New : l = LineNew(g)
  BY <1>1, <1>2 DEF LineNew, New, Differing, Diff
<1>3. ASSUME NEW g \in Altered, l = LineOf(g)
      PROVE  f \in Differing
  <2>1. g \in File /\ (f = g \/ \E r \in Renamed : f = r[1])
    BY <1>1, <1>3 DEF LineOf, Altered
  <2>2. CASE f = g /\ X[g] # " "
    <3>1. TreeOf(Tip)[g] # index[g]
      BY <2>1, <2>2, Trees, ChangeSays DEF X
    <3>. QED
      BY <2>1, <2>2, <3>1 DEF Differing, Diff
  <2>3. CASE f = g /\ Y[g] # " " /\ g \notin intent
    <3>1. C[g] # " "
      BY <2>1, <2>3 DEF Y
    <3>2. index[g] # Held[g]
      BY <2>1, <3>1, Trees, ChangeSays DEF C
    <3>3. index[g] # work[g]
      BY <2>1, <2>3, <3>2, Trees
    <3>. QED
      BY <2>1, <2>3, <3>3 DEF Differing, Diff
  <2>4. CASE f = g /\ g \in intent
    BY <2>4 DEF Differing
  <2>5. CASE \E r \in Renamings(TreeOf(Tip), index) : f = r[1]
    <3>1. f \in File /\ TreeOf(Tip)[f] # 0 /\ index[f] = 0
      BY <2>5, Trees, Renames
    <3>. QED
      BY <3>1 DEF Differing, Diff
  <2>6. CASE \E r \in Renamings(index, Held) : f = r[1]
    <3>1. f \in File /\ index[f] # 0 /\ Held[f] = 0
      BY <2>6, Trees, Renames
    <3>2. index[f] # work[f]
      BY <3>1, Trees
    <3>. QED
      BY <3>1, <3>2 DEF Differing, Diff
  <2>. QED
    BY <2>1, <2>2, <2>3, <2>4, <2>5, <2>6 DEF Altered, Renamed
<1>. QED
  BY <1>1, <1>2, <1>3, LinesAre

(* For any number of files, whatever is in HEAD, index and files: of the   *)
(* files that differ between them git_status lists all but those it        *)
(* overlooks, each unless its list says that it is cut; none that does not *)
(* differ is in it, and what a commit would take is listed as staged or    *)
(* renamed (git.py:166-232).                                              *)
THEOREM StatusComplete == Spec => []StatusIsComplete
<1>1. TypeOK => StatusIsComplete
  <2>. SUFFICES ASSUME RepoOK
                PROVE  StatusIsComplete
    BY TypeParts
  <2>1. ASSUME NEW f \in Staged
        PROVE  f \in NamesIn(Category["staged"] \cup Category["renamed"])
    <3>1. f \in File /\ TreeOf(Tip)[f] # index[f]
          /\ ~ \E r \in Renamings(TreeOf(Tip), index) : r[1] = f
      BY DEF Staged, Names, Diff
    <3>2. X[f] # " " /\ f \in LineOf(f).names
      BY <3>1, Trees, ChangeSays DEF X, LineOf
    <3>3. f \in NamesIn(Category["staged"]) \cup NamesIn(Category["renamed"])
      BY <3>1, <3>2, StagedLine
    <3>. QED
      BY <3>3 DEF NamesIn
  <2>2. ASSUME NEW f \in Differing \ Overlooked
        PROVE  \E list \in Listing :
                 /\ f \in NamesIn(Category[list])
                 /\ Cut(Category[list]) \/ \A p \in Printed(Category[list]) : f \in NamesIn(p)
    <3>1. PICK list \in Listing : f \in NamesIn(Category[list])
      BY StatusMissesNone DEF Shown
    <3>2. Cut(Category[list]) \/ Printed(Category[list]) = {Category[list]}
      BY DEF Printed
    <3>. QED
      BY <3>1, <3>2
  <2>3. \A list \in Listing : NamesIn(Category[list]) \subseteq Differing
    BY StatusOnlyChanged
  <2>. QED
    BY <2>1, <2>2, <2>3 DEF StatusIsComplete
<1>. QED
  BY <1>1, TypeCorrect, PTL
=============================================================================
