-------------------------- MODULE CliSessionProofs ---------------------------
(***************************************************************************)
(* Theorems about CliSession: an interrupted turn leaves the conversation, *)
(* the human permits every effect, the memory of a task agrees with what   *)
(* was done in it, and a plan is always accounted for.                     *)
(***************************************************************************)
EXTENDS CliSession, TLAPS, WellFoundedInduction, SequenceTheorems, FiniteSetTheorems

Places == {"prompt", "model", "asked", "approved", "event"}
Roles  == {"user", "assistant", "tool"}

-----------------------------------------------------------------------------
(* The conversation.  TurnsAreWhole is not inductive: the next turn needs  *)
(* that no message and no interrupted turn has its number yet.             *)

ConvoOK ==
    /\ pc \in Places
    /\ turn \in Nat /\ before \in Nat
    /\ aborted \subseteq 1..turn
    /\ messages \in Seq([turn : Nat, role : Roles])

Numbered ==
    /\ \A i \in 1..Len(messages) : messages[i].turn \in (1..turn) \ aborted
    /\ pc # "prompt" => turn > 0 /\ turn \notin aborted

InTurn ==
    pc # "prompt" =>
        /\ Len(messages) > before
        /\ \A i \in 1..Len(messages) : messages[i].turn = turn <=> i > before

WholeInv == ConvoOK /\ Numbered /\ InTurn

(* A step of the turn that leaves the conversation alone.                  *)
LEMMA QuietStep ==
    ASSUME WholeInv, pc # "prompt", pc' \in Places,
           UNCHANGED <<messages, turn, before, aborted>>
    PROVE  WholeInv'
  BY DEF WholeInv, ConvoOK, Numbered, InTurn

(* One that adds a message of the turn.                                    *)
LEMMA SpeakingStep ==
    ASSUME WholeInv, pc # "prompt", pc' \in Places,
           NEW r \in Roles, messages' = Append(messages, Message(r)),
           UNCHANGED <<turn, before, aborted>>
    PROVE  WholeInv'
<1>1. Message(r) \in [turn : Nat, role : Roles] /\ Message(r).turn = turn
  BY DEF WholeInv, ConvoOK, Message
<1>2. /\ messages' \in Seq([turn : Nat, role : Roles])
      /\ Len(messages') = Len(messages) + 1
      /\ \A i \in 1..Len(messages') :
            messages'[i] = IF i \in 1..Len(messages) THEN messages[i] ELSE Message(r)
  BY <1>1 DEF WholeInv, ConvoOK
<1>3. ConvoOK'
  BY <1>2 DEF WholeInv, ConvoOK
<1>4. Numbered'
  BY <1>1, <1>2 DEF WholeInv, ConvoOK, Numbered
<1>5. InTurn'
  <2>1. /\ Len(messages) \in Nat /\ before \in Nat /\ Len(messages) > before
        /\ \A i \in 1..Len(messages) : messages[i].turn = turn <=> i > before
    BY DEF WholeInv, ConvoOK, InTurn
  <2>2. ASSUME NEW i \in 1..Len(messages')
        PROVE  messages'[i].turn = turn <=> i > before
    <3>1. CASE i \in 1..Len(messages)
      <4>1. messages'[i] = messages[i]
        BY <1>2, <3>1
      <4>. QED
        BY <2>1, <3>1, <4>1
    <3>2. CASE i \notin 1..Len(messages)
      <4>1. messages'[i] = Message(r)
        BY <1>2, <3>2
      <4>2. i > before
        BY <1>2, <2>1, <3>2
      <4>. QED
        BY <1>1, <4>1, <4>2
    <3>. QED
      BY <3>1, <3>2
  <2>3. Len(messages') > before
    BY <1>2, <2>1
  <2>. QED
    BY <2>2, <2>3 DEF InTurn
<1>. QED
  BY <1>3, <1>4, <1>5 DEF WholeInv

LEMMA ReplyIsSpeaking ==
    ASSUME WholeInv, NEW c, Reply(c), pc' \in Places
    PROVE  WholeInv'
<1>1. pc # "prompt" /\ "assistant" \in Roles
  BY DEF Reply, Roles
<1>2. /\ messages' = Append(messages, Message("assistant"))
      /\ UNCHANGED <<turn, before, aborted>>
  BY DEF Reply, Turn
<1>. QED
  BY <1>1, <1>2, SpeakingStep

LEMMA WholeInitial == Init => WholeInv
<1>. SUFFICES ASSUME Init
              PROVE  WholeInv
  OBVIOUS
<1>1. messages = <<>> /\ Len(messages) = 0
  BY DEF Init
<1>. QED
  BY <1>1 DEF Init, WholeInv, ConvoOK, Numbered, InTurn, Places

LEMMA WholeInductive == WholeInv /\ [Next]_vars => WholeInv'
<1>. SUFFICES ASSUME WholeInv, [Next]_vars
              PROVE  WholeInv'
  OBVIOUS
<1>1. CASE BeginTurn
  <2>1. messages \in Seq([turn : Nat, role : Roles])
        /\ turn \in Nat /\ before' = Len(messages) /\ turn' = turn + 1
    BY <1>1 DEF WholeInv, ConvoOK, BeginTurn
  <2>2. [turn |-> turn', role |-> "user"] \in [turn : Nat, role : Roles]
    BY <2>1 DEF Roles
  <2>3. /\ messages' \in Seq([turn : Nat, role : Roles])
        /\ Len(messages') = Len(messages) + 1
        /\ \A i \in 1..Len(messages') :
              messages'[i] = IF i \in 1..Len(messages) THEN messages[i]
                             ELSE [turn |-> turn', role |-> "user"]
    BY <1>1, <2>1, <2>2 DEF BeginTurn
  <2>4. ConvoOK'
    BY <1>1, <2>1, <2>3 DEF WholeInv, ConvoOK, BeginTurn, Places
  <2>5. Numbered'
    BY <1>1, <2>1, <2>3 DEF WholeInv, ConvoOK, Numbered, BeginTurn
  <2>6. InTurn'
    BY <1>1, <2>1, <2>3 DEF WholeInv, ConvoOK, Numbered, InTurn, BeginTurn
  <2>. QED
    BY <2>4, <2>5, <2>6 DEF WholeInv
<1>2. CASE FreshSession
  <2>1. messages' = <<>> /\ Len(messages') = 0
    BY <1>2 DEF FreshSession
  <2>. QED
    BY <1>2, <2>1 DEF FreshSession, WholeInv, ConvoOK, Numbered, InTurn
<1>3. CASE \E m \in {"manual", "auto"} : SetMode(m)
  BY <1>3 DEF SetMode, convo, WholeInv, ConvoOK, Numbered, InTurn
<1>4. ASSUME NEW answered \in BOOLEAN, EndTurn(answered)
      PROVE  WholeInv'
  <2>1. pc # "prompt" /\ pc' \in Places /\ UNCHANGED <<turn, before, aborted>>
    BY <1>4 DEF EndTurn, Turn, Places
  <2>2. CASE answered
    <3>1. messages' = Append(messages, Message("assistant")) /\ "assistant" \in Roles
      BY <1>4, <2>2 DEF EndTurn, Roles
    <3>. QED
      BY <2>1, <3>1, SpeakingStep
  <2>3. CASE ~answered
    BY <1>4, <2>1, <2>3, QuietStep DEF EndTurn
  <2>. QED
    BY <2>2, <2>3
<1>5. CASE \E p \in Path : Read(p)
  BY <1>5, ReplyIsSpeaking DEF Read, Places
<1>6. CASE \E i \in 1..MaxSteps, s \in Statuses : UpdatePlan(i, s)
  BY <1>6, ReplyIsSpeaking DEF UpdatePlan, Places
<1>7. CASE OtherCall
  BY <1>7, ReplyIsSpeaking DEF OtherCall, Places
<1>8. ASSUME NEW kind, NEW arg, NEW to, Propose(kind, arg, to)
      PROVE  WholeInv'
  BY <1>8, ReplyIsSpeaking DEF Propose, Places
<1>9. CASE ProposeFile \/ ProposePlan \/ ProposeCommand \/ ProposeGit
  BY <1>8, <1>9 DEF ProposeFile, ProposePlan, ProposeCommand, ProposeGit
<1>10. ASSUME NEW word \in Words, Answer(word)
       PROVE  WholeInv'
  BY <1>10, QuietStep DEF Answer, Turn, Places
<1>11. ASSUME NEW o, NEW done, Perform(o, done)
       PROVE  WholeInv'
  BY <1>11, QuietStep DEF Perform, Turn, Places
<1>12. CASE Apply
  BY <1>11, <1>12 DEF Apply, ApplyToFiles, AdoptPlan, RunCommand, ApplyGit
<1>13. CASE Resume
  <2>1. "tool" \in Roles
    BY DEF Roles
  <2>. QED
    BY <1>13, <2>1, SpeakingStep DEF Resume, Turn, Places
<1>14. CASE Interrupt
  <2>1. /\ pc # "prompt" /\ pc' = "prompt" /\ turn' = turn
        /\ before' = before /\ aborted' = aborted \cup {turn}
        /\ messages' = SubSeq(messages, 1, before)
    BY <1>14 DEF Interrupt
  <2>2. before \in Nat /\ before < Len(messages)
        /\ messages \in Seq([turn : Nat, role : Roles])
    BY <2>1 DEF WholeInv, ConvoOK, InTurn
  <2>3. /\ messages' \in Seq([turn : Nat, role : Roles])
        /\ Len(messages') = before
        /\ \A i \in 1..Len(messages') : messages'[i] = messages[i]
    <3>1. \A i \in 1..before : messages[i] \in [turn : Nat, role : Roles]
      <4>1. \A i \in 1..before : i \in 1..Len(messages)
        BY <2>2
      <4>. QED
        BY <2>2, <4>1, ElementOfSeq
    <3>2. /\ SubSeq(messages, 1, before) \in Seq([turn : Nat, role : Roles])
          /\ Len(SubSeq(messages, 1, before)) = IF 1 <= before THEN before - 1 + 1 ELSE 0
          /\ \A i \in 1..(before - 1 + 1) :
                SubSeq(messages, 1, before)[i] = messages[1 + i - 1]
      BY <2>2, <3>1, SubSeqProperties
    <3>3. /\ Len(messages') = before
          /\ \A i \in 1..before : messages'[i] = messages[i]
      <4>1. CASE before = 0
        BY <2>1, <2>2, <3>2, <4>1
      <4>2. CASE before > 0
        <5>1. before - 1 + 1 = before /\ 1 <= before
          BY <2>2, <4>2
        <5>2. \A i \in 1..before : 1 + i - 1 = i
          BY <2>2
        <5>. QED
          BY <2>1, <2>2, <3>2, <5>1, <5>2
      <4>. QED
        BY <2>2, <4>1, <4>2
    <3>. QED
      BY <2>1, <3>2, <3>3
  <2>4. \A i \in 1..before : messages[i].turn # turn
    BY <2>1, <2>2 DEF WholeInv, InTurn
  <2>5. ConvoOK'
    BY <2>1, <2>3 DEF WholeInv, ConvoOK, Numbered, Places
  <2>6. Numbered'
    BY <2>1, <2>2, <2>3, <2>4 DEF WholeInv, Numbered
  <2>7. InTurn'
    BY <2>1 DEF InTurn
  <2>. QED
    BY <2>5, <2>6, <2>7 DEF WholeInv
<1>15. CASE UNCHANGED vars
  BY <1>15 DEF vars, convo, WholeInv, ConvoOK, Numbered, InTurn
<1>16. CASE Prompt
  BY <1>1, <1>2, <1>3, <1>16 DEF Prompt
<1>17. CASE Model
  BY <1>4, <1>5, <1>6, <1>7, <1>9, <1>17 DEF Model
<1>. QED
  BY <1>10, <1>12, <1>13, <1>14, <1>15, <1>16, <1>17 DEF Next

(* For any number of turns and calls, and Ctrl+C at any point of any of    *)
(* them: an interrupted turn leaves the conversation whole, and takes no   *)
(* message of another turn with it (cli.py:806-811).                       *)
THEOREM TurnsStayWhole == Spec => []TurnsAreWhole
<1>1. WholeInv => TurnsAreWhole
  BY DEF WholeInv, Numbered, InTurn, TurnsAreWhole
<1>. QED
  BY <1>1, WholeInitial, WholeInductive, PTL DEF Spec
-----------------------------------------------------------------------------
(* The human's consent.  What permits an operation is still in "said" when *)
(* it is performed, and so is the answer behind "approve all".             *)

ConsentInv ==
    /\ pc \in Places
    /\ pc = "asked" => call.kind \in Gated
    /\ pc # "prompt" /\ approveAll =>
         \E a \in said : a.kind \in OfFiles /\ a.word = "all"
    /\ pc = "approved" => Permitted

LEMMA ConsentInitial == Init => ConsentInv
  BY DEF Init, ConsentInv, Places

LEMMA ConsentInductive == ConsentInv /\ [Next]_vars => ConsentInv'
<1>. SUFFICES ASSUME ConsentInv, [Next]_vars
              PROVE  ConsentInv'
  OBVIOUS
<1>1. CASE Prompt
  BY <1>1 DEF Prompt, BeginTurn, FreshSession, SetMode, ConsentInv, Places
<1>2. CASE \E answered \in BOOLEAN : EndTurn(answered)
  BY <1>2 DEF EndTurn, ConsentInv, Places
<1>3. ASSUME NEW c, Reply(c), pc' = "event"
      PROVE  ConsentInv'
  BY <1>3 DEF Reply, ConsentInv, Places
<1>4. CASE (\E p \in Path : Read(p)) \/ OtherCall
           \/ \E i \in 1..MaxSteps, s \in Statuses : UpdatePlan(i, s)
  BY <1>3, <1>4 DEF Read, OtherCall, UpdatePlan
<1>5. ASSUME NEW kind \in Gated, NEW arg, NEW to, Propose(kind, arg, to)
      PROVE  ConsentInv'
  <2>1. /\ pc = "model" /\ call'.kind = kind
        /\ UNCHANGED <<mode, approveAll, said>>
        /\ pc' = IF Unasked(kind) THEN "approved" ELSE "asked"
    BY <1>5 DEF Propose, Reply, Turn, Call
  <2>2. approveAll => \E a \in said : a.kind \in OfFiles /\ a.word = "all"
    BY <2>1 DEF ConsentInv
  <2>3. Unasked(kind) => Permitted'
    BY <2>1, <2>2 DEF Unasked, Permitted
  <2>. QED
    BY <2>1, <2>2, <2>3 DEF ConsentInv, Places
<1>6. CASE ProposeFile \/ ProposePlan \/ ProposeCommand \/ ProposeGit
  <2>1. {"edit", "delete", "rename", "plan", "command", "git"} \subseteq Gated
    BY DEF Gated
  <2>. QED
    BY <1>5, <1>6, <2>1 DEF ProposeFile, ProposePlan, ProposeCommand, ProposeGit
<1>7. ASSUME NEW word \in Words, Answer(word)
      PROVE  ConsentInv'
  <2> DEFINE answer == [n |-> calls, kind |-> call.kind, word |-> word]
  <2>1. /\ pc = "asked" /\ call.kind \in Gated
        /\ said' = said \cup {answer}
        /\ UNCHANGED <<mode, call, calls>>
    BY <1>7 DEF Answer, Turn, ConsentInv
  <2>2. answer.n = calls /\ answer.kind = call.kind /\ answer.word = word
    OBVIOUS
  <2>3. Approves(call.kind, word) => Permitted'
    BY <2>1, <2>2 DEF Approves, FileWord, CommandWord, GitWord, PlanWord, Gated,
                      OfFiles, Permitted
  <2>4. pc' = IF Approves(call.kind, word) THEN "approved" ELSE "event"
    BY <1>7 DEF Answer
  <2>5. approveAll' => \E a \in said' : a.kind \in OfFiles /\ a.word = "all"
    BY <1>7, <2>1, <2>2 DEF Answer, ConsentInv
  <2>. QED
    BY <2>3, <2>4, <2>5 DEF ConsentInv, Places
<1>8. ASSUME NEW o, NEW done, Perform(o, done)
      PROVE  ConsentInv'
  BY <1>8 DEF Perform, Standing, ConsentInv, Places
<1>9. CASE Apply
  BY <1>8, <1>9 DEF Apply, ApplyToFiles, AdoptPlan, RunCommand, ApplyGit
<1>10. CASE Resume
  BY <1>10 DEF Resume, Standing, ConsentInv, Places
<1>11. CASE Interrupt
  BY <1>11 DEF Interrupt, ConsentInv, Places
<1>12. CASE UNCHANGED vars
  BY <1>12 DEF vars, convo, memory, ConsentInv, Permitted
<1>. QED
  BY <1>1, <1>2, <1>4, <1>6, <1>7, <1>9, <1>10, <1>11, <1>12 DEF Next, Model

(* For any calls and answers: nothing is changed, run or adopted in a turn *)
(* without a yes to that very question, an "all" given in the same turn to *)
(* a file's question, Auto mode, or, for a plan, anything but a no.        *)
THEOREM PermittedOnly == Spec => EffectsArePermitted
<1>1. ConsentInv /\ [Next]_vars => [Apply => Permitted]_vars
  <2>1. Apply => pc = "approved"
    BY DEF Apply, ApplyToFiles, AdoptPlan, RunCommand, ApplyGit, Perform
  <2>. QED
    BY <2>1 DEF ConsentInv
<1>. QED
  BY <1>1, ConsentInitial, ConsentInductive, PTL DEF Spec, EffectsArePermitted
-----------------------------------------------------------------------------
(* The least of a set of numbers.                                          *)
LEMMA Least ==
    ASSUME NEW S \in SUBSET Nat, S # {}
    PROVE  \E i \in S : \A j \in S : i <= j
<1>1. \E i \in S : \A j \in S : ~ (<<j, i>> \in OpToRel(<, Nat))
  BY NatLessThanWellFounded, WFMin
<1>2. ASSUME NEW i \in Nat, NEW j \in Nat, j < i
      PROVE  <<j, i>> \in OpToRel(<, Nat)
  BY <1>2 DEF OpToRel
<1>3. PICK i \in S : \A j \in S : ~ (<<j, i>> \in OpToRel(<, Nat))
  BY <1>1
<1>4. \A j \in S : ~ (j < i)
  BY <1>2, <1>3
<1>. QED
  BY <1>4

(* The lists of the memory: what the operations on them keep.              *)
Distinct(s) == \A i, j \in 1..Len(s) : s[i] = s[j] => i = j

LEMMA LastOfList ==
    ASSUME NEW S, NEW s \in Seq(S), NEW n \in Nat
    PROVE  /\ LastOf(n, s) \in Seq(S)
           /\ Len(LastOf(n, s)) = IF Len(s) > n THEN n ELSE Len(s)
           /\ \A i \in 1..Len(LastOf(n, s)) :
                LastOf(n, s)[i] = s[i + (Len(s) - Len(LastOf(n, s)))]
<1>1. Len(s) \in Nat /\ \A i \in 1..Len(s) : s[i] \in S
  BY LenProperties, ElementOfSeq
<1>2. CASE Len(s) > n
  <2>1. LastOf(n, s) = SubSeq(s, Len(s) - n + 1, Len(s))
    BY <1>2 DEF LastOf
  <2>2. /\ \A i \in (Len(s) - n + 1)..Len(s) : s[i] \in S
        /\ Len(s) - n + 1 \in Int /\ Len(s) \in Int
    BY <1>1, <1>2
  <2> DEFINE t == SubSeq(s, Len(s) - n + 1, Len(s))
  <2>3. /\ t \in Seq(S)
        /\ Len(t) = IF Len(s) - n + 1 <= Len(s) THEN Len(s) - (Len(s) - n + 1) + 1 ELSE 0
        /\ \A i \in 1..(Len(s) - (Len(s) - n + 1) + 1) : t[i] = s[(Len(s) - n + 1) + i - 1]
    BY <2>2, SubSeqProperties
  <2> HIDE DEF t
  <2>4. Len(t) = n
    BY <1>1, <1>2, <2>3
  <2>5. \A i \in 1..n : t[i] = s[i + (Len(s) - n)]
    <3>1. ASSUME NEW i \in 1..n PROVE t[i] = s[i + (Len(s) - n)]
      <4>1. i \in 1..(Len(s) - (Len(s) - n + 1) + 1)
        BY <1>1
      <4>2. (Len(s) - n + 1) + i - 1 = i + (Len(s) - n)
        BY <1>1
      <4>. QED
        BY <2>3, <4>1, <4>2
    <3>. QED
      BY <3>1
  <2>. QED
    BY <1>2, <2>1, <2>3, <2>4, <2>5 DEF t
<1>3. CASE ~(Len(s) > n)
  <2>1. LastOf(n, s) = s
    BY <1>3 DEF LastOf
  <2>. QED
    BY <1>1, <1>3, <2>1
<1>. QED
  BY <1>2, <1>3

(* An entry that is appended and trimmed to: it is the last one, and those *)
(* in front of it move up by one.                                          *)
LEMMA TrimmedAppend ==
    ASSUME NEW S, NEW s \in Seq(S), NEW e \in S
    PROVE  LET t == Trim(Append(s, e))
           IN  /\ t \in Seq(S)
               /\ Len(t) = IF Len(s) < MaxStored THEN Len(s) + 1 ELSE MaxStored
               /\ Len(t) > 0
               /\ t[Len(t)] = e
               /\ \A k \in 1..(Len(t) - 1) : t[Len(t) - k] = s[Len(s) - (k - 1)]
<1> DEFINE a == Append(s, e)
           t == LastOf(MaxStored, a)
<1>1. MaxStored \in Nat /\ MaxStored > 0 /\ Len(s) \in Nat
  BY MemoryAssumption, LenProperties
<1>2. /\ a \in Seq(S) /\ Len(a) = Len(s) + 1 /\ a[Len(s) + 1] = e
      /\ \A i \in 1..Len(s) : a[i] = s[i]
  BY AppendProperties
<1> HIDE DEF a
<1>3. /\ t \in Seq(S)
      /\ Len(t) = IF Len(a) > MaxStored THEN MaxStored ELSE Len(a)
      /\ \A i \in 1..Len(t) : t[i] = a[i + (Len(a) - Len(t))]
  BY <1>1, <1>2, LastOfList
<1> HIDE DEF t
<1>4. Len(t) = IF Len(s) < MaxStored THEN Len(s) + 1 ELSE MaxStored
  BY <1>1, <1>2, <1>3
<1>5. t[Len(t)] = e
  <2>1. Len(t) \in 1..Len(t) /\ Len(t) + (Len(a) - Len(t)) = Len(s) + 1
    BY <1>1, <1>2, <1>4
  <2>. QED
    BY <1>2, <1>3, <2>1
<1>6. ASSUME NEW k \in 1..(Len(t) - 1)
      PROVE  t[Len(t) - k] = s[Len(s) - (k - 1)]
  <2>1. /\ Len(t) - k \in 1..Len(t) /\ Len(s) - (k - 1) \in 1..Len(s)
        /\ (Len(t) - k) + (Len(a) - Len(t)) = Len(s) - (k - 1)
    BY <1>1, <1>2, <1>4
  <2>. QED
    BY <1>2, <1>3, <2>1
<1>. QED
  BY <1>1, <1>3, <1>4, <1>5, <1>6 DEF Trim, t, a

LEMMA RemovedFirst ==
    ASSUME NEW S, NEW s \in Seq(S), NEW x
    PROVE  LET r == RemoveFirst(s, x)
           IN  /\ r \in Seq(S) /\ Len(r) <= Len(s)
               /\ \A y : Listed(y, r) => Listed(y, s)
               /\ \A y : Listed(y, s) /\ y # x => Listed(y, r)
               /\ Distinct(s) => Distinct(r) /\ ~Listed(x, r)
<1>0. Len(s) \in Nat /\ \A i \in 1..Len(s) : s[i] \in S
  BY LenProperties, ElementOfSeq
<1>1. CASE ~Listed(x, s)
  <2>1. RemoveFirst(s, x) = s
    BY <1>1 DEF RemoveFirst, Listed
  <2>. QED
    BY <1>0, <1>1, <2>1
<1>2. CASE Listed(x, s)
  <2> DEFINE I == {i \in 1..Len(s) : s[i] = x}
             n == Min(I)
             r == RemoveFirst(s, x)
  <2>1. I # {} /\ I \in SUBSET Nat
    BY <1>0, <1>2 DEF Listed
  <2>2. \E i \in I : \A j \in I : i <= j
    BY <2>1, Least
  <2>3. n \in I
    BY <2>2 DEF Min
  <2>4. n \in 1..Len(s) /\ s[n] = x
    BY <2>3
  <2>5. r = SubSeq(s, 1, n - 1) \o SubSeq(s, n + 1, Len(s))
    BY <1>2, <2>1 DEF Listed, RemoveFirst, RemoveAt, SelectInSeq
  <2> HIDE DEF I, n, r
  <2> DEFINE front == SubSeq(s, 1, n - 1)
             rest  == SubSeq(s, n + 1, Len(s))
  <2>6. /\ front \in Seq(S) /\ Len(front) = n - 1
        /\ \A i \in 1..(n - 1) : front[i] = s[i]
    <3>1. \A i \in 1..(n - 1) : s[i] \in S
      BY <1>0, <2>4
    <3>2. /\ front \in Seq(S)
          /\ Len(front) = IF 1 <= n - 1 THEN (n - 1) - 1 + 1 ELSE 0
          /\ \A i \in 1..((n - 1) - 1 + 1) : front[i] = s[1 + i - 1]
      BY <1>0, <2>4, <3>1, SubSeqProperties
    <3>. QED
      BY <1>0, <2>4, <3>2
  <2>7. /\ rest \in Seq(S) /\ Len(rest) = Len(s) - n
        /\ \A i \in 1..(Len(s) - n) : rest[i] = s[n + i]
    <3>1. \A i \in (n + 1)..Len(s) : s[i] \in S
      BY <1>0, <2>4
    <3>2. /\ rest \in Seq(S)
          /\ Len(rest) = IF n + 1 <= Len(s) THEN Len(s) - (n + 1) + 1 ELSE 0
          /\ \A i \in 1..(Len(s) - (n + 1) + 1) : rest[i] = s[(n + 1) + i - 1]
      BY <1>0, <2>4, <3>1, SubSeqProperties
    <3>. QED
      BY <1>0, <2>4, <3>2
  <2> HIDE DEF front, rest
  <2>8. /\ r \in Seq(S) /\ Len(r) = Len(s) - 1
        /\ \A i \in 1..Len(r) : r[i] = IF i < n THEN s[i] ELSE s[i + 1]
    <3>1. /\ r \in Seq(S) /\ Len(r) = Len(front) + Len(rest)
          /\ \A i \in 1..(Len(front) + Len(rest)) :
               r[i] = IF i <= Len(front) THEN front[i] ELSE rest[i - Len(front)]
      BY <2>5, <2>6, <2>7, ConcatProperties DEF front, rest
    <3>2. Len(r) = Len(s) - 1
      BY <1>0, <2>4, <2>6, <2>7, <3>1
    <3>3. ASSUME NEW i \in 1..Len(r)
          PROVE  r[i] = IF i < n THEN s[i] ELSE s[i + 1]
      <4>1. CASE i < n
        BY <1>0, <2>4, <2>6, <2>7, <3>1, <3>2, <4>1
      <4>2. CASE ~(i < n)
        <5>1. i - (n - 1) \in 1..(Len(s) - n) /\ n + (i - (n - 1)) = i + 1
          BY <1>0, <2>4, <3>2, <4>2
        <5>2. r[i] = rest[i - (n - 1)]
          BY <1>0, <2>4, <2>6, <3>1, <3>2, <4>2
        <5>. QED
          BY <2>7, <4>2, <5>1, <5>2
      <4>. QED
        BY <4>1, <4>2
    <3>. QED
      BY <3>1, <3>2, <3>3
  <2>9. ASSUME NEW y, Listed(y, r)
        PROVE  Listed(y, s)
    <3>1. PICK i \in 1..Len(r) : r[i] = y
      BY <2>9 DEF Listed
    <3>2. i \in 1..Len(s) /\ i + 1 \in 1..Len(s)
      BY <1>0, <2>8
    <3>. QED
      BY <2>8, <3>1, <3>2 DEF Listed
  <2>10. ASSUME NEW y, Listed(y, s), y # x
         PROVE  Listed(y, r)
    <3>1. PICK i \in 1..Len(s) : s[i] = y
      BY <2>10 DEF Listed
    <3>2. i # n
      BY <2>4, <2>10, <3>1
    <3>3. CASE i < n
      <4>1. i \in 1..Len(r)
        BY <1>0, <2>4, <2>8, <3>3
      <4>. QED
        BY <2>8, <3>1, <3>3, <4>1 DEF Listed
    <3>4. CASE i > n
      <4>1. i - 1 \in 1..Len(r) /\ ~(i - 1 < n) /\ (i - 1) + 1 = i
        BY <1>0, <2>4, <2>8, <3>4
      <4>. QED
        BY <2>8, <3>1, <4>1 DEF Listed
    <3>. QED
      BY <1>0, <2>4, <3>2, <3>3, <3>4
  <2>11. ASSUME Distinct(s)
         PROVE  Distinct(r) /\ ~Listed(x, r)
    <3> DEFINE at(i) == IF i < n THEN i ELSE i + 1
    <3>1. ASSUME NEW i \in 1..Len(r)
          PROVE  at(i) \in 1..Len(s) /\ at(i) # n /\ r[i] = s[at(i)]
      <4>1. at(i) \in 1..Len(s) /\ at(i) # n
        BY <1>0, <2>4, <2>8
      <4>2. r[i] = IF i < n THEN s[i] ELSE s[i + 1]
        BY <2>8
      <4>. QED
        BY <4>1, <4>2
    <3>2. \A i, j \in 1..Len(r) : at(i) = at(j) => i = j
      BY <1>0, <2>4, <2>8
    <3> HIDE DEF at
    <3>3. Distinct(r)
      BY <2>11, <3>1, <3>2 DEF Distinct
    <3>4. ~Listed(x, r)
      BY <2>4, <2>11, <3>1 DEF Distinct, Listed
    <3>. QED
      BY <3>3, <3>4
  <2>12. Len(r) <= Len(s)
    BY <1>0, <2>8
  <2>. QED
    BY <2>8, <2>9, <2>10, <2>11, <2>12 DEF r
<1>. QED
  BY <1>1, <1>2

(* A file that is put at the end of a list it was not in.                  *)
LEMMA AddedLast ==
    ASSUME NEW s \in Seq(Path), NEW f \in Path, Distinct(s), ~Listed(f, s)
    PROVE  LET t == Trim(Append(s, f))
           IN  /\ t \in Seq(Path) /\ Distinct(t)
               /\ Listed(f, t)
               /\ \A y : Listed(y, t) => y = f \/ Listed(y, s)
               /\ Cardinality(Path) <= MaxStored
                    => \A y : Listed(y, s) => Listed(y, t)
<1> DEFINE a == Append(s, f)
           t == LastOf(MaxStored, a)
<1>1. /\ MaxStored \in Nat /\ MaxStored > 0 /\ Len(s) \in Nat
      /\ Cardinality(Path) \in Nat
  BY MemoryAssumption, PathAssumption, LenProperties, FS_CardinalityType
<1>2. /\ a \in Seq(Path) /\ Len(a) = Len(s) + 1 /\ a[Len(s) + 1] = f
      /\ \A i \in 1..Len(s) : a[i] = s[i]
  BY AppendProperties
<1> HIDE DEF a
<1>3. /\ t \in Seq(Path)
      /\ Len(t) = IF Len(a) > MaxStored THEN MaxStored ELSE Len(a)
      /\ \A i \in 1..Len(t) : t[i] = a[i + (Len(a) - Len(t))]
  BY <1>1, <1>2, LastOfList
<1> HIDE DEF t
<1>4. \A i \in 1..Len(a) : i = Len(s) + 1 \/ i \in 1..Len(s)
  BY <1>1, <1>2
<1>5. Distinct(a)
  BY <1>1, <1>2, <1>4 DEF Distinct, Listed
<1>6. \A i \in 1..Len(t) : i + (Len(a) - Len(t)) \in 1..Len(a)
  BY <1>1, <1>2, <1>3
<1>7. Distinct(t)
  <2>1. ASSUME NEW i \in 1..Len(t), NEW j \in 1..Len(t), t[i] = t[j]
        PROVE  i = j
    <3>1. i + (Len(a) - Len(t)) = j + (Len(a) - Len(t))
      BY <1>3, <1>5, <1>6, <2>1 DEF Distinct
    <3>. QED
      BY <1>1, <1>2, <1>3, <3>1
  <2>. QED
    BY <2>1 DEF Distinct
<1>8. Listed(f, t)
  <2>1. Len(t) \in 1..Len(t) /\ Len(t) + (Len(a) - Len(t)) = Len(s) + 1
    BY <1>1, <1>2, <1>3
  <2>. QED
    BY <1>2, <1>3, <2>1 DEF Listed
<1>9. \A y : Listed(y, t) => y = f \/ Listed(y, s)
  BY <1>2, <1>3, <1>4, <1>6 DEF Listed
<1>10. ASSUME Cardinality(Path) <= MaxStored, NEW y, Listed(y, s)
       PROVE  Listed(y, t)
  <2>1. a \in Injection(1..Len(a), Path)
    BY <1>2, <1>5, LenProperties DEF Distinct, Injection, IsInjective
  <2>2. Cardinality(1..Len(a)) <= Cardinality(Path)
    BY <2>1, PathAssumption, FS_Injection
  <2>3. Cardinality(1..Len(a)) = Len(a)
    BY <1>1, <1>2, FS_Interval
  <2>4. t = a
    BY <1>1, <1>2, <1>10, <2>2, <2>3 DEF t, LastOf
  <2>. QED
    BY <1>1, <1>2, <1>10, <2>4 DEF Listed
<1>. QED
  BY <1>3, <1>7, <1>8, <1>9, <1>10 DEF Trim, t, a


(* What is in the log; and a call that is to be performed has what the     *)
(* entry it makes will have.                                               *)
Whole(e) ==
    /\ e.kind \in {"read", "edit", "delete"} => e.arg \in Path
    /\ e.kind = "rename" =>
         e.arg \in Path /\ e.to \in Path /\ FileOf[e.arg] # FileOf[e.to]
    /\ e.kind = "command" => e.arg \in Command
    /\ e.kind = "git" => e.arg \in GitOp

Entry == {e \in Effects : /\ Whole(e)
                          /\ e.kind = "command" => e.outcome \in Outcomes
                          /\ e.outcome = "unverified" => e.kind = "edit"}

LEMMA LastInSet ==
    ASSUME NEW n \in Nat, NEW S \in SUBSET (1..n), S # {}
    PROVE  LastIn(S) \in S /\ \A j \in S : j <= LastIn(S)
<1> DEFINE M == {n - i : i \in S}
<1>1. M \in SUBSET Nat /\ M # {}
  OBVIOUS
<1>2. PICK m \in M : \A k \in M : m <= k
  BY <1>1, Least
<1>3. PICK i \in S : m = n - i
  BY <1>2
<1>4. \A j \in S : j <= i
  BY <1>2, <1>3
<1>5. \E x \in S : \A j \in S : j <= x
  BY <1>3, <1>4
<1>. QED
  BY <1>5 DEF LastIn

LEMMA LastInAdded ==
    ASSUME NEW n \in Nat, NEW S \in SUBSET (1..n)
    PROVE  LastIn(S \cup {n + 1}) = n + 1
<1> DEFINE T == S \cup {n + 1}
<1>1. T \in SUBSET (1..(n + 1)) /\ T # {} /\ n + 1 \in Nat
  OBVIOUS
<1>2. LastIn(T) \in T /\ \A j \in T : j <= LastIn(T)
  BY <1>1, LastInSet
<1> DEFINE x == LastIn(T)
<1>3. n + 1 \in T /\ x \in 1..(n + 1) /\ n + 1 <= x
  BY <1>1, <1>2
<1> HIDE DEF x, T
<1>4. x = n + 1
  BY <1>3
<1>. QED
  BY <1>4 DEF x, T

(* CurrentRead, Changed and Unsure of a path that the task has named in no *)
(* other way: of any log, and of one that grows.                           *)
TouchingIn(l, f) == {i \in 1..Len(l) : Names(l[i], f)}
ChangingIn(l, f) == {i \in TouchingIn(l, f) : l[i].kind # "read"}

ReadIn(l, f) ==
    TouchingIn(l, f) # {} /\ l[LastIn(TouchingIn(l, f))].kind = "read"

Leaves(e, f) == e.kind = "edit" \/ (e.kind = "rename" /\ e.to = f)

ChangedIn(l, f) ==
    ChangingIn(l, f) # {} /\ Leaves(l[LastIn(ChangingIn(l, f))], f)

UnsureIn(l, f) ==
    ChangingIn(l, f) # {} /\ l[LastIn(ChangingIn(l, f))].outcome = "unverified"

LEMMA Grown ==
    ASSUME NEW l \in Seq(Entry), NEW e \in Entry
    PROVE  /\ Append(l, e) \in Seq(Entry)
           /\ Len(l) \in Nat /\ Len(Append(l, e)) = Len(l) + 1
           /\ \A i \in 1..Len(l) : Append(l, e)[i] = l[i]
           /\ Append(l, e)[Len(l) + 1] = e
           /\ 1..(Len(l) + 1) = 1..Len(l) \cup {Len(l) + 1}
<1>1. Len(l) \in Nat
  BY LenProperties
<1>2. 1..(Len(l) + 1) = 1..Len(l) \cup {Len(l) + 1}
  BY <1>1
<1>. QED
  BY <1>1, <1>2, AppendProperties

LEMMA ReadGrown ==
    ASSUME NEW l \in Seq(Entry), NEW e \in Entry, NEW f
    PROVE  ReadIn(Append(l, e), f)
             <=> IF Names(e, f) THEN e.kind = "read" ELSE ReadIn(l, f)
<1> DEFINE a == Append(l, e)
           n == Len(l)
           S == TouchingIn(l, f)
<1>1. /\ a \in Seq(Entry) /\ n \in Nat /\ Len(a) = n + 1
      /\ \A i \in 1..n : a[i] = l[i]
      /\ a[n + 1] = e
      /\ 1..(n + 1) = 1..n \cup {n + 1}
  BY Grown
<1> HIDE DEF a
<1>2. TouchingIn(a, f) = S \cup (IF Names(e, f) THEN {n + 1} ELSE {})
  BY <1>1 DEF TouchingIn
<1>3. S \in SUBSET (1..n)
  BY DEF TouchingIn
<1> HIDE DEF S, n
<1>4. CASE Names(e, f)
  <2>1. TouchingIn(a, f) = S \cup {n + 1}
    BY <1>2, <1>4
  <2>2. LastIn(TouchingIn(a, f)) = n + 1
    BY <1>1, <1>3, <2>1, LastInAdded
  <2>. QED
    BY <1>1, <1>4, <2>1, <2>2 DEF ReadIn, a
<1>5. CASE ~Names(e, f)
  <2>1. TouchingIn(a, f) = S
    BY <1>2, <1>5
  <2>2. CASE S = {}
    BY <1>5, <2>1, <2>2 DEF ReadIn, a, S
  <2>3. CASE S # {}
    <3>1. LastIn(S) \in 1..n
      BY <1>1, <1>3, <2>3, LastInSet
    <3>2. a[LastIn(S)] = l[LastIn(S)]
      BY <1>1, <3>1
    <3>. QED
      BY <1>5, <2>1, <3>2 DEF ReadIn, a, S
  <2>. QED
    BY <2>2, <2>3
<1>. QED
  BY <1>4, <1>5

LEMMA ChangedGrown ==
    ASSUME NEW l \in Seq(Entry), NEW e \in Entry, NEW f
    PROVE  /\ ChangedIn(Append(l, e), f)
                <=> IF Names(e, f) /\ e.kind # "read" THEN Leaves(e, f)
                    ELSE ChangedIn(l, f)
           /\ UnsureIn(Append(l, e), f)
                <=> IF Names(e, f) /\ e.kind # "read" THEN e.outcome = "unverified"
                    ELSE UnsureIn(l, f)
<1> DEFINE a == Append(l, e)
           n == Len(l)
           S == ChangingIn(l, f)
<1>1. /\ a \in Seq(Entry) /\ n \in Nat /\ Len(a) = n + 1
      /\ \A i \in 1..n : a[i] = l[i]
      /\ a[n + 1] = e
      /\ 1..(n + 1) = 1..n \cup {n + 1}
  BY Grown
<1> HIDE DEF a
<1>2. ChangingIn(a, f)
        = S \cup (IF Names(e, f) /\ e.kind # "read" THEN {n + 1} ELSE {})
  BY <1>1 DEF TouchingIn, ChangingIn
<1>3. S \in SUBSET (1..n)
  BY DEF TouchingIn, ChangingIn
<1> HIDE DEF S, n
<1>4. CASE Names(e, f) /\ e.kind # "read"
  <2>1. ChangingIn(a, f) = S \cup {n + 1}
    BY <1>2, <1>4
  <2>2. LastIn(ChangingIn(a, f)) = n + 1
    BY <1>1, <1>3, <2>1, LastInAdded
  <2>. QED
    BY <1>1, <1>4, <2>1, <2>2 DEF ChangedIn, UnsureIn, a
<1>5. CASE ~(Names(e, f) /\ e.kind # "read")
  <2>1. ChangingIn(a, f) = S
    BY <1>2, <1>5
  <2>2. CASE S = {}
    BY <1>5, <2>1, <2>2 DEF ChangedIn, UnsureIn, a, S
  <2>3. CASE S # {}
    <3>1. LastIn(S) \in 1..n
      BY <1>1, <1>3, <2>3, LastInSet
    <3>2. a[LastIn(S)] = l[LastIn(S)]
      BY <1>1, <3>1
    <3>. QED
      BY <1>5, <2>1, <3>2 DEF ChangedIn, UnsureIn, a, S
  <2>. QED
    BY <2>2, <2>3
<1>. QED
  BY <1>4, <1>5

-----------------------------------------------------------------------------
(* The lists of files say of every path what the log says of it: at most,  *)
(* and, if they are long enough to hold all paths, exactly, except after   *)
(* an edit that was reported as a failure.                                 *)
FileListsAgree(inspected, modified, l) ==
    /\ inspected \in Seq(Path) /\ Distinct(inspected)
    /\ modified \in Seq(Path) /\ Distinct(modified)
    /\ \A f \in Path :
         /\ Listed(f, inspected) => ReadIn(l, f) \/ UnsureIn(l, f)
         /\ Listed(f, modified) => ChangedIn(l, f)
         /\ Cardinality(Path) <= MaxStored =>
              /\ ReadIn(l, f) => Listed(f, inspected)
              /\ ChangedIn(l, f) => Listed(f, modified) \/ UnsureIn(l, f)

FilesAgree(t, l) == FileListsAgree(t.inspected, t.modified, l)

LEMMA FilesAgreeRead ==
    ASSUME NEW i, NEW m, NEW l \in Seq(Entry), FileListsAgree(i, m, l),
           NEW e \in Entry, e.kind = "read"
    PROVE  FileListsAgree(Trim(Append(RemoveFirst(i, e.arg), e.arg)), m, Append(l, e))
<1> DEFINE r == RemoveFirst(i, e.arg)
           t == Trim(Append(r, e.arg))
<1>1. e.arg \in Path /\ \A f : Names(e, f) <=> f = e.arg
  BY DEF Entry, Whole, Names
<1>2. /\ r \in Seq(Path) /\ Distinct(r) /\ ~Listed(e.arg, r)
      /\ \A y : Listed(y, r) => Listed(y, i)
      /\ \A y : Listed(y, i) /\ y # e.arg => Listed(y, r)
  BY RemovedFirst DEF FileListsAgree
<1> HIDE DEF r
<1>3. /\ t \in Seq(Path) /\ Distinct(t) /\ Listed(e.arg, t)
      /\ \A y : Listed(y, t) => y = e.arg \/ Listed(y, r)
      /\ Cardinality(Path) <= MaxStored => \A y : Listed(y, r) => Listed(y, t)
  BY <1>1, <1>2, AddedLast
<1> HIDE DEF t
<1>4. ASSUME NEW f \in Path
      PROVE  /\ ReadIn(Append(l, e), f) <=> f = e.arg \/ ReadIn(l, f)
             /\ ChangedIn(Append(l, e), f) <=> ChangedIn(l, f)
             /\ UnsureIn(Append(l, e), f) <=> UnsureIn(l, f)
  BY <1>1, ReadGrown, ChangedGrown
<1>5. FileListsAgree(t, m, Append(l, e))
  BY <1>1, <1>2, <1>3, <1>4 DEF FileListsAgree
<1>. QED
  BY <1>5 DEF t, r

(* A file that is noted as modified.                                       *)
LEMMA Modified ==
    ASSUME NEW m \in Seq(Path), Distinct(m), NEW f \in Path
    PROVE  LET t == IF Listed(f, m) THEN m ELSE Trim(Append(m, f))
           IN  /\ t \in Seq(Path) /\ Distinct(t) /\ Listed(f, t)
               /\ \A y : Listed(y, t) => y = f \/ Listed(y, m)
               /\ Cardinality(Path) <= MaxStored => \A y : Listed(y, m) => Listed(y, t)
BY AddedLast

LEMMA FilesAgreeEdit ==
    ASSUME NEW i, NEW m, NEW l \in Seq(Entry), FileListsAgree(i, m, l),
           NEW e \in Entry, e.kind = "edit"
    PROVE  FileListsAgree(RemoveFirst(i, e.arg),
                          IF Listed(e.arg, m) THEN m ELSE Trim(Append(m, e.arg)),
                          Append(l, e))
<1> DEFINE r == RemoveFirst(i, e.arg)
           t == IF Listed(e.arg, m) THEN m ELSE Trim(Append(m, e.arg))
<1>1. /\ e.arg \in Path
      /\ \A f : Names(e, f) <=> f = e.arg
      /\ \A f : Leaves(e, f)
  BY DEF Entry, Whole, Names, Leaves
<1>2. /\ r \in Seq(Path) /\ Distinct(r) /\ ~Listed(e.arg, r)
      /\ \A y : Listed(y, r) => Listed(y, i)
      /\ \A y : Listed(y, i) /\ y # e.arg => Listed(y, r)
  BY RemovedFirst DEF FileListsAgree
<1>3. /\ t \in Seq(Path) /\ Distinct(t) /\ Listed(e.arg, t)
      /\ \A y : Listed(y, t) => y = e.arg \/ Listed(y, m)
      /\ Cardinality(Path) <= MaxStored => \A y : Listed(y, m) => Listed(y, t)
  BY <1>1, Modified DEF FileListsAgree
<1> HIDE DEF r, t
<1>4. ASSUME NEW f \in Path
      PROVE  /\ ReadIn(Append(l, e), f) <=> f # e.arg /\ ReadIn(l, f)
             /\ ChangedIn(Append(l, e), f) <=> f = e.arg \/ ChangedIn(l, f)
             /\ f # e.arg => (UnsureIn(Append(l, e), f) <=> UnsureIn(l, f))
  BY <1>1, ReadGrown, ChangedGrown
<1>5. FileListsAgree(r, t, Append(l, e))
  BY <1>1, <1>2, <1>3, <1>4 DEF FileListsAgree
<1>. QED
  BY <1>5 DEF t, r

LEMMA FilesAgreeDelete ==
    ASSUME NEW i, NEW m, NEW l \in Seq(Entry), FileListsAgree(i, m, l),
           NEW e \in Entry, e.kind = "delete"
    PROVE  FileListsAgree(RemoveFirst(i, e.arg), RemoveFirst(m, e.arg), Append(l, e))
<1> DEFINE r == RemoveFirst(i, e.arg)
           t == RemoveFirst(m, e.arg)
<1>1. /\ e.arg \in Path
      /\ \A f : Names(e, f) <=> f = e.arg
      /\ \A f : ~Leaves(e, f)
  BY DEF Entry, Whole, Names, Leaves
<1>2. /\ r \in Seq(Path) /\ Distinct(r) /\ ~Listed(e.arg, r)
      /\ \A y : Listed(y, r) => Listed(y, i)
      /\ \A y : Listed(y, i) /\ y # e.arg => Listed(y, r)
  BY RemovedFirst DEF FileListsAgree
<1>3. /\ t \in Seq(Path) /\ Distinct(t) /\ ~Listed(e.arg, t)
      /\ \A y : Listed(y, t) => Listed(y, m)
      /\ \A y : Listed(y, m) /\ y # e.arg => Listed(y, t)
  BY RemovedFirst DEF FileListsAgree
<1> HIDE DEF r, t
<1>4. ASSUME NEW f \in Path
      PROVE  /\ ReadIn(Append(l, e), f) <=> f # e.arg /\ ReadIn(l, f)
             /\ ChangedIn(Append(l, e), f) <=> f # e.arg /\ ChangedIn(l, f)
             /\ f # e.arg => (UnsureIn(Append(l, e), f) <=> UnsureIn(l, f))
  BY <1>1, ReadGrown, ChangedGrown
<1>5. FileListsAgree(r, t, Append(l, e))
  BY <1>1, <1>2, <1>3, <1>4 DEF FileListsAgree
<1>. QED
  BY <1>5 DEF t, r

LEMMA FilesAgreeRename ==
    ASSUME NEW i, NEW m, NEW l \in Seq(Entry), FileListsAgree(i, m, l),
           NEW e \in Entry, e.kind = "rename"
    PROVE  LET r == RemoveFirst(m, e.arg)
           IN  FileListsAgree(RemoveFirst(RemoveFirst(i, e.arg), e.to),
                              IF Listed(e.to, r) THEN r ELSE Trim(Append(r, e.to)),
                              Append(l, e))
<1> DEFINE q == RemoveFirst(i, e.arg)
           p == RemoveFirst(q, e.to)
           r == RemoveFirst(m, e.arg)
           t == IF Listed(e.to, r) THEN r ELSE Trim(Append(r, e.to))
<1>1. /\ e.arg \in Path /\ e.to \in Path /\ e.arg # e.to
      /\ \A f : Names(e, f) <=> f \in {e.arg, e.to}
      /\ \A f : Leaves(e, f) <=> f = e.to
  BY DEF Entry, Whole, Names, Leaves
<1>2. /\ q \in Seq(Path) /\ Distinct(q) /\ ~Listed(e.arg, q)
      /\ \A y : Listed(y, q) => Listed(y, i)
      /\ \A y : Listed(y, i) /\ y # e.arg => Listed(y, q)
  BY RemovedFirst DEF FileListsAgree
<1>3. /\ r \in Seq(Path) /\ Distinct(r) /\ ~Listed(e.arg, r)
      /\ \A y : Listed(y, r) => Listed(y, m)
      /\ \A y : Listed(y, m) /\ y # e.arg => Listed(y, r)
  BY RemovedFirst DEF FileListsAgree
<1> HIDE DEF q, r
<1>4. /\ p \in Seq(Path) /\ Distinct(p) /\ ~Listed(e.to, p)
      /\ \A y : Listed(y, p) => Listed(y, q)
      /\ \A y : Listed(y, q) /\ y # e.to => Listed(y, p)
  BY <1>2, RemovedFirst
<1>5. /\ t \in Seq(Path) /\ Distinct(t) /\ Listed(e.to, t)
      /\ \A y : Listed(y, t) => y = e.to \/ Listed(y, r)
      /\ Cardinality(Path) <= MaxStored => \A y : Listed(y, r) => Listed(y, t)
  BY <1>1, <1>3, Modified
<1> HIDE DEF p, t
<1>6. ASSUME NEW f \in Path
      PROVE  /\ ReadIn(Append(l, e), f) <=> f \notin {e.arg, e.to} /\ ReadIn(l, f)
             /\ ChangedIn(Append(l, e), f)
                  <=> f = e.to \/ (f # e.arg /\ ChangedIn(l, f))
             /\ f \notin {e.arg, e.to} => (UnsureIn(Append(l, e), f) <=> UnsureIn(l, f))
  BY <1>1, ReadGrown, ChangedGrown
<1>7. FileListsAgree(p, t, Append(l, e))
  BY <1>1, <1>2, <1>3, <1>4, <1>5, <1>6 DEF FileListsAgree
<1>. QED
  BY <1>7 DEF q, p, r, t

(* An edit that was reported as a failure is recorded in neither list.     *)
LEMMA FilesAgreeUnverified ==
    ASSUME NEW i, NEW m, NEW l \in Seq(Entry), FileListsAgree(i, m, l),
           NEW e \in Entry, e.outcome = "unverified"
    PROVE  FileListsAgree(i, m, Append(l, e))
<1>1. /\ e.kind = "edit" /\ e.arg \in Path
      /\ \A f : Names(e, f) <=> f = e.arg
      /\ \A f : Leaves(e, f)
  BY DEF Entry, Whole, Names, Leaves
<1>2. ASSUME NEW f \in Path
      PROVE  /\ ReadIn(Append(l, e), f) <=> f # e.arg /\ ReadIn(l, f)
             /\ ChangedIn(Append(l, e), f) <=> f = e.arg \/ ChangedIn(l, f)
             /\ UnsureIn(Append(l, e), f) <=> f = e.arg \/ UnsureIn(l, f)
  BY <1>1, ReadGrown, ChangedGrown
<1>. QED
  BY <1>1, <1>2 DEF FileListsAgree

LEMMA FilesRecorded ==
    ASSUME NEW t \in Task, NEW l \in Seq(Entry), FilesAgree(t, l), NEW e \in Entry
    PROVE  FilesAgree(Recorded(t, e), Append(l, e))
<1> DEFINE u == Recorded(t, e)
<1>0. FileListsAgree(t.inspected, t.modified, l)
  BY DEF FilesAgree
<1>1. CASE e.kind = "read"
  <2>1. u = NoteInspected(t, e.arg)
    BY <1>1 DEF Recorded
  <2>2. /\ u.inspected = Trim(Append(RemoveFirst(t.inspected, e.arg), e.arg))
        /\ u.modified = t.modified
    BY <2>1 DEF NoteInspected, Task
  <2>. QED
    BY <1>0, <1>1, <2>2, FilesAgreeRead DEF FilesAgree
<1>2. CASE e.kind = "edit"
  <2>1. u = NoteModified(t, e.arg)
    BY <1>2 DEF Recorded
  <2>2. /\ u.inspected = RemoveFirst(t.inspected, e.arg)
        /\ u.modified = IF Listed(e.arg, t.modified) THEN t.modified
                        ELSE Trim(Append(t.modified, e.arg))
    BY <2>1 DEF NoteModified, Task
  <2>. QED
    BY <1>0, <1>2, <2>2, FilesAgreeEdit DEF FilesAgree
<1>3. CASE e.kind = "delete"
  <2>1. u = NoteRemoved(t, e.arg)
    BY <1>3 DEF Recorded
  <2>2. /\ u.inspected = RemoveFirst(t.inspected, e.arg)
        /\ u.modified = RemoveFirst(t.modified, e.arg)
    BY <2>1 DEF NoteRemoved, Task
  <2>. QED
    BY <1>0, <1>3, <2>2, FilesAgreeDelete DEF FilesAgree
<1>4. CASE e.kind = "rename"
  <2>1. u = NoteModified(NoteRemoved(t, e.arg), e.to)
    BY <1>4 DEF Recorded
  <2> DEFINE r == RemoveFirst(t.modified, e.arg)
  <2>2. /\ u.inspected = RemoveFirst(RemoveFirst(t.inspected, e.arg), e.to)
        /\ u.modified = IF Listed(e.to, r) THEN r ELSE Trim(Append(r, e.to))
    BY <2>1 DEF NoteModified, NoteRemoved, Task
  <2>. QED
    BY <1>0, <1>4, <2>2, FilesAgreeRename DEF FilesAgree
<1>5. CASE e.kind \in {"command", "git"}
  <2>1. u.inspected = t.inspected /\ u.modified = t.modified
    BY <1>5 DEF Recorded, RecordCommand, NoteGit, Task
  <2>2. ASSUME NEW f
        PROVE  ~Names(e, f)
    BY <1>5 DEF Names
  <2>3. ASSUME NEW f \in Path
        PROVE  /\ ReadIn(Append(l, e), f) <=> ReadIn(l, f)
               /\ ChangedIn(Append(l, e), f) <=> ChangedIn(l, f)
               /\ UnsureIn(Append(l, e), f) <=> UnsureIn(l, f)
    BY <2>2, ReadGrown, ChangedGrown
  <2>. QED
    BY <1>0, <2>1, <2>3 DEF FilesAgree, FileListsAgree
<1>. QED
  BY <1>1, <1>2, <1>3, <1>4, <1>5 DEF Entry, Effects

-----------------------------------------------------------------------------
(* The list of errors says what the log says of the commands that failed.  *)
UnresolvedIn(l) == {i \in 1..Len(l) :
                      Fails(l[i]) /\ \A j \in i..Len(l) : ~Clears(l[j])}

Run == [cmd : Command, outcome : Outcomes]

After(U, i) == {j \in U : j > i}

ErrorListAgrees(errors, l) ==
    /\ errors \in Seq(Run)
    /\ Len(errors) = IF Cardinality(UnresolvedIn(l)) > MaxStored THEN MaxStored
                     ELSE Cardinality(UnresolvedIn(l))
    /\ \A i \in UnresolvedIn(l) :
         LET later == Cardinality(After(UnresolvedIn(l), i)) IN
           later < MaxStored
             => errors[Len(errors) - later] = [cmd |-> l[i].arg, outcome |-> l[i].outcome]

ErrorsAgree(t, l) == ErrorListAgrees(t.errors, l)

(* What an entry does to the failures that are not resolved.               *)
LEMMA UnresolvedGrown ==
    ASSUME NEW l \in Seq(Entry), NEW e \in Entry
    PROVE  UnresolvedIn(Append(l, e))
             = IF Clears(e) THEN {}
               ELSE UnresolvedIn(l) \cup (IF Fails(e) THEN {Len(l) + 1} ELSE {})
<1> DEFINE a == Append(l, e)
           n == Len(l)
<1>1. /\ a \in Seq(Entry) /\ n \in Nat /\ Len(a) = n + 1
      /\ \A i \in 1..n : a[i] = l[i]
      /\ a[n + 1] = e
      /\ 1..(n + 1) = 1..n \cup {n + 1}
  BY Grown
<1> HIDE DEF a
<1>2. Fails(e) => ~Clears(e)
  BY DEF Fails, Clears, IsError, CleanRun, LooksPassing
<1>3. ASSUME NEW i \in 1..n
      PROVE  /\ i..(n + 1) = i..n \cup {n + 1}
             /\ (\A j \in i..(n + 1) : ~Clears(a[j]))
                  <=> (\A j \in i..n : ~Clears(l[j])) /\ ~Clears(e)
  <2>1. i..(n + 1) = i..n \cup {n + 1} /\ \A j \in i..n : j \in 1..n
    BY <1>1
  <2>. QED
    BY <1>1, <2>1
<1>4. (n + 1)..(n + 1) = {n + 1}
  BY <1>1
<1>5. ASSUME NEW i \in 1..n
      PROVE  i \in UnresolvedIn(a) <=> i \in UnresolvedIn(l) /\ ~Clears(e)
  <2>1. i \in 1..Len(a) /\ a[i] = l[i]
    BY <1>1
  <2>. QED
    BY <1>1, <1>3, <2>1 DEF UnresolvedIn
<1>6. n + 1 \in UnresolvedIn(a) <=> Fails(e) /\ ~Clears(e)
  BY <1>1, <1>4 DEF UnresolvedIn
<1>7. UnresolvedIn(a) \subseteq 1..n \cup {n + 1} /\ UnresolvedIn(l) \subseteq 1..n
  BY <1>1 DEF UnresolvedIn
<1> HIDE DEF n
<1>8. CASE Clears(e)
  BY <1>5, <1>6, <1>7, <1>8 DEF a, n
<1>9. CASE ~Clears(e)
  BY <1>2, <1>5, <1>6, <1>7, <1>9 DEF a, n
<1>. QED
  BY <1>8, <1>9

LEMMA UnresolvedFinite ==
    ASSUME NEW l \in Seq(Entry)
    PROVE  /\ UnresolvedIn(l) \subseteq 1..Len(l) /\ Len(l) \in Nat
           /\ IsFiniteSet(UnresolvedIn(l)) /\ Cardinality(UnresolvedIn(l)) \in Nat
           /\ \A i : IsFiniteSet(After(UnresolvedIn(l), i))
                     /\ Cardinality(After(UnresolvedIn(l), i)) \in Nat
           /\ \A i \in UnresolvedIn(l) :
                Cardinality(After(UnresolvedIn(l), i)) < Cardinality(UnresolvedIn(l))
<1> DEFINE U == UnresolvedIn(l)
<1>1. U \subseteq 1..Len(l) /\ Len(l) \in Nat
  BY LenProperties DEF UnresolvedIn
<1> HIDE DEF U
<1>2. IsFiniteSet(U)
  <2>1. IsFiniteSet(1..Len(l))
    BY <1>1, FS_Interval
  <2>. QED
    BY <1>1, <2>1, FS_Subset
<1>3. ASSUME NEW i
      PROVE  /\ After(U, i) \subseteq U /\ IsFiniteSet(After(U, i))
             /\ Cardinality(After(U, i)) \in Nat
  <2>1. After(U, i) \subseteq U
    BY DEF After
  <2>. QED
    BY <1>2, <2>1, FS_Subset, FS_CardinalityType
<1>4. Cardinality(U) \in Nat
  BY <1>2, FS_CardinalityType
<1>5. ASSUME NEW i \in U
      PROVE  Cardinality(After(U, i)) < Cardinality(U)
  <2>1. i \notin After(U, i) /\ i \in U
    BY <1>1 DEF After
  <2>2. After(U, i) # U
    BY <2>1
  <2>. QED
    BY <1>2, <1>3, <1>4, <2>2, FS_Subset
<1>. QED
  BY <1>1, <1>2, <1>3, <1>4, <1>5 DEF U

LEMMA ErrorListFails ==
    ASSUME NEW s, NEW l \in Seq(Entry), ErrorListAgrees(s, l), NEW e \in Entry, Fails(e)
    PROVE  ErrorListAgrees(Trim(Append(s, [cmd |-> e.arg, outcome |-> e.outcome])),
                           Append(l, e))
<1> DEFINE a == Append(l, e)
           n == Len(l)
           r == [cmd |-> e.arg, outcome |-> e.outcome]
           t == Trim(Append(s, r))
           U == UnresolvedIn(l)
           V == UnresolvedIn(a)
<1>1. /\ a \in Seq(Entry) /\ n \in Nat /\ Len(a) = n + 1
      /\ \A i \in 1..n : a[i] = l[i]
      /\ a[n + 1] = e
  BY Grown
<1>2. r \in Run
  BY DEF Entry, Whole, Fails, Run
<1>3. V = U \cup {n + 1}
  <2>1. ~Clears(e)
    BY DEF Fails, Clears, IsError, CleanRun, LooksPassing
  <2>. QED
    BY <2>1, UnresolvedGrown
<1>4. /\ U \subseteq 1..n
      /\ IsFiniteSet(U) /\ Cardinality(U) \in Nat
      /\ \A i : IsFiniteSet(After(U, i)) /\ Cardinality(After(U, i)) \in Nat
      /\ \A i \in U : Cardinality(After(U, i)) < Cardinality(U)
  BY UnresolvedFinite
<1>5. /\ s \in Seq(Run) /\ Len(s) \in Nat
      /\ Len(s) = IF Cardinality(U) > MaxStored THEN MaxStored ELSE Cardinality(U)
      /\ \A i \in U : Cardinality(After(U, i)) < MaxStored
           => s[Len(s) - Cardinality(After(U, i))]
                = [cmd |-> l[i].arg, outcome |-> l[i].outcome]
  BY LenProperties DEF ErrorListAgrees
<1>6. MaxStored \in Nat /\ MaxStored > 0
  BY MemoryAssumption
<1> HIDE DEF r
<1>7. /\ t \in Seq(Run)
      /\ Len(t) = IF Len(s) < MaxStored THEN Len(s) + 1 ELSE MaxStored
      /\ Len(t) > 0
      /\ t[Len(t)] = r
      /\ \A k \in 1..(Len(t) - 1) : t[Len(t) - k] = s[Len(s) - (k - 1)]
  <2>1. s \in Seq(Run)
    BY <1>5
  <2>. QED
    BY <1>2, <2>1, TrimmedAppend
<1> HIDE DEF a, n, t, U, V
<1>8. Cardinality(V) = Cardinality(U) + 1
  <2>1. n + 1 \notin U
    BY <1>1, <1>4
  <2>. QED
    BY <1>3, <1>4, <2>1, FS_AddElement
<1>9. Len(t) = IF Cardinality(V) > MaxStored THEN MaxStored ELSE Cardinality(V)
  BY <1>4, <1>5, <1>6, <1>7, <1>8
<1>10. ASSUME NEW i \in V, Cardinality(After(V, i)) < MaxStored
       PROVE  t[Len(t) - Cardinality(After(V, i))]
                = [cmd |-> a[i].arg, outcome |-> a[i].outcome]
  <2>1. CASE i = n + 1
    <3>0. \A j \in V : ~(j > n + 1)
      BY <1>1, <1>3, <1>4
    <3>1. After(V, i) = {}
      BY <2>1, <3>0 DEF After
    <3>2. Cardinality(After(V, i)) = 0
      BY <3>1, FS_EmptySet
    <3>3. Len(t) - 0 = Len(t)
      BY <1>5, <1>6, <1>7
    <3>. QED
      BY <1>1, <1>7, <2>1, <3>2, <3>3 DEF r
  <2>2. CASE i \in U
    <3>1. After(V, i) = After(U, i) \cup {n + 1} /\ n + 1 \notin After(U, i)
      BY <1>1, <1>3, <1>4, <2>2 DEF After
    <3> DEFINE k == Cardinality(After(U, i))
    <3>2. Cardinality(After(V, i)) = k + 1 /\ k \in Nat /\ k < Cardinality(U)
      BY <1>4, <2>2, <3>1, FS_AddElement
    <3>3. k + 1 < MaxStored
      BY <1>10, <3>2
    <3> HIDE DEF k
    <3>4. k < MaxStored /\ k + 1 \in 1..(Len(t) - 1) /\ (k + 1) - 1 = k
      BY <1>4, <1>5, <1>6, <1>7, <3>2, <3>3
    <3>5. t[Len(t) - (k + 1)] = s[Len(s) - k]
      BY <1>7, <3>4
    <3>6. s[Len(s) - k] = [cmd |-> l[i].arg, outcome |-> l[i].outcome]
      BY <1>5, <2>2, <3>4 DEF k
    <3>7. a[i] = l[i]
      BY <1>1, <1>4, <2>2
    <3>. QED
      BY <3>2, <3>5, <3>6, <3>7
  <2>. QED
    BY <1>3, <2>1, <2>2
<1>11. ErrorListAgrees(t, a)
  BY <1>7, <1>9, <1>10 DEF ErrorListAgrees, V
<1>. QED
  BY <1>11 DEF t, a, r

LEMMA ErrorListOther ==
    ASSUME NEW s, NEW l \in Seq(Entry), ErrorListAgrees(s, l), NEW e \in Entry, ~Fails(e)
    PROVE  ErrorListAgrees(IF Clears(e) THEN <<>> ELSE s, Append(l, e))
<1> DEFINE a == Append(l, e)
<1>1. \A i \in 1..Len(l) : a[i] = l[i]
  BY Grown
<1>2. UnresolvedIn(a) = IF Clears(e) THEN {} ELSE UnresolvedIn(l)
  BY UnresolvedGrown
<1>3. UnresolvedIn(l) \subseteq 1..Len(l)
  BY DEF UnresolvedIn
<1> HIDE DEF a
<1>4. CASE Clears(e)
  <2>1. UnresolvedIn(a) = {} /\ Cardinality(UnresolvedIn(a)) = 0
    BY <1>2, <1>4, FS_EmptySet
  <2>2. ~(0 > MaxStored) /\ <<>> \in Seq(Run) /\ Len(<<>>) = 0
    BY MemoryAssumption
  <2>3. ErrorListAgrees(<<>>, a)
    BY <2>1, <2>2 DEF ErrorListAgrees
  <2>. QED
    BY <1>4, <2>3 DEF a
<1>5. CASE ~Clears(e)
  <2>1. UnresolvedIn(a) = UnresolvedIn(l)
    BY <1>2, <1>5
  <2>2. \A i \in UnresolvedIn(l) : a[i] = l[i]
    BY <1>1, <1>3
  <2>3. ErrorListAgrees(s, a)
    BY <2>1, <2>2 DEF ErrorListAgrees
  <2>. QED
    BY <1>5, <2>3 DEF a
<1>. QED
  BY <1>4, <1>5

LEMMA ErrorsRecorded ==
    ASSUME NEW t \in Task, NEW l \in Seq(Entry), ErrorsAgree(t, l), NEW e \in Entry
    PROVE  ErrorsAgree(Recorded(t, e), Append(l, e))
<1> DEFINE u == Recorded(t, e)
           r == [cmd |-> e.arg, outcome |-> e.outcome]
<1>0. ErrorListAgrees(t.errors, l)
  BY DEF ErrorsAgree
<1>1. CASE e.kind = "command"
  <2>1. u = RecordCommand(t, e.arg, e.outcome)
    BY <1>1 DEF Recorded
  <2>2. u.errors = IF Fails(e) THEN Trim(Append(t.errors, r))
                   ELSE IF Clears(e) THEN <<>> ELSE t.errors
    <3> DEFINE errors == IF IsError(e.outcome) THEN Trim(Append(t.errors, r))
                         ELSE IF CleanRun(e.arg, e.outcome) THEN <<>> ELSE t.errors
               run    == Trim(Append(t.commands, r))
    <3>1. u = [t EXCEPT !.commands = run, !.errors = errors]
      BY <2>1 DEF RecordCommand
    <3>2. errors = IF Fails(e) THEN Trim(Append(t.errors, r))
                   ELSE IF Clears(e) THEN <<>> ELSE t.errors
      BY <1>1 DEF Fails, Clears
    <3> HIDE DEF errors, run, u
    <3>3. u.errors = errors
      BY <3>1 DEF Task
    <3>. QED
      BY <3>2, <3>3
  <2>3. CASE Fails(e)
    BY <1>0, <2>2, <2>3, ErrorListFails DEF ErrorsAgree
  <2>4. CASE ~Fails(e)
    BY <1>0, <2>2, <2>4, ErrorListOther DEF ErrorsAgree
  <2>. QED
    BY <2>3, <2>4
<1>2. CASE e.kind # "command"
  <2>1. u.errors = t.errors
    <3>1. \A f : NoteInspected(t, f).errors = t.errors
      BY DEF NoteInspected, Task
    <3>2. \A f : NoteModified(t, f).errors = t.errors
      BY DEF NoteModified, Task
    <3>3. \A f : NoteRemoved(t, f).errors = t.errors
      BY DEF NoteRemoved, Task
    <3>4. \A f, g : NoteModified(NoteRemoved(t, f), g).errors = t.errors
      BY DEF NoteModified, NoteRemoved, Task
    <3>5. \A o : NoteGit(t, o).errors = t.errors
      BY DEF NoteGit, Task
    <3>6. e.kind \in {"read", "edit", "delete", "rename", "git"}
      BY <1>2 DEF Entry, Effects
    <3>. QED
      BY <3>1, <3>2, <3>3, <3>4, <3>5, <3>6 DEF Recorded
  <2>2. ~Fails(e) /\ ~Clears(e)
    BY <1>2 DEF Fails, Clears
  <2>. QED
    BY <1>0, <2>1, <2>2, ErrorListOther DEF ErrorsAgree
<1>. QED
  BY <1>1, <1>2

-----------------------------------------------------------------------------
(* Types.  TypeOK is not inductive: what is recorded is typed because the  *)
(* call behind it was, from the proposal to its event.                     *)
SessionInv ==
    /\ TypeOK
    /\ pc \in {"asked", "approved"} =>
         /\ Whole(call) /\ call.to \in Path \cup {None}
         /\ call.kind = "plan" => call.arg \in MinSteps..MaxSteps
    /\ log \in Seq(Entry)

LEMMA UpdatedTyped ==
    ASSUME NEW t \in Task, NEW i \in 1..Len(t.plan), NEW s \in Statuses
    PROVE  /\ UpdateStep(t, i, s) \in Task
           /\ UpdateStep(t, i, s).inspected = t.inspected
           /\ UpdateStep(t, i, s).modified = t.modified
           /\ UpdateStep(t, i, s).errors = t.errors
<1>1. t.plan \in Plan
  BY DEF Task, NoPlan
<1> DEFINE p == [t.plan EXCEPT ![i] = s]
<1>2. p \in Plan
  BY <1>1 DEF Plan
<1>3. UpdateStep(t, i, s) = [t EXCEPT !.plan = p]
  BY DEF UpdateStep
<1> HIDE DEF p
<1>. QED
  BY <1>2, <1>3 DEF Task

LEMMA AdoptedTyped ==
    ASSUME NEW t \in Task, NEW n \in MinSteps..MaxSteps
    PROVE  /\ [t EXCEPT !.plan = Proposed(n)] \in Task
           /\ [t EXCEPT !.plan = Proposed(n)].inspected = t.inspected
           /\ [t EXCEPT !.plan = Proposed(n)].modified = t.modified
           /\ [t EXCEPT !.plan = Proposed(n)].errors = t.errors
<1>1. n \in Nat
  BY MemoryAssumption
<1>2. Proposed(n) \in Plan
  BY <1>1 DEF Proposed, Plan, Statuses
<1> DEFINE p == Proposed(n)
<1> HIDE DEF p
<1>3. p \in Plan
  BY <1>2 DEF p
<1>4. /\ [t EXCEPT !.plan = p] \in Task
      /\ [t EXCEPT !.plan = p].inspected = t.inspected
      /\ [t EXCEPT !.plan = p].modified = t.modified
      /\ [t EXCEPT !.plan = p].errors = t.errors
  BY <1>3 DEF Task
<1>. QED
  BY <1>4 DEF p

LEMMA TrimmedTyped ==
    ASSUME NEW S, NEW s \in Seq(S), NEW e \in S
    PROVE  Trim(Append(s, e)) \in Seq(S)
  BY TrimmedAppend

(* The lists of a task after one of its methods.                           *)
LEMMA InspectedTyped ==
    ASSUME NEW t \in Task, NEW f \in Path
    PROVE  NoteInspected(t, f) \in Task
<1> DEFINE r == RemoveFirst(t.inspected, f)
           q == Trim(Append(r, f))
<1>1. t.inspected \in Seq(Path)
  BY DEF Task
<1>2. r \in Seq(Path)
  BY <1>1, RemovedFirst
<1> HIDE DEF r
<1>3. q \in Seq(Path)
  BY <1>2, TrimmedTyped
<1>4. NoteInspected(t, f) = [t EXCEPT !.inspected = q]
  BY DEF NoteInspected, r, q
<1> HIDE DEF q
<1>. QED
  BY <1>3, <1>4 DEF Task

LEMMA ModifiedTyped ==
    ASSUME NEW t \in Task, NEW f \in Path
    PROVE  NoteModified(t, f) \in Task
<1> DEFINE r == RemoveFirst(t.inspected, f)
           q == IF Listed(f, t.modified) THEN t.modified ELSE Trim(Append(t.modified, f))
<1>1. t.inspected \in Seq(Path) /\ t.modified \in Seq(Path)
  BY DEF Task
<1>2. r \in Seq(Path)
  BY <1>1, RemovedFirst
<1>3. q \in Seq(Path)
  BY <1>1, TrimmedTyped
<1>4. NoteModified(t, f) = [t EXCEPT !.modified = q, !.inspected = r]
  BY DEF NoteModified
<1> HIDE DEF r, q
<1>. QED
  BY <1>2, <1>3, <1>4 DEF Task

LEMMA RemovedTyped ==
    ASSUME NEW t \in Task, NEW f \in Path
    PROVE  NoteRemoved(t, f) \in Task
<1> DEFINE r == RemoveFirst(t.inspected, f)
           q == RemoveFirst(t.modified, f)
<1>1. t.inspected \in Seq(Path) /\ t.modified \in Seq(Path)
  BY DEF Task
<1>2. r \in Seq(Path) /\ q \in Seq(Path)
  BY <1>1, RemovedFirst
<1>3. NoteRemoved(t, f) = [t EXCEPT !.inspected = r, !.modified = q]
  BY DEF NoteRemoved
<1> HIDE DEF r, q
<1>. QED
  BY <1>2, <1>3 DEF Task

LEMMA CommandTyped ==
    ASSUME NEW t \in Task, NEW c \in Command, NEW o \in Outcomes
    PROVE  RecordCommand(t, c, o) \in Task
<1> DEFINE r == [cmd |-> c, outcome |-> o]
           q == Trim(Append(t.commands, r))
           p == IF IsError(o) THEN Trim(Append(t.errors, r))
                ELSE IF CleanRun(c, o) THEN <<>> ELSE t.errors
<1>1. t.commands \in Seq(Run) /\ t.errors \in Seq(Run)
  BY DEF Task, Run
<1>2. r \in Run
  BY DEF Run
<1>3. RecordCommand(t, c, o) = [t EXCEPT !.commands = q, !.errors = p]
  BY DEF RecordCommand
<1> HIDE DEF r
<1>4. q \in Seq(Run) /\ Trim(Append(t.errors, r)) \in Seq(Run) /\ <<>> \in Seq(Run)
  BY <1>1, <1>2, TrimmedTyped
<1>5. p \in Seq(Run)
  BY <1>1, <1>4
<1> HIDE DEF q, p
<1>. QED
  BY <1>3, <1>4, <1>5 DEF Task, Run

LEMMA GitTyped ==
    ASSUME NEW t \in Task, NEW o \in GitOp
    PROVE  NoteGit(t, o) \in Task
<1> DEFINE q == Trim(Append(t.git, o))
<1>1. t.git \in Seq(GitOp)
  BY DEF Task
<1>2. q \in Seq(GitOp)
  BY <1>1, TrimmedTyped
<1>3. NoteGit(t, o) = [t EXCEPT !.git = q]
  BY DEF NoteGit
<1> HIDE DEF q
<1>. QED
  BY <1>2, <1>3 DEF Task

LEMMA RecordedTyped ==
    ASSUME NEW t \in Task, NEW e \in Entry
    PROVE  Recorded(t, e) \in Task
<1>1. /\ Whole(e) /\ e.kind \in {"read", "edit", "delete", "rename", "command", "git"}
      /\ e.kind = "command" => e.outcome \in Outcomes
  BY DEF Entry, Effects
<1>2. CASE e.kind = "read"
  BY <1>1, <1>2, InspectedTyped DEF Recorded, Whole
<1>3. CASE e.kind = "edit"
  BY <1>1, <1>3, ModifiedTyped DEF Recorded, Whole
<1>4. CASE e.kind = "delete"
  BY <1>1, <1>4, RemovedTyped DEF Recorded, Whole
<1>5. CASE e.kind = "rename"
  <2>1. NoteRemoved(t, e.arg) \in Task
    BY <1>1, <1>5, RemovedTyped DEF Whole
  <2>. QED
    BY <1>1, <1>5, <2>1, ModifiedTyped DEF Recorded, Whole
<1>6. CASE e.kind = "command"
  BY <1>1, <1>6, CommandTyped DEF Recorded, Whole
<1>7. CASE e.kind = "git"
  BY <1>1, <1>7, GitTyped DEF Recorded, Whole
<1>. QED
  BY <1>1, <1>2, <1>3, <1>4, <1>5, <1>6, <1>7

(* A reply of the model: what of the types it keeps.                       *)
Kinds == Gated \cup {"read", "update", "none"}

LEMMA ReplyTyped ==
    ASSUME SessionInv, WholeInv, NEW c, c.kind \in Kinds, Reply(c)
    PROVE  /\ mode' \in {"manual", "auto"}
           /\ messages' \in Seq([turn : 1..MaxTurns, role : Roles])
           /\ turn' \in 0..MaxTurns /\ before' \in Nat /\ aborted' \subseteq 1..MaxTurns
           /\ approveAll' \in BOOLEAN
           /\ call' = c /\ call'.kind \in Kinds
           /\ files' \subseteq File /\ torn' \in BOOLEAN /\ calls' \in 0..MaxCalls
           /\ pc = "model" /\ owed = FALSE
<1>1. turn \in 1..MaxTurns
  BY SessionAssumption DEF SessionInv, TypeOK, WholeInv, Numbered, Reply
<1>2. Message("assistant") \in [turn : 1..MaxTurns, role : Roles]
  BY <1>1 DEF Message, Roles
<1>3. calls' \in 0..MaxCalls
  <2>1. calls + turn <= MaxCalls /\ calls' = calls + 1 /\ calls \in Nat
    BY SessionAssumption DEF SessionInv, TypeOK, Reply
  <2>. QED
    BY <1>1, <2>1, SessionAssumption
<1>. QED
  BY <1>2, <1>3 DEF SessionInv, TypeOK, Reply, Turn, Roles

(* A step of the turn that leaves the conversation alone, or adds to it.   *)
LEMMA SpokenTyped ==
    ASSUME SessionInv, WholeInv, pc # "prompt", NEW r \in Roles
    PROVE  Append(messages, Message(r)) \in Seq([turn : 1..MaxTurns, role : Roles])
<1>1. turn \in 1..MaxTurns
  BY SessionAssumption DEF SessionInv, TypeOK, WholeInv, Numbered
<1>2. Message(r) \in [turn : 1..MaxTurns, role : Roles]
  BY <1>1 DEF Message
<1>. QED
  BY <1>2 DEF SessionInv, TypeOK, Roles

LEMMA SessionInitial == Init => SessionInv
<1>. SUFFICES ASSUME Init
              PROVE  SessionInv
  OBVIOUS
<1>1. NewTask \in Task
  BY DEF NewTask, Task, NoPlan
<1>2. 0 \in 0..MaxTurns /\ 0 \in 0..MaxCalls
  BY SessionAssumption
<1>3. /\ <<>> \in Seq([turn : 1..MaxTurns, role : {"user", "assistant", "tool"}])
      /\ <<>> \in Seq(Effects) /\ <<>> \in Seq(Entry)
  OBVIOUS
<1>4. pc = "prompt" /\ owed = FALSE /\ NoCall.kind = "none" /\ call = NoCall
  BY DEF Init, NoCall, Call
<1>5. /\ mode = "manual" /\ messages = <<>> /\ turn = 0 /\ before = 0 /\ aborted = {}
      /\ approveAll = FALSE /\ task = NewTask /\ files \in SUBSET File
      /\ log = <<>> /\ torn = FALSE /\ calls = 0
  BY DEF Init
<1>. QED
  BY <1>1, <1>2, <1>3, <1>4, <1>5 DEF SessionInv, TypeOK

LEMMA ProposedTyped ==
    ASSUME SessionInv, WholeInv, NEW kind \in Gated, NEW arg, NEW to \in Path \cup {None},
           Propose(kind, arg, to), Whole(Call(kind, arg, to)),
           kind = "plan" => arg \in MinSteps..MaxSteps
    PROVE  SessionInv'
<1> DEFINE c == Call(kind, arg, to)
<1>1. Reply(c) /\ c.kind = kind /\ c.arg = arg /\ c.to = to /\ kind \in Kinds
  BY DEF Propose, Call, Kinds
<1>2. UNCHANGED <<task, log>> /\ owed' = FALSE /\ pc' \in {"asked", "approved"}
  BY DEF Propose
<1> HIDE DEF c
<1>3. Whole(c)
  BY DEF c
<1>. QED
  BY <1>1, <1>2, <1>3, ReplyTyped DEF SessionInv, TypeOK, Roles, Kinds

LEMMA PerformedTyped ==
    ASSUME SessionInv, NEW o \in Outcomes \cup {"none", "unverified"}, NEW done \in BOOLEAN,
           Perform(o, done), task' \in Task, files' \subseteq File,
           done => call.kind \in {"edit", "delete", "rename", "git"}
                   \/ (call.kind = "command" /\ o \in Outcomes),
           o = "unverified" => call.kind = "edit"
    PROVE  SessionInv'
<1> DEFINE e == [kind |-> call.kind, arg |-> call.arg, to |-> call.to, outcome |-> o]
<1>1. /\ pc = "approved" /\ pc' = "event" /\ owed' = done
      /\ log' = IF done \/ o = "unverified" THEN Append(log, e) ELSE log
      /\ UNCHANGED <<mode, turn, before, aborted, messages, approveAll, call, torn, calls>>
  BY DEF Perform, Turn
<1>2. Whole(call) /\ call.to \in Path \cup {None}
  BY <1>1 DEF SessionInv
<1>3. done \/ o = "unverified" => e \in Entry
  BY <1>2 DEF Whole, Entry, Effects
<1> HIDE DEF e
<1>4. log' \in Seq(Entry) /\ (done => log' # <<>>)
  BY <1>1, <1>3 DEF SessionInv
<1>5. log' \in Seq(Effects)
  BY <1>4 DEF Entry
<1>. QED
  BY <1>1, <1>4, <1>5 DEF SessionInv, TypeOK

LEMMA SessionInductive == SessionInv /\ WholeInv /\ [Next]_vars => SessionInv'
<1>. SUFFICES ASSUME SessionInv, WholeInv, [Next]_vars
              PROVE  SessionInv'
  OBVIOUS
<1>1. CASE BeginTurn
  <2>1. turn' \in 1..MaxTurns /\ Len(messages) \in Nat
    BY <1>1, SessionAssumption DEF BeginTurn, SessionInv, TypeOK
  <2>2. [turn |-> turn', role |-> "user"] \in [turn : 1..MaxTurns, role : Roles]
    BY <2>1 DEF Roles
  <2>3. messages' \in Seq([turn : 1..MaxTurns, role : Roles])
    BY <1>1, <2>2 DEF BeginTurn, SessionInv, TypeOK, Roles
  <2>4. /\ UNCHANGED <<mode, call, owed, task, files, log, torn, calls, aborted>>
        /\ pc = "prompt" /\ pc' = "model" /\ before' = Len(messages) /\ approveAll' = FALSE
    BY <1>1 DEF BeginTurn, memory
  <2>5. turn' \in 0..MaxTurns /\ owed' = FALSE /\ before' \in Nat
    BY <2>1, <2>4, SessionAssumption DEF SessionInv, TypeOK
  <2>. QED
    BY <2>3, <2>4, <2>5 DEF SessionInv, TypeOK, Roles
<1>2. CASE FreshSession
  <2>1. NewTask \in Task
    BY DEF NewTask, Task, NoPlan
  <2>2. calls' \in 0..MaxCalls
    BY <1>2, SessionAssumption DEF FreshSession, SessionInv, TypeOK
  <2>3. /\ UNCHANGED <<mode, pc, turn, before, aborted, approveAll, call, owed, files>>
        /\ task' = NewTask /\ log' = <<>> /\ torn' = FALSE /\ messages' = <<>>
        /\ pc = "prompt"
    BY <1>2 DEF FreshSession
  <2>4. owed' = FALSE
    BY <2>3 DEF SessionInv, TypeOK
  <2>5. /\ <<>> \in Seq([turn : 1..MaxTurns, role : {"user", "assistant", "tool"}])
        /\ <<>> \in Seq(Effects) /\ <<>> \in Seq(Entry)
    OBVIOUS
  <2>. QED
    BY <2>1, <2>2, <2>3, <2>4, <2>5 DEF SessionInv, TypeOK
<1>3. CASE \E m \in {"manual", "auto"} : SetMode(m)
  BY <1>3 DEF SetMode, convo, memory, SessionInv, TypeOK
<1>4. ASSUME NEW answered \in BOOLEAN, EndTurn(answered)
      PROVE  SessionInv'
  <2>1. "assistant" \in Roles /\ pc # "prompt"
    BY <1>4 DEF EndTurn, Roles
  <2>2. Append(messages, Message("assistant")) \in Seq([turn : 1..MaxTurns, role : Roles])
    BY <2>1, SpokenTyped
  <2>3. messages' \in Seq([turn : 1..MaxTurns, role : Roles])
    BY <1>4, <2>2 DEF EndTurn, SessionInv, TypeOK, Roles
  <2>4. /\ UNCHANGED <<mode, turn, before, aborted, approveAll, call, owed,
                       task, files, log, torn, calls>>
        /\ pc = "model" /\ pc' = "prompt"
    BY <1>4 DEF EndTurn, Turn, memory
  <2>. QED
    BY <2>3, <2>4 DEF SessionInv, TypeOK, Roles
<1>5. ASSUME NEW f \in Path, Read(f)
      PROVE  SessionInv'
  <2> DEFINE e == [kind |-> "read", arg |-> f, to |-> None, outcome |-> "none"]
  <2>1. Reply(Call("read", f, None)) /\ Call("read", f, None).kind \in Kinds
    BY <1>5 DEF Read, Call, Kinds
  <2>2. e \in Entry
    BY DEF Entry, Effects, Whole
  <2>3. log' \in Seq(Entry) /\ log' \in Seq(Effects) /\ log' # <<>>
    <3>1. log' = Append(log, e)
      BY <1>5 DEF Read
    <3> HIDE DEF e
    <3>2. log' \in Seq(Entry) /\ log' # <<>>
      BY <2>2, <3>1 DEF SessionInv
    <3>. QED
      BY <3>2 DEF Entry
  <2>4. owed' = TRUE /\ pc' = "event" /\ task' = task
    BY <1>5 DEF Read
  <2>. QED
    BY <2>1, <2>3, <2>4, ReplyTyped DEF SessionInv, TypeOK, Roles, Kinds
<1>6. ASSUME NEW i \in 1..MaxSteps, NEW s \in Statuses, UpdatePlan(i, s)
      PROVE  SessionInv'
  <2>1. Reply(Call("update", None, None)) /\ Call("update", None, None).kind \in Kinds
    BY <1>6 DEF UpdatePlan, Call, Kinds
  <2>2. task' \in Task
    BY <1>6, UpdatedTyped DEF UpdatePlan, SessionInv, TypeOK
  <2>3. owed' = FALSE /\ pc' = "event" /\ log' = log
    BY <1>6 DEF UpdatePlan
  <2>. QED
    BY <2>1, <2>2, <2>3, ReplyTyped DEF SessionInv, TypeOK, Roles, Kinds
<1>7. CASE OtherCall
  <2>1. Reply(NoCall) /\ NoCall.kind \in Kinds
    BY <1>7 DEF OtherCall, NoCall, Call, Kinds
  <2>2. owed' = FALSE /\ pc' = "event" /\ log' = log /\ task' = task
    BY <1>7 DEF OtherCall
  <2>. QED
    BY <2>1, <2>2, ReplyTyped DEF SessionInv, TypeOK, Roles, Kinds
<1>8. CASE ProposeFile
  <2>1. PICK f \in Path :
          \/ Propose("edit", f, None)
          \/ FileOf[f] \in files /\ Propose("delete", f, None)
          \/ FileOf[f] \in files /\ \E g \in {q \in Path : FileOf[q] \notin files} :
               Propose("rename", f, g)
    BY <1>8 DEF ProposeFile
  <2>2. {"edit", "delete", "rename"} \subseteq Gated
    BY DEF Gated
  <2>3. Whole(Call("edit", f, None)) /\ Whole(Call("delete", f, None))
    BY DEF Whole, Call
  <2>4. \A g \in Path : FileOf[g] \notin files /\ FileOf[f] \in files
                       => Whole(Call("rename", f, g))
    BY DEF Whole, Call
  <2>. QED
    BY <2>1, <2>2, <2>3, <2>4, ProposedTyped
<1>9. CASE ProposePlan
  <2>1. PICK n \in MinSteps..MaxSteps : Propose("plan", n, None)
    BY <1>9 DEF ProposePlan
  <2>2. "plan" \in Gated /\ Whole(Call("plan", n, None))
    BY DEF Gated, Whole, Call
  <2>. QED
    BY <2>1, <2>2, ProposedTyped
<1>10. CASE ProposeCommand \/ ProposeGit
  <2>1. "command" \in Gated /\ "git" \in Gated
    BY DEF Gated
  <2>2. /\ \A c \in Command : Whole(Call("command", c, None))
        /\ \A o \in GitOp : Whole(Call("git", o, None))
    BY DEF Whole, Call
  <2>. QED
    BY <1>10, <2>1, <2>2, ProposedTyped DEF ProposeCommand, ProposeGit
<1>11. ASSUME NEW word \in Words, Answer(word)
       PROVE  SessionInv'
  <2>1. /\ UNCHANGED <<mode, turn, before, aborted, messages, call, owed,
                       task, files, log, torn, calls>>
        /\ pc = "asked" /\ pc' \in {"approved", "event"}
    BY <1>11 DEF Answer, Turn, memory
  <2>2. approveAll' \in BOOLEAN
    BY <1>11 DEF Answer, SessionInv, TypeOK
  <2>. QED
    BY <2>1, <2>2 DEF SessionInv, TypeOK
<1>12. CASE ApplyToFiles
  <2>1. PICK o \in {"none", "unverified"}, done \in BOOLEAN :
          Perform(o, done) /\ (o = "unverified" => call.kind = "edit")
    BY <1>12 DEF ApplyToFiles
  <2>2. task' = task /\ call.kind \in {"edit", "delete", "rename"} /\ Whole(call)
    BY <1>12 DEF ApplyToFiles, OfFiles, Perform, SessionInv
  <2>3. files' \subseteq File
    BY <1>12, <2>2 DEF ApplyToFiles, Whole, SessionInv, TypeOK, File
  <2>4. o \in Outcomes \cup {"none", "unverified"}
    OBVIOUS
  <2>. QED
    BY <2>1, <2>4, <2>2, <2>3, PerformedTyped DEF SessionInv, TypeOK
<1>13. CASE AdoptPlan
  <2>1. Perform("none", FALSE) /\ files' = files
    BY <1>13 DEF AdoptPlan
  <2>2. call.arg \in MinSteps..MaxSteps
    BY <1>13 DEF AdoptPlan, Perform, SessionInv
  <2>3. task' \in Task
    BY <1>13, <2>2, AdoptedTyped DEF AdoptPlan, SessionInv, TypeOK
  <2>. QED
    BY <2>1, <2>3, PerformedTyped DEF SessionInv, TypeOK
<1>14. ASSUME NEW o \in Outcomes \ {"cancelled"}, RunCommand(o)
       PROVE  SessionInv'
  BY <1>14, PerformedTyped DEF RunCommand, Outcomes, SessionInv, TypeOK
<1>15. ASSUME NEW ok \in BOOLEAN, ApplyGit(ok)
       PROVE  SessionInv'
  BY <1>15, PerformedTyped DEF ApplyGit, SessionInv, TypeOK
<1>16. CASE Resume
  <2>1. "tool" \in Roles /\ pc # "prompt"
    BY <1>16 DEF Resume, Roles
  <2>2. messages' \in Seq([turn : 1..MaxTurns, role : Roles])
    BY <1>16, <2>1, SpokenTyped DEF Resume
  <2>3. /\ UNCHANGED <<mode, turn, before, aborted, approveAll, files, log, torn, calls>>
        /\ pc' = "model" /\ call' = NoCall /\ owed' = FALSE
        /\ task' = IF owed THEN Recorded(task, log[Len(log)]) ELSE task
    BY <1>16 DEF Resume, Turn
  <2>4. owed => log[Len(log)] \in Entry
    BY DEF SessionInv, TypeOK
  <2>5. task' \in Task
    BY <2>3, <2>4, RecordedTyped DEF SessionInv, TypeOK
  <2>6. call'.kind \in Kinds
    BY <2>3 DEF NoCall, Call, Kinds
  <2>. QED
    BY <2>2, <2>3, <2>5, <2>6 DEF SessionInv, TypeOK, Roles, Kinds
<1>17. CASE Interrupt
  <2>1. /\ pc # "prompt" /\ pc' = "prompt" /\ messages' = SubSeq(messages, 1, before)
        /\ aborted' = aborted \cup {turn} /\ torn' = (torn \/ owed)
        /\ call' = NoCall /\ owed' = FALSE
        /\ UNCHANGED <<mode, turn, before, approveAll, task, files, log, calls>>
    BY <1>17 DEF Interrupt
  <2>2. turn \in 1..MaxTurns /\ before < Len(messages) /\ before \in Nat
    BY <2>1, SessionAssumption DEF SessionInv, TypeOK, WholeInv, Numbered, InTurn
  <2>3. messages \in Seq([turn : 1..MaxTurns, role : Roles]) /\ Len(messages) \in Nat
    BY DEF SessionInv, TypeOK, Roles
  <2>4. \A i \in 1..before : messages[i] \in [turn : 1..MaxTurns, role : Roles]
    <3>1. \A i \in 1..before : i \in 1..Len(messages)
      BY <2>2, <2>3
    <3>. QED
      BY <2>3, <3>1, ElementOfSeq
  <2>5. messages' \in Seq([turn : 1..MaxTurns, role : Roles])
    BY <2>1, <2>2, <2>4, SubSeqProperties
  <2>6. call'.kind \in Kinds /\ aborted' \subseteq 1..MaxTurns /\ torn' \in BOOLEAN
    BY <2>1, <2>2 DEF NoCall, Call, Kinds, SessionInv, TypeOK
  <2>. QED
    BY <2>1, <2>5, <2>6 DEF SessionInv, TypeOK, Roles, Kinds
<1>18. CASE UNCHANGED vars
  BY <1>18 DEF vars, convo, memory, SessionInv, TypeOK
<1>. QED
  BY <1>1, <1>2, <1>3, <1>4, <1>5, <1>6, <1>7, <1>8, <1>9, <1>10, <1>11, <1>12, <1>13,
     <1>14, <1>15, <1>16, <1>17, <1>18 DEF Next, Prompt, Model, Apply

(* For any session: every variable stays within its type, and an effect is *)
(* owed to the memory only at its event (cli.py, task_state.py).           *)
THEOREM SessionTyped == Spec => []TypeOK
<1>1. SessionInv => TypeOK
  BY DEF SessionInv
<1>. QED
  BY <1>1, SessionInitial, SessionInductive, WholeInitial, WholeInductive, PTL DEF Spec

-----------------------------------------------------------------------------
(* The memory and the log.  FilesMatchLog and ErrorsMatchLog are about the *)
(* moments when nothing is owed; in between, the memory agrees with the    *)
(* log up to the effect that is owed.                                      *)
Behind == IF owed THEN SubSeq(log, 1, Len(log) - 1) ELSE log

Agrees(t, l) == FilesAgree(t, l) /\ ErrorsAgree(t, l)

MemoryInv == ~torn => Agrees(task, Behind)

LEMMA WithoutLast ==
    ASSUME NEW S, NEW l \in Seq(S), l # <<>>
    PROVE  LET front == SubSeq(l, 1, Len(l) - 1)
           IN  /\ front \in Seq(S) /\ l = Append(front, l[Len(l)])
               /\ l[Len(l)] \in S
<1> DEFINE n == Len(l)
           front == SubSeq(l, 1, n - 1)
<1>1. n \in Nat /\ n > 0 /\ \A i \in 1..n : l[i] \in S
  BY EmptySeq, LenProperties, ElementOfSeq
<1>2. /\ front \in Seq(S)
      /\ Len(front) = IF 1 <= n - 1 THEN (n - 1) - 1 + 1 ELSE 0
      /\ \A i \in 1..((n - 1) - 1 + 1) : front[i] = l[1 + i - 1]
  <2>1. \A i \in 1..(n - 1) : l[i] \in S
    BY <1>1
  <2>. QED
    BY <1>1, <2>1, SubSeqProperties
<1> HIDE DEF front
<1> HIDE DEF n
<1>3. Len(front) = n - 1 /\ \A i \in 1..(n - 1) : front[i] = l[i]
  <2>1. (n - 1) - 1 + 1 = n - 1 /\ (~(1 <= n - 1) => n - 1 = 0)
    BY <1>1
  <2>2. \A i \in 1..(n - 1) : 1 + i - 1 = i
    BY <1>1
  <2>. QED
    BY <1>2, <2>1, <2>2
<1>4. n \in 1..n
  BY <1>1
<1>5. l[n] \in S
  BY <1>1, <1>4
<1> DEFINE a == Append(front, l[n])
<1>6. /\ a \in Seq(S) /\ Len(a) = (n - 1) + 1 /\ a[(n - 1) + 1] = l[n]
      /\ \A i \in 1..(n - 1) : a[i] = front[i]
  BY <1>2, <1>3, <1>5, AppendProperties
<1> HIDE DEF a
<1>7. Len(a) = n /\ \A i \in 1..n : a[i] = l[i]
  <2>1. (n - 1) + 1 = n /\ \A i \in 1..n : i = n \/ i \in 1..(n - 1)
    BY <1>1
  <2>. QED
    BY <1>3, <1>6, <2>1
<1>8. l = a
  BY <1>6, <1>7, SeqEqual DEF n
<1>. QED
  BY <1>2, <1>5, <1>8 DEF a, front, n

LEMMA FrontOfAppend ==
    ASSUME NEW S, NEW l \in Seq(S), NEW e \in S
    PROVE  SubSeq(Append(l, e), 1, Len(Append(l, e)) - 1) = l
<1>1. Append(l, e) \in Seq(S) /\ Append(l, e) # <<>> /\ Len(l) \in Nat
  BY AppendProperties, LenProperties
<1> DEFINE a == Append(l, e)
           f == SubSeq(a, 1, Len(a) - 1)
<1>2. f \in Seq(S) /\ a = Append(f, a[Len(a)])
  BY <1>1, WithoutLast
<1>3. Len(a) = Len(l) + 1 /\ \A i \in 1..Len(l) : a[i] = l[i]
  BY AppendProperties
<1> HIDE DEF a, f
<1>4. /\ Len(f) \in Nat /\ Len(a) = Len(f) + 1
      /\ \A i \in 1..Len(f) : a[i] = f[i]
  <2>1. a[Len(a)] \in S
    BY <1>1, WithoutLast DEF a
  <2>. QED
    BY <1>2, <2>1, AppendProperties, LenProperties
<1>5. Len(f) = Len(l)
  BY <1>1, <1>3, <1>4
<1>6. \A i \in 1..Len(l) : f[i] = l[i]
  BY <1>3, <1>4, <1>5
<1>7. f = l
  BY <1>2, <1>5, <1>6, SeqEqual
<1>. QED
  BY <1>7 DEF a, f

LEMMA NothingRemembered == Agrees(NewTask, <<>>)
<1>1. Len(<<>>) = 0 /\ \A x : ~Listed(x, <<>>)
  BY DEF Listed
<1>2. FilesAgree(NewTask, <<>>)
  BY <1>1 DEF NewTask, FilesAgree, FileListsAgree, Distinct, ReadIn, ChangedIn,
              UnsureIn, TouchingIn, ChangingIn
<1>3. UnresolvedIn(<<>>) = {} /\ Cardinality(UnresolvedIn(<<>>)) = 0
  <2>1. UnresolvedIn(<<>>) = {}
    BY <1>1 DEF UnresolvedIn
  <2>. QED
    BY <2>1, FS_EmptySet
<1>4. ~(0 > MaxStored) /\ <<>> \in Seq(Run)
  BY MemoryAssumption
<1>5. ErrorListAgrees(<<>>, <<>>)
  BY <1>1, <1>3, <1>4 DEF ErrorListAgrees
<1>. QED
  BY <1>2, <1>5 DEF Agrees, ErrorsAgree, NewTask

LEMMA MemoryInitial == Init => MemoryInv
  BY NothingRemembered DEF Init, MemoryInv, Behind

(* A step that neither does nor records anything.                          *)
LEMMA IdleStep ==
    ASSUME MemoryInv, ~owed, ~owed', UNCHANGED <<log, torn>>,
           task'.inspected = task.inspected, task'.modified = task.modified,
           task'.errors = task.errors
    PROVE  MemoryInv'
  BY DEF MemoryInv, Behind, Agrees, FilesAgree, ErrorsAgree

(* One that does something, which is still to be recorded.                 *)
LEMMA OwingStep ==
    ASSUME MemoryInv, log \in Seq(Entry), ~owed, owed' = TRUE,
           NEW e \in Entry, log' = Append(log, e), UNCHANGED <<task, torn>>
    PROVE  MemoryInv'
<1>1. Behind = log
  BY DEF Behind
<1>2. Behind' = log
  BY FrontOfAppend DEF Behind
<1>. QED
  BY <1>1, <1>2 DEF MemoryInv

LEMMA MemoryPerformed ==
    ASSUME SessionInv, MemoryInv, SessionInv', NEW o, NEW done \in BOOLEAN,
           Perform(o, done), done => task' = task,
           o = "unverified" => ~done,
           task'.inspected = task.inspected, task'.modified = task.modified,
           task'.errors = task.errors
    PROVE  MemoryInv'
<1> DEFINE e == [kind |-> call.kind, arg |-> call.arg, to |-> call.to, outcome |-> o]
<1>1. /\ pc = "approved" /\ owed' = done /\ torn' = torn
      /\ log' = IF done \/ o = "unverified" THEN Append(log, e) ELSE log
      /\ e.outcome = o
  BY DEF Perform
<1>2. owed = FALSE /\ log \in Seq(Entry) /\ log' \in Seq(Entry)
  BY <1>1 DEF SessionInv, TypeOK
<1>3. ASSUME log' = Append(log, e)
      PROVE  e \in Entry
  <2> HIDE DEF e
  <2>1. log \in Seq(Effects)
    BY DEF SessionInv, TypeOK
  <2>2. /\ Len(log) \in Nat /\ Append(log, e) # <<>>
        /\ Len(Append(log, e)) = Len(log) + 1 /\ Append(log, e)[Len(log) + 1] = e
    BY <1>2
  <2>3. Len(log) + 1 \in 1..Len(log')
    BY <1>3, <2>2
  <2>. QED
    BY <1>2, <1>3, <2>2, <2>3, ElementOfSeq
<1> HIDE DEF e
<1>4. CASE done
  BY <1>1, <1>2, <1>3, <1>4, OwingStep
<1>5. CASE ~done /\ o # "unverified"
  BY <1>1, <1>2, <1>5, IdleStep
<1>6. CASE ~done /\ o = "unverified"
  <2>1. /\ log' = Append(log, e) /\ e \in Entry /\ e.outcome = "unverified"
        /\ Behind = log /\ Behind' = log'
    BY <1>1, <1>2, <1>3, <1>6 DEF Behind
  <2>2. FilesAgree(task, log) => FilesAgree(task', log')
    BY <1>2, <2>1, FilesAgreeUnverified DEF FilesAgree
  <2>3. ~Fails(e) /\ ~Clears(e)
    BY <2>1 DEF Entry, Fails, Clears
  <2>4. ErrorsAgree(task, log) => ErrorsAgree(task', log')
    BY <1>2, <2>1, <2>3, ErrorListOther DEF ErrorsAgree
  <2>. QED
    BY <1>1, <2>1, <2>2, <2>4 DEF MemoryInv, Agrees
<1>. QED
  BY <1>4, <1>5, <1>6

LEMMA MemoryReplied ==
    ASSUME SessionInv, MemoryInv, NEW c, Reply(c), owed' = FALSE, log' = log,
           task'.inspected = task.inspected, task'.modified = task.modified,
           task'.errors = task.errors
    PROVE  MemoryInv'
<1>1. owed = FALSE /\ torn' = torn
  BY DEF Reply, SessionInv, TypeOK
<1>. QED
  BY <1>1, IdleStep

LEMMA MemoryInductive == SessionInv /\ MemoryInv /\ SessionInv' /\ [Next]_vars => MemoryInv'
<1>. SUFFICES ASSUME SessionInv, MemoryInv, SessionInv', [Next]_vars
              PROVE  MemoryInv'
  OBVIOUS
<1>1. CASE FreshSession
  <2>1. task' = NewTask /\ log' = <<>> /\ owed' = FALSE
    BY <1>1 DEF FreshSession, SessionInv, TypeOK
  <2>. QED
    BY <2>1, NothingRemembered DEF MemoryInv, Behind
<1>2. CASE \/ BeginTurn \/ \E m \in {"manual", "auto"} : SetMode(m)
           \/ \E answered \in BOOLEAN : EndTurn(answered)
           \/ \E word \in Words : Answer(word)
           \/ UNCHANGED vars
  <2>1. UNCHANGED <<task, log, torn, owed>>
    BY <1>2 DEF BeginTurn, SetMode, EndTurn, Answer, vars, memory
  <2>. QED
    BY <2>1 DEF MemoryInv, Behind
<1>3. ASSUME NEW f \in Path, Read(f)
      PROVE  MemoryInv'
  <2> DEFINE e == [kind |-> "read", arg |-> f, to |-> None, outcome |-> "none"]
  <2>1. e \in Entry
    BY DEF Entry, Effects, Whole
  <2>2. /\ owed = FALSE /\ owed' = TRUE /\ log' = Append(log, e)
        /\ log \in Seq(Entry) /\ UNCHANGED <<task, torn>>
    BY <1>3 DEF Read, Reply, SessionInv, TypeOK
  <2> HIDE DEF e
  <2>. QED
    BY <2>1, <2>2, OwingStep
<1>4. ASSUME NEW i \in 1..MaxSteps, NEW s \in Statuses, UpdatePlan(i, s)
      PROVE  MemoryInv'
  <2>1. /\ Reply(Call("update", None, None)) /\ owed' = FALSE /\ log' = log
        /\ i \in 1..Len(task.plan) /\ task' = UpdateStep(task, i, s) /\ task \in Task
    BY <1>4 DEF UpdatePlan, SessionInv, TypeOK
  <2>. QED
    BY <2>1, UpdatedTyped, MemoryReplied
<1>5. CASE OtherCall
  BY <1>5, MemoryReplied DEF OtherCall
<1>6. CASE ProposeFile \/ ProposePlan \/ ProposeCommand \/ ProposeGit
  <2>1. ASSUME NEW kind, NEW arg, NEW to, Propose(kind, arg, to)
        PROVE  MemoryInv'
    BY <2>1, MemoryReplied DEF Propose
  <2>. QED
    BY <1>6, <2>1 DEF ProposeFile, ProposePlan, ProposeCommand, ProposeGit
<1>7. CASE \/ ApplyToFiles
           \/ \E o \in Outcomes \ {"cancelled"} : RunCommand(o)
           \/ \E ok \in BOOLEAN : ApplyGit(ok)
  <2>1. \E o, done : /\ done \in BOOLEAN /\ Perform(o, done) /\ task' = task
                     /\ o = "unverified" => ~done
    <3>1. CASE ApplyToFiles
      <4>1. /\ task' = task
            /\ Perform("none", TRUE) \/ Perform("unverified", FALSE) \/ Perform("none", FALSE)
        BY <3>1 DEF ApplyToFiles
      <4>2. "none" # "unverified"
        OBVIOUS
      <4>. QED
        BY <4>1, <4>2, Zenon
    <3>2. CASE \E o \in Outcomes \ {"cancelled"} : RunCommand(o)
      BY <3>2 DEF RunCommand, Outcomes
    <3>3. CASE \E ok \in BOOLEAN : ApplyGit(ok)
      BY <3>3 DEF ApplyGit
    <3>. QED
      BY <1>7, <3>1, <3>2, <3>3
  <2>. QED
    BY <2>1, MemoryPerformed
<1>8. CASE AdoptPlan
  <2>1. /\ Perform("none", FALSE) /\ task' = [task EXCEPT !.plan = Proposed(call.arg)]
        /\ task \in Task /\ call.arg \in MinSteps..MaxSteps
    BY <1>8 DEF AdoptPlan, Perform, SessionInv, TypeOK
  <2>. QED
    BY <2>1, AdoptedTyped, MemoryPerformed
<1>9. CASE Resume
  <2>1. /\ task' = IF owed THEN Recorded(task, log[Len(log)]) ELSE task
        /\ owed' = FALSE /\ UNCHANGED <<log, torn>>
    BY <1>9 DEF Resume
  <2>2. CASE owed
    <3>1. log \in Seq(Entry) /\ log # <<>> /\ task \in Task
      BY <2>2 DEF SessionInv, TypeOK
    <3>2. /\ Behind \in Seq(Entry) /\ log = Append(Behind, log[Len(log)])
          /\ log[Len(log)] \in Entry
      BY <2>2, <3>1, WithoutLast DEF Behind
    <3>3. Agrees(task, Behind) => Agrees(Recorded(task, log[Len(log)]), log)
      <4> DEFINE e == log[Len(log)]
                 front == Behind
      <4>1. front \in Seq(Entry) /\ e \in Entry /\ log = Append(front, e)
        BY <3>2
      <4> HIDE DEF e, front
      <4>2. Agrees(task, front) => Agrees(Recorded(task, e), Append(front, e))
        BY <3>1, <4>1, FilesRecorded, ErrorsRecorded DEF Agrees
      <4>3. Agrees(task, front) => Agrees(Recorded(task, e), log)
        BY <4>1, <4>2
      <4>. QED
        BY <4>3 DEF e, front
    <3>4. Behind' = log
      BY <2>1 DEF Behind
    <3>. QED
      BY <2>1, <2>2, <3>3, <3>4 DEF MemoryInv
  <2>3. CASE ~owed
    BY <2>1, <2>3, IdleStep
  <2>. QED
    BY <2>2, <2>3
<1>10. CASE Interrupt
  BY <1>10 DEF Interrupt, MemoryInv, Behind
<1>. QED
  BY <1>1, <1>2, <1>3, <1>4, <1>5, <1>6, <1>7, <1>8, <1>9, <1>10
     DEF Next, Prompt, Model, Apply

LEMMA MemoryAlways == Spec => [](SessionInv /\ MemoryInv)
<1>1. Init => SessionInv /\ WholeInv /\ MemoryInv
  BY SessionInitial, WholeInitial, MemoryInitial
<1>2. (SessionInv /\ WholeInv /\ MemoryInv) /\ [Next]_vars
        => (SessionInv /\ WholeInv /\ MemoryInv)'
  BY SessionInductive, WholeInductive, MemoryInductive
<1>. QED
  BY <1>1, <1>2, PTL DEF Spec

(* Of a path that the task has named in no other way, the log says the     *)
(* same by the file as by the path.                                        *)
LEMMA NamedByPath ==
    ASSUME log \in Seq(Entry), NEW p \in Path, NamedAlike(p)
    PROVE  /\ CurrentRead(p) <=> ReadIn(log, p)
           /\ Changed(p) <=> ChangedIn(log, p)
           /\ Unsure(p) <=> UnsureIn(log, p)
<1>1. \A e : Names(e, p) => Touches(e, p)
  BY DEF Names, Touches
<1>2. Touching(p) = TouchingIn(log, p)
  BY <1>1 DEF Touching, TouchingIn, NamedAlike
<1>3. Changing(p) = ChangingIn(log, p)
  BY <1>2 DEF Changing, ChangingIn
<1>4. ASSUME NEW i \in ChangingIn(log, p)
      PROVE  Leaves(log[i], p)
               <=> \/ log[i].kind = "edit"
                   \/ log[i].kind = "rename" /\ FileOf[log[i].to] = FileOf[p]
  <2>1. i \in 1..Len(log) /\ Names(log[i], p)
    BY DEF ChangingIn, TouchingIn
  <2>2. log[i] \in Entry
    BY <2>1, ElementOfSeq
  <2>. QED
    BY <2>1, <2>2 DEF Leaves, Names, Entry, Whole
<1> DEFINE C == ChangingIn(log, p)
<1>5. C # {} => LastIn(C) \in C
  <2>1. C \in SUBSET (1..Len(log)) /\ Len(log) \in Nat
    BY LenProperties DEF ChangingIn, TouchingIn
  <2> HIDE DEF C
  <2>. QED
    BY <2>1, LastInSet
<1>6. CurrentRead(p) <=> ReadIn(log, p)
  BY <1>2 DEF CurrentRead, ReadIn
<1>7. Unsure(p) <=> UnsureIn(log, p)
  BY <1>3 DEF Unsure, UnsureIn
<1>8. Changed(p) <=> ChangedIn(log, p)
  BY <1>3, <1>4, <1>5 DEF Changed, ChangedIn
<1>. QED
  BY <1>6, <1>7, <1>8

(* For any sequence of effects, interruptions and fresh sessions, any      *)
(* spellings of the files, and any length of the lists: what the memory    *)
(* says was read or modified is what was, unless an interrupted turn kept  *)
(* an effect from being recorded, an edit that replaced the file was       *)
(* reported as a failure, or the file was also named in another way; and   *)
(* nothing else is missing while the lists hold all paths                  *)
(* (task_state.py:72-97, context_manager.py:70-83, editing.py:516-533).    *)
THEOREM FilesMatch == Spec => []FilesMatchLog
<1>1. SessionInv /\ MemoryInv => FilesMatchLog
  <2>. SUFFICES ASSUME SessionInv, MemoryInv, Calm
                PROVE  FilesMatchLog
    BY DEF FilesMatchLog
  <2>1. FilesAgree(task, log) /\ log \in Seq(Entry)
    BY DEF MemoryInv, Behind, Calm, Agrees, SessionInv
  <2>2. ASSUME NEW p \in Path, NamedAlike(p)
        PROVE  /\ CurrentRead(p) <=> ReadIn(log, p)
               /\ Changed(p) <=> ChangedIn(log, p)
               /\ Unsure(p) <=> UnsureIn(log, p)
    BY <2>1, <2>2, NamedByPath
  <2>. QED
    BY <2>1, <2>2 DEF FilesMatchLog, FilesAgree, FileListsAgree
<1>. QED
  BY <1>1, MemoryAlways, PTL

(* Under the same conditions the errors are the failures since the last    *)
(* clean run of tests, the last MaxStored of them and in their order       *)
(* (task_state.py:103-105, context_manager.py:116-136).                    *)
THEOREM ErrorsMatch == Spec => []ErrorsMatchLog
<1>1. SessionInv /\ MemoryInv => ErrorsMatchLog
  <2>. SUFFICES ASSUME MemoryInv, Calm
                PROVE  ErrorsMatchLog
    BY DEF ErrorsMatchLog
  <2>1. ErrorListAgrees(task.errors, log)
    BY DEF MemoryInv, Behind, Calm, Agrees, ErrorsAgree
  <2>2. Unresolved = UnresolvedIn(log)
    BY DEF Unresolved, UnresolvedIn
  <2>. QED
    BY <2>1, <2>2 DEF ErrorsMatchLog, ErrorListAgrees, After
<1>. QED
  BY <1>1, MemoryAlways, PTL

-----------------------------------------------------------------------------
(* Plans.                                                                  *)
LEMMA AccountedFor ==
    ASSUME NEW p \in Plan
    PROVE  /\ CurrentStep(p) = {} => IsComplete(p) \/ IsBlocked(p)
           /\ IsComplete(p) => CurrentStep(p) = {} /\ ~IsBlocked(p)
<1>1. /\ p \in Seq(Statuses) /\ Len(p) \in Nat
      /\ \A i \in 1..Len(p) : p[i] \in Statuses
  BY DEF Plan
<1>2. Len(p) > 0 /\ p # NoPlan
  BY <1>1, MemoryAssumption DEF Plan, NoPlan
<1>3. \A s : WithStatus(p, s) \in SUBSET Nat
  BY <1>1 DEF WithStatus
<1>4. ASSUME CurrentStep(p) = {}
      PROVE  WithStatus(p, "in_progress") = {} /\ WithStatus(p, "pending") = {}
  BY <1>3, <1>4, Least DEF CurrentStep
<1>5. ASSUME CurrentStep(p) = {}, ~IsBlocked(p)
      PROVE  IsComplete(p)
  BY <1>1, <1>2, <1>4, <1>5 DEF IsBlocked, IsComplete, WithStatus, Statuses
<1>6. ASSUME IsComplete(p)
      PROVE  CurrentStep(p) = {} /\ ~IsBlocked(p)
  <2>1. \A i \in 1..Len(p) : p[i] = "completed"
    BY <1>6 DEF IsComplete, WithStatus
  <2>2. \A s : s # "completed" => WithStatus(p, s) = {}
    BY <2>1 DEF WithStatus
  <2>. QED
    BY <2>2 DEF CurrentStep, IsBlocked
<1>. QED
  BY <1>5, <1>6

(* For plans of any length and any updates in any order: a plan that has   *)
(* no step left to work on is one the user is told is complete or blocked, *)
(* and never both (planner.py, cli.py:416-419).                            *)
THEOREM PlansAccountedFor == Spec => []PlanIsAccountedFor
<1>1. SessionInv => PlanIsAccountedFor
  BY AccountedFor DEF SessionInv, TypeOK, Task, PlanIsAccountedFor, IsComplete
<1>. QED
  BY <1>1, SessionInitial, SessionInductive, WholeInitial, WholeInductive, PTL DEF Spec
=============================================================================
