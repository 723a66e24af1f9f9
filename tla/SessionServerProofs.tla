------------------------- MODULE SessionServerProofs -------------------------
(***************************************************************************)
(* Theorems about SessionServer, for all sets of requests.                 *)
(***************************************************************************)
EXTENDS SessionServer, SequenceTheorems, TLAPS

-----------------------------------------------------------------------------
(* The inductive invariant.                                                *)

(* The lock knows its owner.  The source never records it; that only the   *)
(* thread that took the lock releases it, and that /task/new releases it   *)
(* only when its acquire succeeded, is what this says.                     *)
LockOwned ==
    /\ \A t \in Chats : Driving(t) <=> lock = t
    /\ \A n \in News : pc[n] = "drained" <=> lock = n

IInv ==
    /\ TypeOK
    /\ LockOwned
    /\ TurnOwnsSession

(* The threads' pcs, apart.                                                *)
LEMMA Apart ==
    ASSUME NEW t \in Chats, NEW n \in News
    PROVE  t # n /\ t # NoOne /\ n # NoOne
  BY ThreadAssumption DEF Threads

LEMMA AnswersType ==
    /\ NoAnswer \in Answers
    /\ \A q \in SeenQuestions, approved \in BOOLEAN :
         [approved |-> approved, for |-> q] \in Answers
  <1>1. NoQuestion \in (Chats \cup {NoOne}) \X Nat
    BY DEF NoQuestion
  <1>2. \A q \in SeenQuestions : q \in (Chats \cup {NoOne}) \X Nat
    BY ThreadAssumption DEF SeenQuestions
  <1> QED
    BY <1>1, <1>2 DEF NoAnswer, Answers

-----------------------------------------------------------------------------
(* Types.                                                                  *)

LEMMA TypeInit == Init => TypeOK
  <1> SUFFICES ASSUME Init PROVE TypeOK
    OBVIOUS
  <1>1. NoAnswer \in Answers
    BY AnswersType
  <1>2. <<>> \in Seq(Answers)
    BY EmptySeq
  <1>3. /\ pc \in [Threads -> ChatStates \cup NewStates \cup {"checked"}]
        /\ \A t \in Threads : pc[t] = "new"
    BY DEF Init, ChatStates
  <1> QED
    BY <1>1, <1>2, <1>3 DEF Init, TypeOK, ChatStates, NewStates, Threads

(* A step of one thread keeps the types of all pcs.                        *)
LEMMA AtType ==
    ASSUME TypeOK, NEW t \in Threads, NEW from, NEW to, At(t, from, to),
           t \in Chats => to \in ChatStates,
           t \in Confirms => to \in {"new", "refused", "checked", "done"},
           t \in Stops => to \in {"new", "set", "done"},
           t \in News => to \in NewStates
    PROVE  /\ pc' \in [Threads -> ChatStates \cup NewStates \cup {"checked"}]
           /\ \A c \in Chats : pc'[c] \in ChatStates
           /\ \A k \in Confirms : pc'[k] \in {"new", "refused", "checked", "done"}
           /\ \A s \in Stops : pc'[s] \in {"new", "set", "done"}
           /\ \A n \in News : pc'[n] \in NewStates
           /\ \A u \in Threads : u # t => pc'[u] = pc[u]
           /\ pc[t] = from /\ pc'[t] = to
  <1>1. to \in ChatStates \cup NewStates \cup {"checked"}
    BY DEF Threads, ChatStates, NewStates
  <1> QED
    BY <1>1 DEF At, TypeOK, Threads

LEMMA TypeNext == TypeOK /\ [Next]_vars => TypeOK'
  <1> SUFFICES ASSUME TypeOK, [Next]_vars PROVE TypeOK'
    OBVIOUS
  <1> USE ThreadAssumption
  <1>a. NoAnswer \in Answers
    BY AnswersType
  <1>1. ASSUME NEW t \in Chats,
               ChatAcquire(t) \/ ChatRefuse(t) \/ ChatClear(t) \/ ChatStart(t)
                 \/ Ask(t) \/ StartWaiting(t) \/ ChatEnd(t)
        PROVE  TypeOK'
    <2>1. t \in Threads /\ t \notin Confirms \cup Stops \cup News
      BY DEF Threads
    <2>2. PICK from, to : At(t, from, to) /\ to \in ChatStates
      BY <1>1 DEF ChatAcquire, ChatRefuse, ChatClear, ChatStart, Ask,
        StartWaiting, ChatEnd, ChatStates
    <2>3. /\ pc' \in [Threads -> ChatStates \cup NewStates \cup {"checked"}]
          /\ \A c \in Chats : pc'[c] \in ChatStates
          /\ \A k \in Confirms : pc'[k] \in {"new", "refused", "checked", "done"}
          /\ \A s \in Stops : pc'[s] \in {"new", "set", "done"}
          /\ \A n \in News : pc'[n] \in NewStates
      BY <2>1, <2>2, AtType
    <2>4. /\ lock' \in Threads \cup {NoOne} /\ gen' \in Nat
          /\ cancel' \subseteq Nat /\ awaiting' \in BOOLEAN
      BY <1>1, <2>1 DEF TypeOK, session, ChatAcquire, ChatRefuse, ChatClear,
        ChatStart, Ask, StartWaiting, ChatEnd
    <2>5. /\ turnGen' \in [Chats -> Nat] /\ asked' \in [Chats -> Nat]
      BY <1>1 DEF TypeOK, session, ChatAcquire, ChatRefuse, ChatClear,
        ChatStart, Ask, StartWaiting, ChatEnd
    <2>6. UNCHANGED <<queue, answer, sent>>
      BY <1>1 DEF session, ChatAcquire, ChatRefuse, ChatClear, ChatStart, Ask,
        StartWaiting, ChatEnd
    <2> QED
      BY <2>3, <2>4, <2>5, <2>6 DEF TypeOK
  <1>2. ASSUME NEW t \in Chats, WaitCancelled(t) \/ WaitTake(t) \/ Resume(t)
        PROVE  TypeOK'
    <2>1. t \in Threads /\ t \notin Confirms \cup Stops \cup News
      BY DEF Threads
    <2>2. PICK from, to : At(t, from, to) /\ to \in ChatStates
      BY <1>2 DEF WaitCancelled, WaitTake, Resume, ChatStates
    <2>3. /\ pc' \in [Threads -> ChatStates \cup NewStates \cup {"checked"}]
          /\ \A c \in Chats : pc'[c] \in ChatStates
          /\ \A k \in Confirms : pc'[k] \in {"new", "refused", "checked", "done"}
          /\ \A s \in Stops : pc'[s] \in {"new", "set", "done"}
          /\ \A n \in News : pc'[n] \in NewStates
      BY <2>1, <2>2, AtType
    <2>4. [approved |-> FALSE, for |-> Question(t)] \in Answers
      BY DEF TypeOK, Question, Answers
    <2>5. answer' \in [Chats -> Answers] /\ queue' \in Seq(Answers)
      <3>1. CASE WaitCancelled(t)
        BY <2>4, <3>1 DEF WaitCancelled, TypeOK, session
      <3>2. CASE WaitTake(t)
        <4>1. Head(queue) \in Answers /\ Tail(queue) \in Seq(Answers)
          BY <3>2, HeadTailProperties DEF WaitTake, TypeOK
        <4> QED
          BY <3>2, <4>1 DEF WaitTake, TypeOK
      <3>3. CASE Resume(t)
        BY <1>a, <3>3 DEF Resume, TypeOK
      <3> QED
        BY <1>2, <3>1, <3>2, <3>3
    <2>6. UNCHANGED <<lock, gen, cancel, turnGen, asked, sent>>
      BY <1>2 DEF WaitCancelled, WaitTake, Resume, session
    <2>7. awaiting' \in BOOLEAN
      BY <1>2 DEF WaitCancelled, WaitTake, Resume, session, TypeOK
    <2> QED
      BY <2>3, <2>5, <2>6, <2>7 DEF TypeOK
  <1>3. ASSUME NEW k \in Confirms,
               ConfirmCheck(k) \/ ConfirmRefuse(k) \/ ConfirmPut(k)
        PROVE  TypeOK'
    <2>1. k \in Threads /\ k \notin Chats \cup Stops \cup News
      BY DEF Threads
    <2>2. PICK from, to :
            At(k, from, to) /\ to \in {"new", "refused", "checked", "done"}
      BY <1>3 DEF ConfirmCheck, ConfirmRefuse, ConfirmPut
    <2>3. /\ pc' \in [Threads -> ChatStates \cup NewStates \cup {"checked"}]
          /\ \A c \in Chats : pc'[c] \in ChatStates
          /\ \A l \in Confirms : pc'[l] \in {"new", "refused", "checked", "done"}
          /\ \A s \in Stops : pc'[s] \in {"new", "set", "done"}
          /\ \A n \in News : pc'[n] \in NewStates
      BY <2>1, <2>2, AtType
    <2>4. sent' \in [Confirms -> Answers] /\ queue' \in Seq(Answers)
      <3>1. CASE ConfirmCheck(k)
        <4>1. PICK q \in SeenQuestions, approved \in BOOLEAN :
                sent' = [sent EXCEPT ![k] = [approved |-> approved, for |-> q]]
          BY <3>1 DEF ConfirmCheck
        <4>2. [approved |-> approved, for |-> q] \in Answers
          BY AnswersType
        <4> QED
          BY <3>1, <4>1, <4>2 DEF ConfirmCheck, TypeOK, session
      <3>2. CASE ConfirmRefuse(k)
        BY <3>2 DEF ConfirmRefuse, TypeOK, session
      <3>3. CASE ConfirmPut(k)
        BY <3>3, AppendProperties DEF ConfirmPut, TypeOK
      <3> QED
        BY <1>3, <3>1, <3>2, <3>3
    <2>5. UNCHANGED <<lock, gen, cancel, awaiting, turnGen, asked, answer>>
      BY <1>3 DEF ConfirmCheck, ConfirmRefuse, ConfirmPut, session
    <2> QED
      BY <2>3, <2>4, <2>5 DEF TypeOK
  <1>4. ASSUME NEW r \in Stops \cup News,
               \/ SetCancel(r)
               \/ r \in Stops /\ PutRejection(r, "done")
               \/ r \in News /\ NewStep(r)
        PROVE  TypeOK'
    <2>1. r \in Threads /\ r \notin Chats \cup Confirms
      BY DEF Threads
    <2>2. PICK from, to : /\ At(r, from, to)
                          /\ r \in Stops => to \in {"new", "set", "done"}
                          /\ r \in News => to \in NewStates
      <3>1. CASE SetCancel(r)
        BY <3>1 DEF SetCancel, NewStates
      <3>2. CASE r \in Stops /\ PutRejection(r, "done")
        BY <3>2 DEF PutRejection
      <3>3. CASE r \in News /\ NewStep(r)
        <4>1. \/ At(r, "set", "drain") \/ At(r, "drain", "drained")
              \/ At(r, "drain", "timeout") \/ At(r, "drained", "done")
              \/ At(r, "timeout", "forced")
          BY <3>3 DEF NewStep, PutRejection, NewAcquire, NewTimeout, NewReset
        <4>2. r \notin Stops
          BY <3>3
        <4>3. {"drain", "drained", "timeout", "done", "forced"} \subseteq NewStates
          BY DEF NewStates
        <4> QED
          BY <4>1, <4>2, <4>3
      <3> QED
        BY <1>4, <3>1, <3>2, <3>3
    <2>3. /\ pc' \in [Threads -> ChatStates \cup NewStates \cup {"checked"}]
          /\ \A c \in Chats : pc'[c] \in ChatStates
          /\ \A k \in Confirms : pc'[k] \in {"new", "refused", "checked", "done"}
          /\ \A s \in Stops : pc'[s] \in {"new", "set", "done"}
          /\ \A n \in News : pc'[n] \in NewStates
      BY <2>1, <2>2, AtType
    <2>4. lock' \in {lock, r, NoOne} /\ gen' \in {gen, gen + 1}
      BY <1>4 DEF SetCancel, NewStep, PutRejection, NewAcquire, NewTimeout,
        NewReset, session
    <2>5. cancel' = cancel \/ cancel' = cancel \cup {gen}
      BY <1>4 DEF SetCancel, NewStep, PutRejection, NewAcquire, NewTimeout,
        NewReset, session
    <2>7. queue' = queue \/ queue' = Append(queue, NoAnswer)
      BY <1>4 DEF SetCancel, NewStep, PutRejection, NewAcquire, NewTimeout,
        NewReset, session
    <2>8. lock' \in Threads \cup {NoOne} /\ gen' \in Nat /\ cancel' \subseteq Nat
      <3>1. lock \in Threads \cup {NoOne} /\ gen \in Nat /\ cancel \subseteq Nat
        BY DEF TypeOK
      <3>2. gen + 1 \in Nat /\ cancel \cup {gen} \subseteq Nat
        BY <3>1
      <3> QED
        BY <2>1, <2>4, <2>5, <3>1, <3>2
    <2>9. queue' \in Seq(Answers)
      <3>1. queue \in Seq(Answers)
        BY DEF TypeOK
      <3>2. Append(queue, NoAnswer) \in Seq(Answers)
        BY <1>a, <3>1, AppendProperties
      <3> QED
        BY <2>7, <3>1, <3>2
    <2>6. UNCHANGED <<awaiting, turnGen, asked, answer, sent>>
      BY <1>4 DEF SetCancel, NewStep, PutRejection, NewAcquire, NewTimeout,
        NewReset, session
    <2> QED
      BY <2>3, <2>6, <2>8, <2>9 DEF TypeOK
  <1>5. CASE UNCHANGED vars
    BY <1>5 DEF TypeOK, vars, session
  <1> QED
    BY <1>1, <1>2, <1>3, <1>4, <1>5
    DEF Next, ClientStep, ControlStep, ChatStep

-----------------------------------------------------------------------------
(* The lock.                                                               *)

(* A step of one thread moves no other.                                    *)
LEMMA AtAlone ==
    ASSUME TypeOK, NEW t \in Threads, NEW from, NEW to, At(t, from, to)
    PROVE  /\ pc[t] = from /\ pc'[t] = to
           /\ \A u \in Threads : u # t => pc'[u] = pc[u]
  BY DEF At, TypeOK

(* A chat's step that leaves the lock alone keeps its owner, as long as it *)
(* stays on its side of the locked region.                                 *)
LEMMA ChatKeepsLock ==
    ASSUME TypeOK, LockOwned, NEW t \in Chats, NEW from, NEW to,
           At(t, from, to), lock' = lock,
           from \in {"locked", "cleared", "run", "shown", "wait", "answered"}
             <=> to \in {"locked", "cleared", "run", "shown", "wait", "answered"}
    PROVE  LockOwned'
  <1>1. t \in Threads /\ \A n \in News : n # t /\ n \in Threads
    BY ThreadAssumption DEF Threads
  <1>2. /\ pc[t] = from /\ pc'[t] = to
        /\ \A u \in Threads : u # t => pc'[u] = pc[u]
    BY <1>1, AtAlone
  <1>3. \A c \in Chats : Driving(c)' <=> Driving(c)
    BY <1>1, <1>2 DEF Driving, Threads
  <1>4. \A n \in News : pc'[n] = pc[n]
    BY <1>1, <1>2
  <1> QED
    BY <1>3, <1>4 DEF LockOwned

LEMMA OtherKeepsLock ==
    ASSUME TypeOK, LockOwned, NEW r \in Threads, r \notin Chats,
           NEW from, NEW to, At(r, from, to), lock' = lock,
           r \in News => from # "drained" /\ to # "drained"
    PROVE  LockOwned'
  <1>1. /\ pc[r] = from /\ pc'[r] = to
        /\ \A u \in Threads : u # r => pc'[u] = pc[u]
    BY AtAlone
  <1>2. \A c \in Chats : pc'[c] = pc[c]
    BY <1>1 DEF Threads
  <1>3. \A n \in News : pc'[n] = "drained" <=> pc[n] = "drained"
    BY <1>1 DEF Threads
  <1> QED
    BY <1>2, <1>3 DEF LockOwned, Driving

LEMMA LockInit == Init => LockOwned
  BY ThreadAssumption DEF Init, LockOwned, Driving, Threads

LEMMA LockNext == TypeOK /\ LockOwned /\ [Next]_vars => LockOwned'
  <1> SUFFICES ASSUME TypeOK, LockOwned, [Next]_vars PROVE LockOwned'
    OBVIOUS
  <1>a. /\ \A t \in Chats : t \in Threads /\ t # NoOne
        /\ \A n \in News : n \in Threads /\ n # NoOne /\ n \notin Chats
        /\ \A k \in Confirms : k \in Threads /\ k \notin Chats \cup News
        /\ \A s \in Stops : s \in Threads /\ s \notin Chats \cup News
    BY ThreadAssumption DEF Threads
  <1>1. ASSUME NEW t \in Chats, ChatAcquire(t) PROVE LockOwned'
    <2>1. lock = NoOne /\ lock' = t /\ At(t, "new", "locked")
      BY <1>1 DEF ChatAcquire
    <2>2. /\ pc'[t] = "locked"
          /\ \A u \in Threads : u # t => pc'[u] = pc[u]
      BY <1>a, <2>1, AtAlone
    <2> QED
      BY <1>a, <2>1, <2>2 DEF LockOwned, Driving
  <1>2. ASSUME NEW t \in Chats, ChatEnd(t) PROVE LockOwned'
    <2>1. lock' = NoOne /\ (At(t, "run", "done") \/ At(t, "cleared", "done"))
      BY <1>2 DEF ChatEnd
    <2>2. /\ pc[t] \in {"run", "cleared"} /\ pc'[t] = "done"
          /\ \A u \in Threads : u # t => pc'[u] = pc[u]
      BY <1>a, <2>1, AtAlone
    <2>3. lock = t
      BY <2>2 DEF LockOwned, Driving
    <2> QED
      BY <1>a, <2>1, <2>2, <2>3 DEF LockOwned, Driving
  <1>3. ASSUME NEW t \in Chats,
               ChatRefuse(t) \/ ChatClear(t) \/ ChatStart(t) \/ Ask(t)
                 \/ StartWaiting(t) \/ WaitCancelled(t) \/ WaitTake(t)
                 \/ Resume(t)
        PROVE  LockOwned'
    <2>1. lock' = lock
      BY <1>3 DEF ChatRefuse, ChatClear, ChatStart, Ask, StartWaiting,
        WaitCancelled, WaitTake, Resume, session
    <2>2. \/ At(t, "new", "refused") \/ At(t, "locked", "cleared")
          \/ At(t, "cleared", "run") \/ At(t, "run", "shown")
          \/ At(t, "shown", "wait") \/ At(t, "wait", "answered")
          \/ At(t, "answered", "run")
      BY <1>3 DEF ChatRefuse, ChatClear, ChatStart, Ask, StartWaiting,
        WaitCancelled, WaitTake, Resume
    <2> QED
      BY <2>1, <2>2, ChatKeepsLock
  <1>4. ASSUME NEW k \in Confirms,
               ConfirmCheck(k) \/ ConfirmRefuse(k) \/ ConfirmPut(k)
        PROVE  LockOwned'
    <2>1. lock' = lock
      BY <1>4 DEF ConfirmCheck, ConfirmRefuse, ConfirmPut, session
    <2>2. PICK from, to : At(k, from, to)
      BY <1>4 DEF ConfirmCheck, ConfirmRefuse, ConfirmPut
    <2> QED
      BY <1>a, <2>1, <2>2, OtherKeepsLock
  <1>5. ASSUME NEW r \in Stops \cup News, SetCancel(r) PROVE LockOwned'
    BY <1>a, <1>5, OtherKeepsLock DEF SetCancel
  <1>6. ASSUME NEW s \in Stops, PutRejection(s, "done") PROVE LockOwned'
    BY <1>a, <1>6, OtherKeepsLock DEF PutRejection
  <1>7. ASSUME NEW n \in News, NewStep(n) PROVE LockOwned'
    <2>1. CASE PutRejection(n, "drain") \/ NewTimeout(n)
      BY <1>a, <2>1, OtherKeepsLock DEF PutRejection, NewTimeout, session
    <2>2. CASE NewAcquire(n)
      <3>1. lock = NoOne /\ lock' = n /\ At(n, "drain", "drained")
        BY <2>2 DEF NewAcquire
      <3>2. /\ pc'[n] = "drained"
            /\ \A u \in Threads : u # n => pc'[u] = pc[u]
        BY <1>a, <3>1, AtAlone
      <3> QED
        BY <1>a, <3>1, <3>2 DEF LockOwned, Driving
    <2>3. CASE NewReset(n)
      <3>1. CASE At(n, "drained", "done") /\ lock' = NoOne
        <4>1. /\ pc[n] = "drained" /\ pc'[n] = "done"
              /\ \A u \in Threads : u # n => pc'[u] = pc[u]
          BY <1>a, <3>1, AtAlone
        <4>2. lock = n
          BY <4>1 DEF LockOwned
        <4> QED
          BY <1>a, <3>1, <4>1, <4>2 DEF LockOwned, Driving
      <3>2. CASE At(n, "timeout", "forced") /\ lock' = lock
        BY <1>a, <3>2, OtherKeepsLock
      <3> QED
        BY <2>3, <3>1, <3>2 DEF NewReset
    <2> QED
      BY <1>7, <2>1, <2>2, <2>3 DEF NewStep
  <1>8. CASE UNCHANGED vars
    BY <1>8 DEF LockOwned, Driving, vars, session
  <1> QED
    BY <1>1, <1>2, <1>3, <1>4, <1>5, <1>6, <1>7, <1>8
    DEF Next, ClientStep, ControlStep, ChatStep

-----------------------------------------------------------------------------
(* The state set a turn works on.                                          *)

LEMMA OwnerInit == Init => TurnOwnsSession
  BY DEF Init, TurnOwnsSession, InTurn, Threads

(* A drain that ran out stays so.                                          *)
LEMMA ForcedForEver == TypeOK /\ [Next]_vars /\ ForcedReset => ForcedReset'
  <1> SUFFICES ASSUME TypeOK, [Next]_vars,
                      NEW n \in News, pc[n] \in {"timeout", "forced"}
               PROVE  pc'[n] \in {"timeout", "forced"}
    BY DEF ForcedReset
  <1>1. n \in Threads
    BY DEF Threads
  <1>2. ASSUME NEW t \in Threads, NEW from, NEW to, At(t, from, to),
               from \notin {"timeout", "forced"}
        PROVE  pc'[n] \in {"timeout", "forced"}
    BY <1>1, <1>2, AtAlone
  <1>3. ASSUME NEW t \in Chats, ChatAcquire(t) \/ ChatRefuse(t) \/ ChatStep(t)
        PROVE  pc'[n] \in {"timeout", "forced"}
    BY <1>2, <1>3 DEF Threads, ChatStep, ChatAcquire, ChatRefuse, ChatClear,
      ChatStart, Ask, StartWaiting, WaitCancelled, WaitTake, Resume, ChatEnd
  <1>4. ASSUME NEW k \in Confirms,
               ConfirmCheck(k) \/ ConfirmRefuse(k) \/ ConfirmPut(k)
        PROVE  pc'[n] \in {"timeout", "forced"}
    BY <1>2, <1>4 DEF Threads, ConfirmCheck, ConfirmRefuse, ConfirmPut
  <1>5. ASSUME NEW r \in Stops \cup News,
               SetCancel(r) \/ PutRejection(r, "done")
                 \/ PutRejection(r, "drain") \/ NewAcquire(r) \/ NewTimeout(r)
        PROVE  pc'[n] \in {"timeout", "forced"}
    BY <1>2, <1>5 DEF Threads, SetCancel, PutRejection, NewAcquire, NewTimeout
  <1>6. ASSUME NEW m \in News, NewReset(m)
        PROVE  pc'[n] \in {"timeout", "forced"}
    <2>1. CASE At(m, "drained", "done")
      BY <1>2, <2>1 DEF Threads
    <2>2. CASE At(m, "timeout", "forced")
      BY <1>1, <2>2 DEF At, TypeOK
    <2> QED
      BY <1>6, <2>1, <2>2 DEF NewReset
  <1>7. CASE UNCHANGED vars
    BY <1>7 DEF vars
  <1> QED
    BY <1>3, <1>4, <1>5, <1>6, <1>7
    DEF Next, ClientStep, ControlStep, NewStep

LEMMA OwnerNext == IInv /\ [Next]_vars => TurnOwnsSession'
  <1> SUFFICES ASSUME IInv, [Next]_vars PROVE TurnOwnsSession'
    OBVIOUS
  <1>t. TypeOK /\ LockOwned
    BY DEF IInv
  <1>0. CASE ForcedReset
    BY <1>0, <1>t, ForcedForEver DEF TurnOwnsSession
  <1> SUFFICES ASSUME \A t \in Chats : InTurn(t) => turnGen[t] = gen
               PROVE  TurnOwnsSession'
    BY <1>0 DEF IInv, TurnOwnsSession
  (* A step that starts no turn and replaces no state set.                 *)
  <1>1. ASSUME gen' = gen, turnGen' = turnGen,
               \A t \in Chats : InTurn(t)' => InTurn(t)
        PROVE  TurnOwnsSession'
    BY <1>1 DEF TurnOwnsSession
  <1>2. ASSUME NEW r \in Threads \ Chats, NEW from, NEW to, At(r, from, to)
        PROVE  \A t \in Chats : InTurn(t)' <=> InTurn(t)
    BY <1>2, <1>t, AtAlone DEF InTurn, Threads
  <1>3. ASSUME NEW t \in Chats, NEW from, NEW to, At(t, from, to),
               to \in {"run", "shown", "wait", "answered"}
                 => from \in {"run", "shown", "wait", "answered"}
        PROVE  \A u \in Chats : InTurn(u)' => InTurn(u)
    BY <1>3, <1>t, AtAlone DEF InTurn, Threads
  <1>a. /\ Confirms \cup Stops \cup News \subseteq Threads \ Chats
    BY ThreadAssumption DEF Threads
  <1>4. ASSUME NEW t \in Chats, ChatAcquire(t) \/ ChatRefuse(t) \/ ChatStep(t)
        PROVE  TurnOwnsSession'
    <2>1. CASE ChatStart(t)
      <3>1. /\ At(t, "cleared", "run") /\ gen' = gen
            /\ turnGen' = [turnGen EXCEPT ![t] = gen]
        BY <2>1 DEF ChatStart, session
      <3>2. \A u \in Threads : u # t => pc'[u] = pc[u]
        BY <3>1, <1>t, AtAlone DEF Threads
      <3> QED
        BY <1>t, <3>1, <3>2 DEF TurnOwnsSession, InTurn, TypeOK, Threads
    <2>2. CASE ~ChatStart(t)
      <3>1. gen' = gen /\ turnGen' = turnGen
        BY <1>4, <2>2 DEF session, ChatStep, ChatAcquire, ChatRefuse,
          ChatClear, Ask, StartWaiting, WaitCancelled, WaitTake, Resume, ChatEnd
      <3>2. PICK from, to : /\ At(t, from, to)
                            /\ to \in {"run", "shown", "wait", "answered"}
                               => from \in {"run", "shown", "wait", "answered"}
        BY <1>4, <2>2 DEF ChatStep, ChatAcquire, ChatRefuse,
          ChatClear, Ask, StartWaiting, WaitCancelled, WaitTake, Resume, ChatEnd
      <3> QED
        BY <1>1, <1>3, <3>1, <3>2
    <2> QED
      BY <2>1, <2>2
  <1>5. ASSUME NEW k \in Confirms,
               ConfirmCheck(k) \/ ConfirmRefuse(k) \/ ConfirmPut(k)
        PROVE  TurnOwnsSession'
    <2>1. gen' = gen /\ turnGen' = turnGen
      BY <1>5 DEF session, ConfirmCheck, ConfirmRefuse, ConfirmPut
    <2>2. PICK from, to : At(k, from, to)
      BY <1>5 DEF ConfirmCheck, ConfirmRefuse, ConfirmPut
    <2> QED
      BY <1>1, <1>2, <1>a, <2>1, <2>2
  <1>6. ASSUME NEW r \in Stops \cup News,
               SetCancel(r) \/ PutRejection(r, "done")
                 \/ PutRejection(r, "drain") \/ NewAcquire(r) \/ NewTimeout(r)
        PROVE  TurnOwnsSession'
    <2>1. gen' = gen /\ turnGen' = turnGen
      BY <1>6 DEF session, SetCancel, PutRejection, NewAcquire, NewTimeout
    <2>2. PICK from, to : At(r, from, to)
      BY <1>6 DEF SetCancel, PutRejection, NewAcquire, NewTimeout
    <2> QED
      BY <1>1, <1>2, <1>a, <2>1, <2>2
  <1>7. ASSUME NEW n \in News, NewReset(n)
        PROVE  TurnOwnsSession'
    (* Whoever drained the session holds its lock, so no turn runs.        *)
    <2>1. CASE At(n, "drained", "done")
      <3>1. lock = n
        BY <1>t, <2>1 DEF At, LockOwned
      <3>2. \A t \in Chats : ~InTurn(t)
        BY <1>t, <3>1, ThreadAssumption DEF LockOwned, Driving, InTurn
      <3>3. \A t \in Chats : ~InTurn(t)'
        BY <1>2, <1>a, <2>1, <3>2
      <3> QED
        BY <3>3 DEF TurnOwnsSession
    <2>2. CASE At(n, "timeout", "forced")
      <3>1. pc'[n] = "forced"
        BY <1>t, <2>2 DEF At, TypeOK, Threads
      <3> QED
        BY <3>1 DEF TurnOwnsSession, ForcedReset
    <2> QED
      BY <1>7, <2>1, <2>2 DEF NewReset
  <1>8. CASE UNCHANGED vars
    BY <1>8, <1>1 DEF vars, session, InTurn
  <1> QED
    BY <1>4, <1>5, <1>6, <1>7, <1>8
    DEF Next, ClientStep, ControlStep, NewStep

LEMMA IInvInit == Init => IInv
  BY TypeInit, LockInit, OwnerInit DEF IInv

LEMMA IInvNext == IInv /\ [Next]_vars => IInv'
  BY TypeNext, LockNext, OwnerNext DEF IInv

(* Every reachable state satisfies it.                                     *)
THEOREM IInvHolds == Spec => []IInv
  BY IInvInit, IInvNext, PTL DEF Spec

-----------------------------------------------------------------------------
(* What follows for the code.                                              *)

(* The session's state and every request's stay within their types.        *)
THEOREM TypeCorrect == Spec => []TypeOK
  <1>1. IInv => TypeOK
    BY DEF IInv
  <1> QED
    BY IInvHolds, <1>1, PTL

(* Two turns of one workspace never run at once, nor a turn beside a       *)
(* /task/new that holds the lock, however many requests there are          *)
(* (server.py:404-406, 469-470, 533-538).                                  *)
THEOREM OneTurn == Spec => []OneTurnAtATime
  <1>1. IInv => OneTurnAtATime
    <2> SUFFICES ASSUME LockOwned PROVE OneTurnAtATime
      BY DEF IInv
    <2>1. \A t, u \in Chats : Driving(t) /\ Driving(u) => t = u
      BY DEF LockOwned
    <2>2. \A t \in Chats, n \in News : ~(Driving(t) /\ pc[n] = "drained")
      BY Apart DEF LockOwned
    <2> QED
      BY <2>1, <2>2 DEF OneTurnAtATime
  <1> QED
    BY IInvHolds, <1>1, PTL

(* A turn works on the state its session has now, unless the drain of a    *)
(* /task/new ran out (server.py:144-152, 423-432).                         *)
THEOREM SessionOwned == Spec => []TurnOwnsSession
  <1>1. IInv => TurnOwnsSession
    BY DEF IInv
  <1> QED
    BY IInvHolds, <1>1, PTL

(* Under the same condition, Stop Task sets the event the running turn     *)
(* looks at (server.py:512, 430).                                          *)
THEOREM StopReaches == Spec => StopReachesTurnIfDrained
  <1> DEFINE Reaches ==
        \A s \in Stops, t \in Chats :
          pc[s] = "new" /\ pc'[s] = "set" /\ InTurn(t)
            => ForcedReset \/ turnGen[t] \in cancel'
  <1>1. IInv /\ [Next]_vars => [Reaches]_vars
    <2> SUFFICES ASSUME IInv, Next,
                        NEW s \in Stops, NEW t \in Chats,
                        pc[s] = "new", pc'[s] = "set", InTurn(t), ~ForcedReset
                 PROVE  turnGen[t] \in cancel'
      OBVIOUS
    <2>t. TypeOK
      BY DEF IInv
    <2>1. turnGen[t] = gen
      BY DEF IInv, TurnOwnsSession
    <2>2. s \in Threads /\ s \notin Chats \cup Confirms \cup News
      BY ThreadAssumption DEF Threads
    (* Nothing but its own SetCancel takes s out of "new".                 *)
    <2>3. ASSUME NEW r \in Threads, NEW from, NEW to, At(r, from, to),
                 to # "set"
          PROVE  FALSE
      BY <2>2, <2>3, <2>t, AtAlone
    <2>4. ASSUME NEW r \in Threads, r # s, NEW from, NEW to, At(r, from, to)
          PROVE  FALSE
      BY <2>2, <2>4, <2>t, AtAlone
    <2>5. ASSUME NEW c \in Chats,
                 ChatAcquire(c) \/ ChatRefuse(c) \/ ChatStep(c)
          PROVE  FALSE
      BY <2>3, <2>5 DEF Threads, ChatStep, ChatAcquire, ChatRefuse, ChatClear,
        ChatStart, Ask, StartWaiting, WaitCancelled, WaitTake, Resume, ChatEnd
    <2>6. ASSUME NEW k \in Confirms,
                 ConfirmCheck(k) \/ ConfirmRefuse(k) \/ ConfirmPut(k)
          PROVE  FALSE
      BY <2>3, <2>6 DEF Threads, ConfirmCheck, ConfirmRefuse, ConfirmPut
    <2>7. ASSUME NEW r \in Stops \cup News,
                 PutRejection(r, "done") \/ PutRejection(r, "drain")
                   \/ NewAcquire(r) \/ NewTimeout(r) \/ NewReset(r)
          PROVE  FALSE
      BY <2>3, <2>7 DEF Threads, PutRejection, NewAcquire, NewTimeout, NewReset
    <2>8. ASSUME NEW r \in Stops \cup News, SetCancel(r)
          PROVE  turnGen[t] \in cancel'
      BY <2>1, <2>8 DEF SetCancel
    <2> QED
      BY <2>5, <2>6, <2>7, <2>8 DEF Next, ClientStep, ControlStep, NewStep
  <1>2. Spec => [][Reaches]_vars
    <2> HIDE DEF Reaches
    <2> QED
      BY IInvHolds, <1>1, PTL DEF Spec
  <1> QED
    BY <1>2 DEF StopReachesTurnIfDrained

(* awaiting_confirm is raised only while the running turn has an open      *)
(* question (server.py:453-455).                                           *)
THEOREM FlagTrue == Spec => []FlagMeansQuestion
  <1>1. Init => FlagMeansQuestion
    BY DEF Init, FlagMeansQuestion
  <1>2. TypeOK /\ FlagMeansQuestion /\ [Next]_vars => FlagMeansQuestion'
    <2> SUFFICES ASSUME TypeOK, FlagMeansQuestion, [Next]_vars
                 PROVE  FlagMeansQuestion'
      OBVIOUS
    <2>1. ASSUME NEW t \in Threads, NEW from, NEW to, At(t, from, to),
                 awaiting' = awaiting,
                 from \in {"wait", "answered"} => to \in {"wait", "answered"}
          PROVE  FlagMeansQuestion'
      BY <2>1, AtAlone DEF FlagMeansQuestion, Threads
    <2>2. ASSUME NEW t \in Chats,
                 ChatAcquire(t) \/ ChatRefuse(t) \/ ChatClear(t) \/ ChatStart(t)
                   \/ Ask(t) \/ WaitCancelled(t) \/ WaitTake(t) \/ ChatEnd(t)
          PROVE  FlagMeansQuestion'
      <3>1. awaiting' = awaiting
        BY <2>2 DEF session, ChatAcquire, ChatRefuse, ChatClear, ChatStart,
          Ask, WaitCancelled, WaitTake, ChatEnd
      <3>2. PICK from, to : /\ At(t, from, to)
                            /\ from \in {"wait", "answered"}
                                 => to \in {"wait", "answered"}
        BY <2>2 DEF ChatAcquire, ChatRefuse, ChatClear, ChatStart, Ask,
          WaitCancelled, WaitTake, ChatEnd
      <3> QED
        BY <2>1, <3>1, <3>2 DEF Threads
    <2>3. ASSUME NEW t \in Chats, StartWaiting(t) \/ Resume(t)
          PROVE  FlagMeansQuestion'
      <3>1. CASE StartWaiting(t)
        BY <3>1 DEF StartWaiting, At, TypeOK, Threads, FlagMeansQuestion
      <3>2. CASE Resume(t)
        BY <3>2 DEF Resume, FlagMeansQuestion
      <3> QED
        BY <2>3, <3>1, <3>2
    <2>4. ASSUME NEW k \in Confirms,
                 ConfirmCheck(k) \/ ConfirmRefuse(k) \/ ConfirmPut(k)
          PROVE  FlagMeansQuestion'
      BY <2>1, <2>4 DEF Threads, session, ConfirmCheck, ConfirmRefuse,
        ConfirmPut
    <2>5. ASSUME NEW r \in Stops \cup News,
                 SetCancel(r) \/ PutRejection(r, "done")
                   \/ PutRejection(r, "drain") \/ NewAcquire(r)
                   \/ NewTimeout(r) \/ NewReset(r)
          PROVE  FlagMeansQuestion'
      BY <2>1, <2>5 DEF Threads, session, SetCancel, PutRejection, NewAcquire,
        NewTimeout, NewReset
    <2>6. CASE UNCHANGED vars
      BY <2>6 DEF vars, session, FlagMeansQuestion
    <2> QED
      BY <2>2, <2>3, <2>4, <2>5, <2>6
      DEF Next, ClientStep, ControlStep, ChatStep, NewStep
  <1> QED
    BY <1>1, <1>2, TypeCorrect, PTL DEF Spec
-----------------------------------------------------------------------------
(* Answers and questions.  As long as nobody repeats an answer or presses  *)
(* Stop, a question is answered once, and only while it is open: whoever   *)
(* answered one that is not open any more has answered it a second time.   *)

Open(t)     == pc[t] \in {"shown", "wait"}
Answered(q) == \E k \in Confirms : pc[k] = "done" /\ sent[k].for = q

SentOK ==
    \A k \in Confirms :
        /\ pc[k] \in {"new", "refused"} => sent[k] = NoAnswer
        /\ pc[k] \in {"checked", "done"} => sent[k].for \in SeenQuestions

ClosedAreAnswered ==
    \A q \in SeenQuestions : Answered(q) \/ (q = Question(q[1]) /\ Open(q[1]))

QueueOK ==
    \/ queue = <<>>
    \/ \E k \in Confirms, t \in Chats :
          /\ queue = <<sent[k]>>
          /\ pc[k] = "done" /\ Open(t) /\ sent[k].for = Question(t)

AnswerOK == \A t \in Chats : pc[t] = "answered" => answer[t].for = Question(t)

CalmInv ==
    /\ SentOK
    /\ Disturbed \/ (ClosedAreAnswered /\ QueueOK /\ AnswerOK /\ cancel = {})

LEMMA ChatMoves ==
    ASSUME TypeOK, NEW t \in Chats, NEW from, NEW to, At(t, from, to)
    PROVE  /\ pc[t] = from /\ pc'[t] = to
           /\ \A u \in Threads : u # t => pc'[u] = pc[u]
           /\ \A k \in Confirms \cup Stops \cup News : pc'[k] = pc[k]
  <1>1. t \in Threads /\ \A k \in Confirms \cup Stops \cup News : k \in Threads /\ k # t
    BY ThreadAssumption DEF Threads
  <1> QED
    BY <1>1, AtAlone

LEMMA ConfirmMoves ==
    ASSUME TypeOK, NEW k \in Confirms, NEW from, NEW to, At(k, from, to)
    PROVE  /\ pc[k] = from /\ pc'[k] = to
           /\ \A u \in Threads : u # k => pc'[u] = pc[u]
           /\ \A u \in Chats \cup Stops \cup News : pc'[u] = pc[u]
  <1>1. k \in Threads /\ \A u \in Chats \cup Stops \cup News : u \in Threads /\ u # k
    BY ThreadAssumption DEF Threads
  <1> QED
    BY <1>1, AtAlone

(* One request to stop or to begin anew is a disturbance, from its first   *)
(* step on.                                                                *)
LEMMA StopDisturbs ==
    ASSUME TypeOK, NEW r \in Stops \cup News,
           SetCancel(r) \/ PutRejection(r, "done") \/ NewStep(r)
    PROVE  Disturbed'
  <1>1. r \in Threads
    BY DEF Threads
  <1>2. PICK from, to : At(r, from, to) /\ to # "new"
    BY DEF SetCancel, PutRejection, NewStep, NewAcquire, NewTimeout, NewReset
  <1>3. pc'[r] # "new"
    BY <1>1, <1>2, AtAlone
  <1> QED
    BY <1>3 DEF Disturbed

(* A step that leaves questions, answers and queue as they are.            *)
LEMMA CalmKept ==
    ASSUME CalmInv, TypeOK, UNCHANGED <<asked, sent, queue>>,
           \A k \in Confirms \cup Stops \cup News : pc'[k] = pc[k],
           \A u \in Chats : Open(u)' <=> Open(u),
           \A u \in Chats : pc'[u] = "answered" =>
               pc[u] = "answered" /\ answer'[u] = answer[u],
           cancel' \subseteq cancel
    PROVE  CalmInv'
  <1>1. SeenQuestions' = SeenQuestions
    BY DEF SeenQuestions
  <1>2. SentOK'
    BY <1>1 DEF CalmInv, SentOK
  <1>3. Disturbed' <=> Disturbed
    BY DEF Disturbed
  <1>4. CASE Disturbed
    BY <1>2, <1>3, <1>4 DEF CalmInv
  <1>5. CASE ~Disturbed
    <2>1. ClosedAreAnswered /\ QueueOK /\ AnswerOK /\ cancel = {}
      BY <1>5 DEF CalmInv
    <2>2. \A q : Answered(q)' <=> Answered(q)
      BY DEF Answered
    <2>3. \A t : Question(t)' = Question(t)
      BY DEF Question
    <2>4. ClosedAreAnswered'
      <3> SUFFICES ASSUME NEW q \in SeenQuestions
                   PROVE  Answered(q)' \/ (q = Question(q[1])' /\ Open(q[1])')
        BY <1>1 DEF ClosedAreAnswered
      <3>1. q[1] \in Chats
        BY DEF SeenQuestions
      <3> QED
        BY <2>1, <2>2, <2>3, <3>1 DEF ClosedAreAnswered
    <2>5. QueueOK'
      BY <2>1, <2>3 DEF QueueOK
    <2>6. AnswerOK'
      BY <2>1, <2>3 DEF AnswerOK
    <2> QED
      BY <1>2, <2>1, <2>4, <2>5, <2>6 DEF CalmInv
  <1> QED
    BY <1>4, <1>5

LEMMA CalmAsk ==
    ASSUME CalmInv, TypeOK, LockOwned, NEW t \in Chats, Ask(t)
    PROVE  CalmInv'
  <1>1. /\ asked[t] < MaxAsks /\ asked' = [asked EXCEPT ![t] = @ + 1]
        /\ At(t, "run", "shown") /\ UNCHANGED <<cancel, queue, sent, answer>>
    BY DEF Ask, session
  <1>2. /\ pc[t] = "run" /\ pc'[t] = "shown"
        /\ \A u \in Chats : u # t => pc'[u] = pc[u]
        /\ \A k \in Confirms \cup Stops \cup News : pc'[k] = pc[k]
    BY <1>1, ChatMoves DEF Threads
  <1>3. \A u \in Chats : asked[u] \in Nat /\ asked'[u] = IF u = t THEN asked[t] + 1 ELSE asked[u]
    BY <1>1 DEF TypeOK
  <1>4. \A q \in SeenQuestions : q \in SeenQuestions'
    BY <1>3 DEF SeenQuestions
  <1>5. SentOK'
    BY <1>1, <1>2, <1>4 DEF CalmInv, SentOK
  <1>6. Disturbed' <=> Disturbed
    BY <1>1, <1>2 DEF Disturbed
  <1>7. CASE Disturbed
    BY <1>5, <1>6, <1>7 DEF CalmInv
  <1>8. CASE ~Disturbed
    <2>1. ClosedAreAnswered /\ QueueOK /\ AnswerOK /\ cancel = {}
      BY <1>8 DEF CalmInv
    <2>2. \A u \in Chats : ~Open(u)
      BY <1>2 DEF LockOwned, Driving, Open
    <2>3. \A q : Answered(q)' <=> Answered(q)
      BY <1>1, <1>2 DEF Answered
    <2>4. \A q \in SeenQuestions : Answered(q)
      <3> SUFFICES ASSUME NEW q \in SeenQuestions
                   PROVE  Answered(q)
        OBVIOUS
      <3>1. q[1] \in Chats
        BY DEF SeenQuestions
      <3> QED
        BY <2>1, <2>2, <3>1 DEF ClosedAreAnswered
    <2>5. ASSUME NEW q \in SeenQuestions'
          PROVE  q \in SeenQuestions \/ (q = Question(t)' /\ q[1] = t)
      <3>1. q \in Chats \X (1..MaxAsks) /\ q[2] <= asked'[q[1]] /\ q = <<q[1], q[2]>>
        BY DEF SeenQuestions
      <3>2. CASE q[1] # t
        BY <1>3, <3>1, <3>2 DEF SeenQuestions
      <3>3. CASE q[1] = t /\ q[2] <= asked[t]
        BY <3>1, <3>3 DEF SeenQuestions
      <3>4. CASE q[1] = t /\ q[2] = asked[t] + 1
        BY <1>3, <3>1, <3>4 DEF Question
      <3> QED
        BY <1>3, <3>1, <3>2, <3>3, <3>4, ThreadAssumption
    <2>6. ClosedAreAnswered'
      <3>1. Open(t)'
        BY <1>2 DEF Open
      <3> QED
        BY <2>3, <2>4, <2>5, <3>1 DEF ClosedAreAnswered
    <2>7. QueueOK'
      BY <1>1, <2>1, <2>2 DEF QueueOK
    <2>8. AnswerOK'
      BY <1>1, <1>2, <1>3, <2>1 DEF AnswerOK, Question
    <2> QED
      BY <1>1, <1>5, <2>1, <2>6, <2>7, <2>8 DEF CalmInv
  <1> QED
    BY <1>7, <1>8

LEMMA CalmTake ==
    ASSUME CalmInv, TypeOK, LockOwned, NEW t \in Chats, WaitTake(t)
    PROVE  CalmInv'
  <1>1. /\ queue # <<>> /\ queue' = Tail(queue)
        /\ answer' = [answer EXCEPT ![t] = Head(queue)]
        /\ At(t, "wait", "answered") /\ UNCHANGED <<cancel, asked, sent>>
    BY DEF WaitTake
  <1>2. /\ pc[t] = "wait" /\ pc'[t] = "answered"
        /\ \A u \in Chats : u # t => pc'[u] = pc[u]
        /\ \A k \in Confirms \cup Stops \cup News : pc'[k] = pc[k]
    BY <1>1, ChatMoves DEF Threads
  <1>3. SeenQuestions' = SeenQuestions
    BY <1>1 DEF SeenQuestions
  <1>4. SentOK'
    BY <1>1, <1>2, <1>3 DEF CalmInv, SentOK
  <1>5. Disturbed' <=> Disturbed
    BY <1>1, <1>2 DEF Disturbed
  <1>6. CASE Disturbed
    BY <1>4, <1>5, <1>6 DEF CalmInv
  <1>7. CASE ~Disturbed
    <2>1. ClosedAreAnswered /\ QueueOK /\ AnswerOK /\ cancel = {}
      BY <1>7 DEF CalmInv
    <2>2. PICK k \in Confirms, u \in Chats :
            /\ queue = <<sent[k]>>
            /\ pc[k] = "done" /\ Open(u) /\ sent[k].for = Question(u)
      BY <1>1, <2>1 DEF QueueOK
    <2>3. u = t
      BY <1>2, <2>2 DEF LockOwned, Driving, Open
    <2>4. Head(queue) = sent[k] /\ queue' = <<>>
      BY <1>1, <2>2
    <2>5. \A q : Answered(q)' <=> Answered(q)
      BY <1>1, <1>2 DEF Answered
    <2>6. \A c : Question(c)' = Question(c)
      BY <1>1 DEF Question
    <2>7. Answered(Question(t))
      BY <2>2, <2>3 DEF Answered
    <2>8. ClosedAreAnswered'
      <3> SUFFICES ASSUME NEW q \in SeenQuestions
                   PROVE  Answered(q)' \/ (q = Question(q[1])' /\ Open(q[1])')
        BY <1>3 DEF ClosedAreAnswered
      <3>1. q[1] \in Chats
        BY DEF SeenQuestions
      <3>2. CASE q = Question(t)
        BY <2>5, <2>7, <3>2
      <3>3. CASE q # Question(t)
        <4>1. Answered(q) \/ (q = Question(q[1]) /\ Open(q[1]))
          BY <2>1 DEF ClosedAreAnswered
        <4>2. CASE q = Question(q[1]) /\ Open(q[1])
          BY <1>2, <2>6, <3>1, <3>3, <4>2 DEF Open
        <4> QED
          BY <2>5, <4>1, <4>2
      <3> QED
        BY <3>2, <3>3
    <2>9. AnswerOK'
      <3>1. answer'[t].for = Question(t)
        BY <1>1, <2>2, <2>3, <2>4 DEF TypeOK
      <3>2. \A c \in Chats : c # t => answer'[c] = answer[c]
        BY <1>1 DEF TypeOK
      <3> QED
        BY <1>2, <2>1, <2>6, <3>1, <3>2 DEF AnswerOK
    <2> QED
      BY <1>1, <1>4, <2>1, <2>4, <2>8, <2>9 DEF CalmInv, QueueOK
  <1> QED
    BY <1>6, <1>7

LEMMA CalmCheck ==
    ASSUME CalmInv, TypeOK, NEW k \in Confirms, ConfirmCheck(k)
    PROVE  CalmInv'
  <1>1. /\ At(k, "new", "checked")
        /\ UNCHANGED <<cancel, queue, asked, answer>>
    BY DEF ConfirmCheck, session
  <1>2. PICK q \in SeenQuestions, approved \in BOOLEAN :
          sent' = [sent EXCEPT ![k] = [approved |-> approved, for |-> q]]
    BY DEF ConfirmCheck
  <1>3. /\ pc[k] = "new" /\ pc'[k] = "checked"
        /\ \A u \in Threads : u # k => pc'[u] = pc[u]
        /\ \A u \in Chats \cup Stops \cup News : pc'[u] = pc[u]
    BY <1>1, ConfirmMoves
  <1>4. /\ sent'[k].for = q
        /\ \A l \in Confirms : l # k => sent'[l] = sent[l] /\ pc'[l] = pc[l]
    BY <1>2, <1>3 DEF TypeOK, Threads
  <1>5. SeenQuestions' = SeenQuestions
    BY <1>1 DEF SeenQuestions
  <1>6. SentOK'
    BY <1>3, <1>4, <1>5 DEF CalmInv, SentOK
  <1>7. sent[k].for = NoQuestion
    BY <1>3 DEF CalmInv, SentOK, NoAnswer
  <1>8. Disturbed => Disturbed'
    <2>1. CASE \E r \in Stops \cup News : pc[r] # "new"
      BY <1>3, <2>1 DEF Disturbed
    <2>2. ASSUME NEW l \in Confirms, NEW m \in Confirms, l # m,
                 sent[l].for = sent[m].for, sent[l].for # NoQuestion
          PROVE  Disturbed'
      BY <1>4, <1>7, <2>2 DEF Disturbed, NoQuestion
    <2> QED
      BY <2>1, <2>2 DEF Disturbed
  <1>9. CASE Disturbed
    BY <1>6, <1>8, <1>9 DEF CalmInv
  <1>10. CASE ~Disturbed
    <2>1. ClosedAreAnswered /\ QueueOK /\ AnswerOK /\ cancel = {}
      BY <1>10 DEF CalmInv
    <2>2. \A p : Answered(p)' <=> Answered(p)
      BY <1>3, <1>4 DEF Answered
    <2>3. /\ \A c : Question(c)' = Question(c)
          /\ \A c \in Chats : Open(c)' <=> Open(c)
      BY <1>1, <1>3 DEF Question, Open
    <2>4. ClosedAreAnswered'
      <3> SUFFICES ASSUME NEW p \in SeenQuestions
                   PROVE  Answered(p)' \/ (p = Question(p[1])' /\ Open(p[1])')
        BY <1>5 DEF ClosedAreAnswered
      <3>1. p[1] \in Chats
        BY DEF SeenQuestions
      <3> QED
        BY <2>1, <2>2, <2>3, <3>1 DEF ClosedAreAnswered
    <2>5. QueueOK'
      BY <1>1, <1>3, <1>4, <2>1, <2>3 DEF QueueOK
    <2>6. AnswerOK'
      BY <1>1, <1>3, <2>1, <2>3 DEF AnswerOK
    <2> QED
      BY <1>1, <1>6, <2>1, <2>4, <2>5, <2>6 DEF CalmInv
  <1> QED
    BY <1>9, <1>10

(* The step that matters: an answer reaches the queue.  Its question is    *)
(* open, or else somebody answered it before.                              *)
LEMMA CalmPut ==
    ASSUME CalmInv, TypeOK, LockOwned, NEW k \in Confirms, ConfirmPut(k)
    PROVE  CalmInv'
  <1>1. /\ At(k, "checked", "done") /\ queue' = Append(queue, sent[k])
        /\ UNCHANGED <<cancel, asked, answer, sent>>
    BY DEF ConfirmPut
  <1>2. /\ pc[k] = "checked" /\ pc'[k] = "done"
        /\ \A l \in Confirms : l # k => pc'[l] = pc[l]
        /\ \A u \in Chats \cup Stops \cup News : pc'[u] = pc[u]
    BY <1>1, ConfirmMoves DEF Threads
  <1>3. SeenQuestions' = SeenQuestions
    BY <1>1 DEF SeenQuestions
  <1>4. SentOK'
    BY <1>1, <1>2, <1>3 DEF CalmInv, SentOK
  <1>5. Disturbed' <=> Disturbed
    BY <1>1, <1>2 DEF Disturbed
  <1>6. CASE Disturbed
    BY <1>4, <1>5, <1>6 DEF CalmInv
  <1>7. CASE ~Disturbed
    <2> DEFINE q == sent[k].for
    <2>1. ClosedAreAnswered /\ QueueOK /\ AnswerOK /\ cancel = {}
      BY <1>7 DEF CalmInv
    <2>2. q \in SeenQuestions /\ q[1] \in Chats /\ q # NoQuestion
      <3>1. q \in SeenQuestions
        BY <1>2 DEF CalmInv, SentOK
      <3>2. q[1] \in Chats /\ q[1] # NoOne
        BY <3>1, ThreadAssumption DEF SeenQuestions, Threads
      <3> QED
        BY <3>1, <3>2 DEF NoQuestion
    <2>3. ~Answered(q)
      <3> SUFFICES ASSUME NEW l \in Confirms, pc[l] = "done", sent[l].for = q
                   PROVE  FALSE
        BY DEF Answered
      <3>1. l # k
        BY <1>2
      <3> QED
        BY <1>7, <2>2, <3>1 DEF Disturbed
    <2>4. PICK t \in Chats : q = Question(t) /\ Open(t)
      BY <2>1, <2>2, <2>3 DEF ClosedAreAnswered
    <2>5. queue = <<>>
      <3> SUFFICES ASSUME NEW l \in Confirms, NEW u \in Chats,
                          pc[l] = "done", Open(u), sent[l].for = Question(u)
                   PROVE  FALSE
        BY <2>1 DEF QueueOK
      <3>1. u = t
        BY <2>4 DEF LockOwned, Driving, Open
      <3> QED
        BY <2>3, <2>4, <3>1 DEF Answered
    <2>6. queue' = <<sent[k]>>
      BY <1>1, <2>5
    <2>7. /\ \A c : Question(c)' = Question(c)
          /\ \A c \in Chats : Open(c)' <=> Open(c)
          /\ \A p : Answered(p) => Answered(p)'
      BY <1>1, <1>2 DEF Question, Open, Answered
    <2>8. QueueOK'
      <3>1. /\ queue' = <<sent'[k]>> /\ pc'[k] = "done"
            /\ Open(t)' /\ sent'[k].for = Question(t)'
        BY <1>1, <1>2, <2>4, <2>6, <2>7
      <3> QED
        BY <3>1 DEF QueueOK
    <2>9. ClosedAreAnswered'
      <3> SUFFICES ASSUME NEW p \in SeenQuestions
                   PROVE  Answered(p)' \/ (p = Question(p[1])' /\ Open(p[1])')
        BY <1>3 DEF ClosedAreAnswered
      <3>1. p[1] \in Chats
        BY DEF SeenQuestions
      <3> QED
        BY <2>1, <2>7, <3>1 DEF ClosedAreAnswered
    <2>10. AnswerOK'
      BY <1>1, <1>2, <2>1, <2>7 DEF AnswerOK
    <2> QED
      BY <1>1, <1>4, <2>1, <2>8, <2>9, <2>10 DEF CalmInv
  <1> QED
    BY <1>6, <1>7

LEMMA CalmInit == Init => CalmInv
  <1> SUFFICES ASSUME Init PROVE CalmInv
    OBVIOUS
  <1>1. /\ \A t \in Chats : pc[t] = "new" /\ asked[t] = 0
        /\ \A k \in Confirms : pc[k] = "new" /\ sent[k] = NoAnswer
        /\ queue = <<>> /\ cancel = {}
    BY DEF Init, Threads
  <1>2. SeenQuestions = {}
    BY <1>1, ThreadAssumption DEF SeenQuestions
  <1> QED
    BY <1>1, <1>2 DEF CalmInv, SentOK, ClosedAreAnswered, QueueOK, AnswerOK

LEMMA CalmNext == IInv /\ CalmInv /\ [Next]_vars => CalmInv'
  <1> SUFFICES ASSUME IInv, CalmInv, [Next]_vars PROVE CalmInv'
    OBVIOUS
  <1>t. TypeOK /\ LockOwned
    BY DEF IInv
  <1>1. ASSUME NEW t \in Chats,
               ChatAcquire(t) \/ ChatRefuse(t) \/ ChatClear(t) \/ ChatStart(t)
                 \/ StartWaiting(t) \/ Resume(t) \/ ChatEnd(t)
        PROVE  CalmInv'
    <2>1. /\ UNCHANGED <<asked, sent, queue>> /\ cancel' \subseteq cancel
          /\ \A u \in Chats : u # t => answer'[u] = answer[u]
      BY <1>1, <1>t DEF session, ChatAcquire, ChatRefuse, ChatClear, ChatStart,
        StartWaiting, Resume, ChatEnd, TypeOK
    <2>2. PICK from, to : /\ At(t, from, to) /\ to # "answered"
                          /\ (from \in {"shown", "wait"}) <=> (to \in {"shown", "wait"})
      BY <1>1 DEF ChatAcquire, ChatRefuse, ChatClear, ChatStart, StartWaiting,
        Resume, ChatEnd
    <2>3. /\ pc[t] = from /\ pc'[t] = to
          /\ \A u \in Chats : u # t => pc'[u] = pc[u]
          /\ \A k \in Confirms \cup Stops \cup News : pc'[k] = pc[k]
      BY <1>t, <2>2, ChatMoves DEF Threads
    <2>4. \A u \in Chats : Open(u)' <=> Open(u)
      BY <2>2, <2>3 DEF Open
    <2> QED
      BY <1>t, <2>1, <2>2, <2>3, <2>4, CalmKept
  <1>2. ASSUME NEW t \in Chats, WaitCancelled(t)
        PROVE  CalmInv'
    <2>1. Disturbed
      BY <1>2 DEF WaitCancelled, CalmInv
    <2>2. /\ At(t, "wait", "answered") /\ UNCHANGED <<sent, asked>>
      BY <1>2 DEF WaitCancelled
    <2>3. \A k \in Confirms \cup Stops \cup News : pc'[k] = pc[k]
      BY <1>t, <2>2, ChatMoves
    <2>4. SeenQuestions' = SeenQuestions
      BY <2>2 DEF SeenQuestions
    <2> QED
      BY <2>1, <2>2, <2>3, <2>4 DEF CalmInv, SentOK, Disturbed
  <1>3. ASSUME NEW k \in Confirms, ConfirmRefuse(k)
        PROVE  CalmInv'
    <2>1. At(k, "new", "refused") /\ UNCHANGED <<session, asked, answer, sent>>
      BY <1>3 DEF ConfirmRefuse
    <2>2. /\ pc[k] = "new" /\ pc'[k] = "refused"
          /\ \A l \in Confirms : l # k => pc'[l] = pc[l]
          /\ \A u \in Chats \cup Stops \cup News : pc'[u] = pc[u]
      BY <1>t, <2>1, ConfirmMoves DEF Threads
    <2>3. SeenQuestions' = SeenQuestions
      BY <2>1 DEF SeenQuestions
    <2>4. SentOK'
      BY <2>1, <2>2, <2>3 DEF CalmInv, SentOK
    <2>5. Disturbed' <=> Disturbed
      BY <2>1, <2>2 DEF Disturbed
    <2>6. /\ \A q : Answered(q)' <=> Answered(q)
          /\ \A c : Question(c)' = Question(c)
          /\ \A c \in Chats : Open(c)' <=> Open(c)
      BY <2>1, <2>2 DEF Answered, Question, Open
    <2>7. ClosedAreAnswered => ClosedAreAnswered'
      <3> SUFFICES ASSUME ClosedAreAnswered, NEW q \in SeenQuestions
                   PROVE  Answered(q)' \/ (q = Question(q[1])' /\ Open(q[1])')
        BY <2>3 DEF ClosedAreAnswered
      <3>1. q[1] \in Chats
        BY DEF SeenQuestions
      <3> QED
        BY <2>6, <3>1 DEF ClosedAreAnswered
    <2>8. QueueOK => QueueOK'
      BY <2>1, <2>2, <2>6 DEF QueueOK, session
    <2>9. AnswerOK => AnswerOK'
      BY <2>1, <2>2, <2>6 DEF AnswerOK
    <2> QED
      BY <2>1, <2>4, <2>5, <2>7, <2>8, <2>9 DEF CalmInv, session
  <1>4. ASSUME NEW r \in Stops \cup News,
               SetCancel(r) \/ PutRejection(r, "done") \/ NewStep(r)
        PROVE  CalmInv'
    <2>1. Disturbed'
      BY <1>4, <1>t, StopDisturbs
    <2>2. UNCHANGED <<asked, sent>>
      BY <1>4 DEF session, SetCancel, PutRejection, NewStep, NewAcquire, NewTimeout, NewReset
    <2>3. \A k \in Confirms : pc'[k] = pc[k]
      <3>1. PICK from, to : At(r, from, to)
        BY <1>4 DEF SetCancel, PutRejection, NewStep, NewAcquire, NewTimeout, NewReset
      <3>2. r \in Threads /\ \A k \in Confirms : k \in Threads /\ k # r
        BY ThreadAssumption DEF Threads
      <3> QED
        BY <1>t, <3>1, <3>2, AtAlone
    <2>4. SentOK'
      BY <2>2, <2>3 DEF CalmInv, SentOK, SeenQuestions
    <2> QED
      BY <2>1, <2>4 DEF CalmInv
  <1>5. CASE UNCHANGED vars
    BY <1>5, <1>t, CalmKept DEF vars, session, Open
  <1> QED
    BY <1>t, <1>1, <1>2, <1>3, <1>4, <1>5, CalmAsk, CalmTake, CalmCheck, CalmPut
    DEF Next, ClientStep, ControlStep, ChatStep

(* While clients answer every question once and nobody presses Stop, the   *)
(* answer that resumes a turn was given to the question the turn has asked *)
(* (server.py:453-455, 498-503), however many clients there are and        *)
(* however late their answers come.                                        *)
THEOREM CalmAnswers == Spec => []CalmAnswersMatch
  <1>1. IInv /\ CalmInv => CalmAnswersMatch
    BY DEF CalmInv, AnswerOK, CalmAnswersMatch
  <1> QED
    BY <1>1, IInvHolds, CalmInit, CalmNext, PTL DEF Spec
=============================================================================
