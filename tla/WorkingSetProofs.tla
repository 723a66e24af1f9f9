-------------------------- MODULE WorkingSetProofs ---------------------------
(***************************************************************************)
(* Theorems about WorkingSet, for all paths, files, contents and limits.   *)
(***************************************************************************)
EXTENDS WorkingSet, SequenceTheorems, FiniteSetTheorems, TLAPS

-----------------------------------------------------------------------------
(* Types.                                                                  *)

(* The bound on files_inspected is proved of a finite list.                *)
TypeInv == TypeOK /\ IsFiniteSet(inspected)

(* What Execute leaves to show of a step.                                  *)
LEMMA ExecuteType ==
    ASSUME TypeInv, NEW m \in Messages, NEW q \in Path,
           Execute(Result(m, q)),
           disk' \in [File -> Content \cup {Nothing}],
           recorded' \in [File -> Content \cup {Nothing}],
           seen' \in [Path -> Content \cup {Nothing, Unshown}]
    PROVE  TypeInv'
  <1>1. Result(m, q) \in [message : Messages, to : Path]
    BY DEF Result
  <1> QED
    BY <1>1 DEF Execute, TypeInv, TypeOK

LEMMA NoteInspectedType ==
    ASSUME TypeInv, NEW p \in Path, NoteInspected(p)
    PROVE  /\ inspected' \subseteq inspected \cup {p}
           /\ inspected' \subseteq Path
           /\ IsFiniteSet(inspected')
           /\ Cardinality(inspected') <= MaxStored
  <1>1. /\ inspected \subseteq Path /\ IsFiniteSet(inspected)
        /\ Cardinality(inspected) \in Nat
        /\ Cardinality(inspected) <= MaxStored
        /\ MaxStored \in Nat
    BY FS_CardinalityType, LimitAssumption DEF TypeInv, TypeOK
  <1>2. CASE p \in inspected \/ Cardinality(inspected) < MaxStored
    <2>1. inspected' = inspected \cup {p}
      BY <1>2 DEF NoteInspected
    <2>2. /\ IsFiniteSet(inspected \cup {p})
          /\ Cardinality(inspected \cup {p}) =
               IF p \in inspected THEN Cardinality(inspected)
               ELSE Cardinality(inspected) + 1
      BY <1>1, FS_AddElement
    <2> QED
      BY <1>1, <1>2, <2>1, <2>2
  <1>3. CASE ~(p \in inspected \/ Cardinality(inspected) < MaxStored)
    <2>1. PICK oldest \in inspected :
            inspected' = (inspected \ {oldest}) \cup {p}
      BY <1>3 DEF NoteInspected
    <2> DEFINE rest == inspected \ {oldest}
    <2>2. IsFiniteSet(rest) /\ Cardinality(rest) = Cardinality(inspected) - 1
      BY <1>1, FS_RemoveElement
    <2>3. /\ IsFiniteSet(rest \cup {p})
          /\ Cardinality(rest \cup {p}) =
               IF p \in rest THEN Cardinality(rest) ELSE Cardinality(rest) + 1
      BY <2>2, FS_AddElement
    <2> QED
      BY <1>1, <2>1, <2>2, <2>3
  <1> QED
    BY <1>2, <1>3

LEMMA TypeInit == Init => TypeInv
  <1> SUFFICES ASSUME Init PROVE TypeInv
    OBVIOUS
  <1>1. IsFiniteSet(inspected) /\ Cardinality(inspected) = 0
    BY FS_EmptySet DEF Init
  <1>2. convo \in Seq(Messages) /\ Len(convo) = 0
    BY EmptySeq DEF Init
  <1> QED
    BY <1>1, <1>2, LimitAssumption DEF Init, TypeInv, TypeOK

LEMMA TypeNext == TypeInv /\ [Next]_vars => TypeInv'
  <1> SUFFICES ASSUME TypeInv, [Next]_vars PROVE TypeInv'
    OBVIOUS
  <1>t. /\ TypeOK /\ IsFiniteSet(inspected)
        /\ FileOf \in [Path -> File]
    BY PathAssumption DEF TypeInv
  <1>r. ASSUME NEW p \in Path, RecordHash(p)
        PROVE  /\ OnDisk(p) \in Content
               /\ disk' \in [File -> Content \cup {Nothing}]
               /\ recorded' \in [File -> Content \cup {Nothing}]
    BY <1>r, <1>t DEF RecordHash, OnDisk, TypeOK
  <1>1. ASSUME NEW p \in Path, NEW body \in {"whole", "part", "unchanged"},
               RecordHash(p), UNCHANGED seen,
               Execute(Result(Message("read", p, body, OnDisk(p)), p))
        PROVE  TypeInv'
    <2>1. Message("read", p, body, OnDisk(p)) \in Messages
      BY <1>1, <1>r DEF Message, Messages, Tools
    <2>2. seen' \in [Path -> Content \cup {Nothing, Unshown}]
      BY <1>1, <1>t DEF TypeOK
    <2> QED
      BY <1>1, <1>r, <2>1, <2>2, ExecuteType
  <1>u. ASSUME NEW p \in Path, RangeFails(p) PROVE TypeInv'
    <2>1. Note("read", p) \in Messages
      BY DEF Note, Message, Messages, Tools
    <2>2. seen' \in [Path -> Content \cup {Nothing, Unshown}]
      BY <1>u, <1>t DEF RangeFails, TypeOK
    <2> QED
      BY <1>u, <1>r, <2>1, <2>2, ExecuteType DEF RangeFails
  <1>2. ASSUME NEW p \in Path, NEW tool \in Tools, CallFails(p, tool)
        PROVE  TypeInv'
    <2>1. Note(tool, p) \in Messages
      BY DEF Note, Message, Messages
    <2> QED
      BY <1>2, <1>t, <2>1, ExecuteType DEF CallFails, TypeOK
  <1>v. ASSUME NEW p \in Path, NEW tool \in Tools, LeaveUnanswered(p, tool)
        PROVE  TypeInv'
    <2> DEFINE m == Message(tool, p, "unanswered", Nothing)
    <2>1. m \in Messages /\ convo \in Seq(Messages)
      BY <1>t DEF Message, Messages, TypeOK
    <2>2. convo' = Append(convo, m) /\ turnStart' = Len(convo) + 1
      BY <1>v DEF LeaveUnanswered
    <2> HIDE DEF m
    <2>3. /\ convo' \in Seq(Messages) /\ Len(convo') = Len(convo) + 1
          /\ Len(convo) \in Nat
      BY <2>1, <2>2, AppendProperties, LenProperties
    <2> QED
      BY <1>v, <1>t, <2>2, <2>3 DEF LeaveUnanswered, history, TypeInv, TypeOK
  <1>3. ASSUME NEW p \in Path, NEW q \in Path, UNCHANGED seen,
               Execute(Result(Message("change", p, "done", Nothing), q)),
               disk' \in [File -> Content \cup {Nothing}],
               recorded' \in [File -> Content \cup {Nothing}]
        PROVE  TypeInv'
    <2>1. Message("change", p, "done", Nothing) \in Messages
      BY DEF Message, Messages, Tools
    <2> QED
      BY <1>3, <1>t, <2>1, ExecuteType DEF TypeOK
  <1>4. ASSUME NEW p \in Path, NEW c \in Content, ApplyChange(p, c)
        PROVE  TypeInv'
    BY <1>3, <1>4, <1>t DEF ApplyChange, TypeOK
  <1>5. ASSUME NEW p \in Path, ApplyDelete(p) PROVE TypeInv'
    BY <1>3, <1>5, <1>t DEF ApplyDelete, TypeOK
  <1>6. ASSUME NEW p \in Path, NEW q \in Path, ApplyRename(p, q) PROVE TypeInv'
    <2>1. OnDisk(p) \in Content
      BY <1>6, <1>t DEF ApplyRename, OnDisk, TypeOK
    <2> QED
      BY <1>3, <1>6, <1>t, <2>1 DEF ApplyRename, TypeOK
  <1>7. CASE Record
    <2> DEFINE m == pending.message
    <2>1. m \in Messages
      BY <1>7, <1>t DEF Record, TypeOK
    <2>2. /\ inspected' \subseteq Path /\ IsFiniteSet(inspected')
          /\ Cardinality(inspected') <= MaxStored
      <3>1. CASE m.body = "note"
        BY <1>7, <1>t, <3>1 DEF Record, TypeOK
      <3>2. CASE m.body = "done"
        <4>1. /\ inspected' \in SUBSET inspected
              /\ Cardinality(inspected) \in Nat
          BY <1>7, <1>t, <3>2, FS_CardinalityType DEF Record
        <4>2. /\ IsFiniteSet(inspected')
              /\ Cardinality(inspected') <= Cardinality(inspected)
              /\ Cardinality(inspected') \in Nat
          BY <1>t, <4>1, FS_Subset, FS_CardinalityType
        <4> QED
          BY <1>t, <4>1, <4>2, LimitAssumption DEF TypeOK
      <3>3. CASE m.body \notin {"note", "done"}
        <4>1. m.path \in Path
          BY <2>1 DEF Messages
        <4>2. NoteInspected(m.path)
          BY <1>7, <3>3 DEF Record
        <4> QED
          BY <4>1, <4>2, NoteInspectedType
      <3> QED
        BY <3>1, <3>2, <3>3
    <2>3. seen' \in [Path -> Content \cup {Nothing, Unshown}]
      <3>1. m.path \in Path /\ m.content \in Content \cup {Nothing}
        BY <2>1 DEF Messages
      <3> QED
        BY <1>7, <1>t, <3>1 DEF Record, TypeOK
    <2>4. convo' \in Seq(Messages) /\ turnStart' \in 0..Len(convo')
      <3>1. convo \in Seq(Messages) /\ turnStart \in 0..Len(convo)
        BY <1>t DEF TypeOK
      <3>2. convo' = Append(convo, m) /\ turnStart' = turnStart
        BY <1>7 DEF Record
      <3>3. /\ convo' \in Seq(Messages) /\ Len(convo') = Len(convo) + 1
            /\ Len(convo) \in Nat
        BY <2>1, <3>1, <3>2, AppendProperties, LenProperties
      <3> QED
        BY <3>1, <3>2, <3>3
    <2>5. UNCHANGED <<disk, recorded, interrupted>> /\ pending' = NoCall
      BY <1>7 DEF Record
    <2> QED
      BY <1>t, <2>2, <2>3, <2>4, <2>5 DEF TypeInv, TypeOK
  <1>8. ASSUME NEW f \in File, NEW c \in Content \cup {Nothing},
               ExternalChange(f, c)
        PROVE  TypeInv'
    BY <1>8, <1>t DEF ExternalChange, history, TypeInv, TypeOK
  <1>9. CASE Compact
    <2>1. \A p \in Path : Message("read", p, "gone", Nothing) \in Messages
      BY DEF Message, Messages, Tools
    <2>2. /\ Len(convo) \in Nat /\ DOMAIN convo = 1..Len(convo)
          /\ \A i \in DOMAIN convo : convo[i] \in Messages /\ convo[i].path \in Path
      <3>1. convo \in Seq(Messages)
        BY <1>t DEF TypeOK
      <3>2. Len(convo) \in Nat /\ DOMAIN convo = 1..Len(convo)
        BY <3>1, LenProperties
      <3>3. \A i \in DOMAIN convo : convo[i] \in Messages
        BY <3>1, <3>2, ElementOfSeq
      <3> QED
        BY <3>2, <3>3 DEF Messages
    <2>3. convo' \in [1..Len(convo) -> Messages]
      BY <1>9, <2>1, <2>2 DEF Compact, Compacted
    <2>4. convo' \in Seq(Messages) /\ Len(convo') = Len(convo)
      BY <2>2, <2>3
    <2> QED
      BY <1>9, <1>t, <2>4 DEF Compact, Compacted, history, TypeInv, TypeOK
  <1>10. CASE NextTurn
    <2>1. Len(convo) \in Nat
      BY <1>t, LenProperties DEF TypeOK
    <2> QED
      BY <1>10, <1>t, <2>1 DEF NextTurn, history, TypeInv, TypeOK
  <1>11. CASE Interrupt
    <2>1. /\ convo \in Seq(Messages) /\ turnStart \in 0..Len(convo)
          /\ Len(convo) \in Nat
      BY <1>t, LenProperties DEF TypeOK
    <2>2. \A i \in 1..turnStart : convo[i] \in Messages
      BY <2>1, ElementOfSeq
    <2>3. /\ SubSeq(convo, 1, turnStart) \in Seq(Messages)
          /\ Len(SubSeq(convo, 1, turnStart)) = turnStart
      BY <2>1, <2>2, SubSeqProperties
    <2> QED
      BY <1>11, <1>t, <2>1, <2>3 DEF Interrupt, TypeInv, TypeOK
  <1>12. CASE NewTask
    <2>1. IsFiniteSet(inspected') /\ Cardinality(inspected') = 0
      BY <1>12, FS_EmptySet DEF NewTask
    <2>2. convo' \in Seq(Messages) /\ Len(convo') = 0
      BY <1>12, EmptySeq DEF NewTask
    <2> QED
      BY <1>12, <1>t, <2>1, <2>2, LimitAssumption DEF NewTask, TypeInv, TypeOK
  <1>13. CASE UNCHANGED vars
    BY <1>13, <1>t DEF vars, history, TypeInv, TypeOK
  <1> QED
    BY <1>1, <1>2, <1>4, <1>5, <1>6, <1>7, <1>8, <1>9, <1>10, <1>11, <1>12,
       <1>13, <1>u, <1>v
    DEF Next, ReadCached, Read, ReadWhole, ReadRange

-----------------------------------------------------------------------------
(* The unchanged notice.                                                   *)

(* The call in hand is a change of p that will make it forgotten ...       *)
BeingForgotten(p) ==
    /\ pending # NoCall
    /\ pending.message.body = "done"
    /\ p \in {pending.message.path, pending.to}

(* ... or a read of p that is about to show its content.                   *)
BeingShown(p) ==
    /\ pending # NoCall
    /\ pending.message.body \in {"whole", "part"}
    /\ p = pending.message.path

(* The recorded content of p is what the conversation has shown, unless a  *)
(* failed read has recorded another.                                       *)
Vouched(p) ==
    /\ recorded[FileOf[p]] # Nothing
    /\ seen[p] \in {Unshown, recorded[FileOf[p]]}

(* An inspected path with one spelling is vouched for, except for the call *)
(* in hand; and a read in hand shows the recorded content, or claims that  *)
(* this is known.  The exceptions are exactly what a torn turn leaves      *)
(* behind.                                                                 *)
Known ==
    interrupted # "torn" =>
      /\ \A p \in inspected :
           OneSpelling(p) => BeingForgotten(p) \/ BeingShown(p) \/ Vouched(p)
      /\ \A p \in Path :
           BeingShown(p) => /\ pending.message.content = recorded[FileOf[p]]
                            /\ pending.message.content # Nothing
      /\ pending # NoCall /\ pending.message.body = "unchanged"
           => pending.message.path \in inspected
      /\ pending.message.body \notin {"gone", "unanswered"}

LEMMA KnownInit == Init => Known
  BY DEF Init, Known, BeingShown, NoCall, Result, Note, Message

(* Between calls an inspected path with one spelling is vouched for, and    *)
(* stays so when neither its file's hash nor what was shown changes.       *)
LEMMA VouchedBetween ==
    ASSUME Known, interrupted # "torn", pending = NoCall,
           NEW p \in inspected, OneSpelling(p)
    PROVE  Vouched(p)
  BY DEF Known, BeingForgotten, BeingShown

LEMMA OneSpellingApart ==
    ASSUME NEW p \in Path, NEW q \in Path, OneSpelling(p), p # q
    PROVE  FileOf[p] # FileOf[q]
  BY DEF OneSpelling

LEMMA KnownNext == TypeOK /\ Known /\ [Next]_vars => Known'
  <1> SUFFICES ASSUME TypeOK, Known, [Next]_vars, interrupted' # "torn"
               PROVE  Known'
    BY DEF Known
  <1>t. FileOf \in [Path -> File] /\ inspected \subseteq Path /\ Nothing \notin Content
    BY PathAssumption DEF TypeOK
  <1>o. \A p : OneSpelling(p)' = OneSpelling(p)
    BY DEF OneSpelling
  (* A change of p, whose effects reach only the files of p and q.         *)
  <1>1. ASSUME NEW p \in Path, NEW q \in Path, UNCHANGED seen,
               Execute(Result(Message("change", p, "done", Nothing), q)),
               \A f \in File : f \notin {FileOf[p], FileOf[q]}
                                => recorded'[f] = recorded[f]
        PROVE  Known'
    <2>1. /\ pending = NoCall
          /\ pending' = Result(Message("change", p, "done", Nothing), q)
          /\ UNCHANGED <<inspected, seen, interrupted>>
      BY <1>1 DEF Execute
    <2>2. /\ pending'.message.body = "done"
          /\ pending'.message.path = p /\ pending'.to = q
          /\ pending' # NoCall
      BY <2>1 DEF Result, Message, NoCall, Note
    <2>3. ASSUME NEW r \in inspected', OneSpelling(r)
          PROVE  BeingForgotten(r)' \/ Vouched(r)'
      <3>1. CASE r \in {p, q}
        BY <2>2, <3>1 DEF BeingForgotten
      <3>2. CASE r \notin {p, q}
        <4>1. r \in Path /\ FileOf[r] \in File
          BY <1>t, <2>1
        <4>2. FileOf[r] # FileOf[p] /\ FileOf[r] # FileOf[q]
          BY <2>3, <3>2, <4>1, OneSpellingApart
        <4>3. recorded'[FileOf[r]] = recorded[FileOf[r]]
          BY <1>1, <4>1, <4>2
        <4>4. Vouched(r)
          BY <2>1, <2>3, VouchedBetween
        <4> QED
          BY <2>1, <4>3, <4>4 DEF Vouched
      <3> QED
        BY <3>1, <3>2
    <2> QED
      BY <1>o, <2>1, <2>2, <2>3 DEF Known, BeingShown
  <1>2. ASSUME NEW p \in Path, NEW c \in Content, ApplyChange(p, c)
        PROVE  Known'
    BY <1>1, <1>2, <1>t DEF ApplyChange, TypeOK
  <1>3. ASSUME NEW p \in Path, ApplyDelete(p) PROVE Known'
    BY <1>1, <1>3, <1>t DEF ApplyDelete, TypeOK
  <1>4. ASSUME NEW p \in Path, NEW q \in Path, ApplyRename(p, q) PROVE Known'
    BY <1>1, <1>4, <1>t DEF ApplyRename, TypeOK
  <1>h. ASSUME NEW p \in Path, RecordHash(p)
        PROVE  /\ OnDisk(p) # Nothing
               /\ recorded'[FileOf[p]] = OnDisk(p)
               /\ \A r \in Path : FileOf[r] # FileOf[p]
                                  => recorded'[FileOf[r]] = recorded[FileOf[r]]
    BY <1>h, <1>t DEF RecordHash, TypeOK
  (* A read of p leaves the other paths with one spelling as they were.    *)
  <1>5. ASSUME NEW p \in Path, RecordHash(p), pending = NoCall,
               UNCHANGED <<inspected, interrupted>>,
               \A r \in Path : FileOf[r] # FileOf[p] => seen'[r] = seen[r],
               NEW r \in inspected', OneSpelling(r), r # p
        PROVE  Vouched(r)'
    <2>1. r \in Path /\ FileOf[r] # FileOf[p]
      BY <1>5, <1>t, OneSpellingApart
    <2>2. Vouched(r)
      BY <1>5, VouchedBetween
    <2> QED
      BY <1>5, <1>h, <2>1, <2>2 DEF Vouched
  <1>6. ASSUME NEW p \in Path, ReadCached(p) PROVE Known'
    <2> DEFINE m == Message("read", p, "unchanged", OnDisk(p))
    <2>1. /\ pending = NoCall /\ pending' = Result(m, p)
          /\ UNCHANGED <<inspected, seen, interrupted>>
          /\ RecordHash(p)
          /\ p \in inspected /\ recorded[FileOf[p]] \in {Nothing, OnDisk(p)}
      BY <1>6 DEF ReadCached, Execute, CacheHit, Fresh
    <2>2. /\ pending'.message.body = "unchanged"
          /\ pending'.message.path = p
      BY <2>1 DEF Result, Message
    <2>3. OneSpelling(p) => Vouched(p)'
      <3> SUFFICES ASSUME OneSpelling(p) PROVE Vouched(p)'
        OBVIOUS
      <3>1. Vouched(p)
        BY <2>1, VouchedBetween
      <3>2. recorded'[FileOf[p]] = recorded[FileOf[p]]
        BY <1>h, <2>1, <3>1 DEF Vouched
      <3> QED
        BY <2>1, <3>1, <3>2 DEF Vouched
    <2>4. \A r \in inspected' : OneSpelling(r) => Vouched(r)'
      BY <1>5, <2>1, <2>3
    <2> QED
      BY <1>o, <2>1, <2>2, <2>4 DEF Known, BeingShown
  <1>7. ASSUME NEW p \in Path, NEW body \in {"whole", "part"}, Read(p, body)
        PROVE  Known'
    <2> DEFINE m == Message("read", p, body, OnDisk(p))
    <2>1. /\ pending = NoCall /\ pending' = Result(m, p)
          /\ UNCHANGED <<inspected, seen, interrupted>>
          /\ RecordHash(p)
      BY <1>7 DEF Read, Execute
    <2>2. /\ pending'.message.body = body
          /\ pending'.message.path = p
          /\ pending'.message.content = OnDisk(p)
          /\ pending' # NoCall
      BY <2>1 DEF Result, Message, NoCall, Note
    <2>3. \A r \in inspected' : OneSpelling(r) => BeingShown(r)' \/ Vouched(r)'
      BY <1>5, <2>1, <2>2 DEF BeingShown
    <2> QED
      BY <1>h, <1>o, <2>1, <2>2, <2>3 DEF Known, BeingShown
  <1>8. ASSUME NEW p \in Path, RangeFails(p) PROVE Known'
    <2>1. /\ pending = NoCall /\ pending' = Result(Note("read", p), p)
          /\ UNCHANGED <<inspected, interrupted>>
          /\ RecordHash(p)
          /\ \A r \in Path : FileOf[r] # FileOf[p] => seen'[r] = seen[r]
      BY <1>8 DEF RangeFails, Execute
    <2>2. pending'.message.body = "note"
      BY <2>1 DEF Result, Note, Message
    <2>3. ASSUME p \in inspected, OneSpelling(p) PROVE Vouched(p)'
      <3>1. seen[p] # Nothing
        <4>1. Vouched(p)
          BY <2>1, <2>3, VouchedBetween
        <4>2. Unshown # Nothing
          BY PathAssumption
        <4> QED
          BY <4>1, <4>2 DEF Vouched
      <3>2. seen'[p] \in {Unshown, OnDisk(p)}
        BY <1>8, <3>1 DEF RangeFails
      <3> QED
        BY <1>h, <2>1, <3>2 DEF Vouched
    <2>4. \A r \in inspected' : OneSpelling(r) => Vouched(r)'
      BY <1>5, <2>1, <2>3
    <2> QED
      BY <1>o, <2>1, <2>2, <2>4 DEF Known, BeingShown
  <1>9. ASSUME NEW p \in Path, NEW tool \in Tools, CallFails(p, tool)
        PROVE  Known'
    <2>1. /\ pending = NoCall /\ pending' = Result(Note(tool, p), p)
          /\ UNCHANGED <<inspected, seen, interrupted, recorded>>
      BY <1>9 DEF CallFails, Execute
    <2>2. pending'.message.body = "note"
      BY <2>1 DEF Result, Note, Message
    <2>3. \A r \in inspected' : OneSpelling(r) => Vouched(r)'
      BY <2>1, VouchedBetween DEF Vouched
    <2> QED
      BY <1>o, <2>1, <2>2, <2>3 DEF Known, BeingShown
  <1>10. CASE Record
    <2> DEFINE m == pending.message
    <2>1. /\ pending # NoCall /\ pending' = NoCall
          /\ UNCHANGED <<recorded, interrupted>>
          /\ m \in Messages
      BY <1>10 DEF Record, TypeOK
    <2>2. /\ m.path \in Path /\ pending'.message.body = "note"
          /\ \A p : ~BeingForgotten(p)' /\ ~BeingShown(p)'
      BY <2>1 DEF Messages, BeingForgotten, BeingShown, NoCall, Result, Note,
        Message
    <2>3. SUFFICES ASSUME NEW p \in inspected', OneSpelling(p)
                   PROVE  Vouched(p)'
      BY <1>o, <2>1, <2>2 DEF Known
    <2>4. CASE m.body = "note"
      <3>1. inspected' = inspected /\ seen' = seen
        BY <1>10, <2>4 DEF Record
      <3> QED
        BY <2>1, <2>3, <2>4, <3>1
        DEF Known, BeingForgotten, BeingShown, Vouched
    <2>5. CASE m.body = "done"
      <3>1. inspected' = inspected \ {m.path, pending.to} /\ seen' = seen
        BY <1>10, <2>5 DEF Record
      <3> QED
        BY <2>1, <2>3, <2>5, <3>1
        DEF Known, BeingForgotten, BeingShown, Vouched
    <2>6. CASE m.body \notin {"note", "done"}
      <3>1. p \in inspected \/ p = m.path
        BY <1>10, <2>3, <2>6 DEF Record, NoteInspected
      <3>2. CASE m.body \in {"whole", "part"}
        <4>1. seen' = [seen EXCEPT ![m.path] = m.content]
          BY <1>10, <3>2 DEF Record
        <4>2. CASE p = m.path
          <5>1. seen'[p] = m.content
            BY <2>2, <4>1, <4>2 DEF TypeOK
          <5>2. m.content = recorded[FileOf[p]] /\ m.content # Nothing
            BY <2>1, <2>2, <3>2, <4>2 DEF Known, BeingShown
          <5> QED
            BY <2>1, <5>1, <5>2 DEF Vouched
        <4>3. CASE p # m.path
          <5>1. seen'[p] = seen[p]
            BY <1>t, <3>1, <4>1, <4>3 DEF TypeOK
          <5> QED
            BY <2>1, <2>3, <3>1, <3>2, <4>3, <5>1
            DEF Known, BeingForgotten, BeingShown, Vouched
        <4> QED
          BY <4>2, <4>3
      <3>3. CASE m.body \notin {"whole", "part"}
        <4>1. seen' = seen
          BY <1>10, <3>3 DEF Record
        <4>2. m.body = "unchanged"
          BY <2>1, <2>6, <3>3 DEF Messages, Known
        <4>3. p \in inspected
          BY <2>1, <3>1, <4>2 DEF Known
        <4> QED
          BY <2>1, <2>3, <2>6, <3>3, <4>1, <4>3
          DEF Known, BeingForgotten, BeingShown, Vouched
      <3> QED
        BY <3>2, <3>3
    <2> QED
      BY <2>4, <2>5, <2>6
  <1>11. CASE UNCHANGED <<pending, inspected, recorded, history>>
    BY <1>11, <1>o DEF Known, BeingForgotten, BeingShown, Vouched, history
  <1>12. ASSUME NEW f \in File, NEW c \in Content \cup {Nothing},
                ExternalChange(f, c)
         PROVE  Known'
    BY <1>11, <1>12 DEF ExternalChange
  <1>13. ASSUME NEW p \in Path, NEW tool \in Tools, LeaveUnanswered(p, tool)
         PROVE  Known'
    BY <1>11, <1>13 DEF LeaveUnanswered
  <1>14. CASE Compact \/ NextTurn
    BY <1>11, <1>14 DEF Compact, NextTurn
  <1>15. CASE Interrupt
    <2>1. /\ pending = NoCall /\ pending' = NoCall /\ interrupted # "torn"
          /\ UNCHANGED <<recorded, inspected, seen>>
      BY <1>15 DEF Interrupt
    <2> QED
      BY <1>o, <2>1 DEF Known, BeingForgotten, BeingShown, Vouched
  <1>16. CASE NewTask
    BY <1>16 DEF NewTask, Known, BeingForgotten, BeingShown, NoCall, Result,
      Note, Message
  <1>17. CASE UNCHANGED vars
    BY <1>11, <1>17 DEF vars
  <1> QED
    BY <1>2, <1>3, <1>4, <1>6, <1>7, <1>8, <1>9, <1>10, <1>12, <1>13, <1>14,
       <1>15, <1>16, <1>17
    DEF Next, ReadWhole, ReadRange

-----------------------------------------------------------------------------
(* The copies in the conversation.                                         *)

Shows(m) == m.body \in {"whole", "part"}

(* A message that makes compaction fold the earlier reads of its path.     *)
ReadOf(m) == m.tool = "read" /\ m.body # "unchanged"
Supersedes(m) == ReadOf(m) \/ m.tool = "change"

(* What folding comes to when results are paired with their own calls.     *)
FoldedInOrder(i) ==
    /\ ReadOf(convo[i])
    /\ \E j \in i+1..Len(convo) :
         convo[j].path = convo[i].path /\ Supersedes(convo[j])

(* And they are as long as none was left out: the tool message of call i   *)
(* is the i-th.                                                            *)
LEMMA InOrder ==
    ASSUME TypeOK, AllAnswered, NEW i \in DOMAIN convo
    PROVE  Folded(i) <=> FoldedInOrder(i)
  <1>1. Len(convo) \in Nat /\ DOMAIN convo = 1..Len(convo)
    BY LenProperties DEF TypeOK
  <1>2. ASSUME NEW n \in 1..Len(convo)
        PROVE  CallOf(n) = convo[n] /\ Answered(n)
    <2>1. \A j \in 1..n : Answered(j)
      BY <1>1, <1>2 DEF AllAnswered
    <2>2. {j \in 1..n : Answered(j)} = 1..n
      BY <2>1
    <2>3. 1 \in Int /\ n \in Int /\ n >= 1
      BY <1>1, <1>2
    <2>4. Cardinality(1..n) = n
      BY <2>3, FS_Interval
    <2>5. ToolMessages(n) = n
      BY <2>2, <2>4 DEF ToolMessages
    <2> QED
      BY <1>2, <2>1, <2>5 DEF CallOf
  <1>3. \A j \in i+1..Len(convo) : j \in 1..Len(convo)
    BY <1>1
  <1>4. ASSUME NEW n \in 1..Len(convo)
        PROVE  RealRead(n) <=> ReadOf(convo[n])
    BY <1>2, <1>4 DEF RealRead, ReadOf
  <1>5. i \in 1..Len(convo)
    BY <1>1
  <1>6. ASSUME NEW j \in i+1..Len(convo)
        PROVE  (/\ Answered(j)
                /\ CallOf(j).path = CallOf(i).path
                /\ RealRead(j) \/ CallOf(j).tool = "change")
               <=> convo[j].path = convo[i].path /\ Supersedes(convo[j])
    BY <1>2, <1>3, <1>4, <1>5 DEF Supersedes
  <1> QED
    BY <1>2, <1>4, <1>5, <1>6 DEF Folded, FoldedInOrder

(* The paths the property is about.                                        *)
Plain(p) == OneSpelling(p) /\ p \notin Bracketed

(* Only reads show contents; and a copy that compaction would keep is the  *)
(* recorded content, unless the call in hand is about to supersede it.     *)
Copies ==
    /\ Shows(pending.message) => pending.message.tool = "read"
    /\ \A i \in DOMAIN convo :
         Shows(convo[i]) =>
           /\ convo[i].tool = "read"
           /\ Plain(convo[i].path) =>
                \/ FoldedInOrder(i)
                \/ recorded[FileOf[convo[i].path]] \in {Nothing, convo[i].content}
                \/ /\ pending # NoCall
                   /\ pending.message.path = convo[i].path
                   /\ Supersedes(pending.message)

CopiesInv == interrupted = "no" /\ AllAnswered => Copies

LEMMA CopiesInit == Init => CopiesInv
  BY DEF Init, CopiesInv, Copies, Shows, NoCall, Result, Note, Message

(* A call leaves the copies of other paths current; it supersedes those of *)
(* its own, or leaves the record of its own file as it is.                 *)
LEMMA CopiesExecute ==
    ASSUME TypeOK, CopiesInv,
           NEW m \in Messages, NEW q,
           Shows(m) => m.tool = "read",
           Execute(Result(m, q)),
           \A f \in File : f # FileOf[m.path]
                             => recorded'[f] \in {Nothing, recorded[f]},
           \/ Supersedes(m)
           \/ Plain(m.path) => recorded'[FileOf[m.path]] = recorded[FileOf[m.path]]
    PROVE  CopiesInv'
  <1>1. /\ pending = NoCall /\ pending' = Result(m, q)
        /\ UNCHANGED <<convo, interrupted>>
    BY DEF Execute
  <1> SUFFICES ASSUME Copies PROVE Copies'
    BY <1>1 DEF CopiesInv, AllAnswered, Answered
  <1>2. pending'.message = m /\ pending' # NoCall
    BY <1>1 DEF Result, NoCall, Note, Message, Messages, Tools
  <1>3. ASSUME NEW i \in DOMAIN convo, Shows(convo[i]), ~FoldedInOrder(i),
               Plain(convo[i].path)
        PROVE  \/ recorded'[FileOf[convo[i].path]] \in {Nothing, convo[i].content}
               \/ m.path = convo[i].path /\ Supersedes(m)
    <2>1. convo[i].path \in Path /\ m.path \in Path
      <3>1. convo \in Seq(Messages)
        BY DEF TypeOK
      <3>2. convo[i] \in Messages
        BY <3>1, ElementOfSeq, LenProperties
      <3> QED
        BY <3>2 DEF Messages
    <2>2. recorded[FileOf[convo[i].path]] \in {Nothing, convo[i].content}
      BY <1>1, <1>3 DEF Copies
    <2>3. CASE m.path = convo[i].path
      BY <1>3, <2>2, <2>3
    <2>4. CASE m.path # convo[i].path
      <3>1. FileOf[convo[i].path] # FileOf[m.path]
        BY <1>3, <2>1, <2>4, OneSpellingApart DEF Plain
      <3>2. FileOf[convo[i].path] \in File
        BY <2>1, PathAssumption
      <3> QED
        BY <2>2, <3>1, <3>2
    <2> QED
      BY <2>3, <2>4
  <1>4. \A i \in DOMAIN convo : Shows(convo[i]) => convo[i].tool = "read"
    BY <1>1 DEF Copies
  <1>5. /\ \A i \in DOMAIN convo : FoldedInOrder(i)' = FoldedInOrder(i)
        /\ \A p : Plain(p)' = Plain(p)
    BY <1>1 DEF FoldedInOrder, Plain, OneSpelling
  <1> QED
    BY <1>1, <1>2, <1>3, <1>4, <1>5 DEF Copies

LEMMA CopiesRecord ==
    ASSUME TypeOK, Known, CopiesInv, Record
    PROVE  CopiesInv'
  <1> SUFFICES ASSUME interrupted' = "no", AllAnswered' PROVE Copies'
    BY DEF CopiesInv
  <1> DEFINE m == pending.message
             last == Len(convo) + 1
  <1>1. /\ pending # NoCall /\ pending' = NoCall /\ convo' = Append(convo, m)
        /\ UNCHANGED <<recorded, interrupted>>
        /\ m \in Messages /\ convo \in Seq(Messages)
    BY DEF Record, TypeOK
  <1>2. /\ Len(convo) \in Nat /\ DOMAIN convo = 1..Len(convo)
        /\ DOMAIN convo' = 1..last
        /\ convo'[last] = m
        /\ \A i \in 1..Len(convo) : convo'[i] = convo[i]
    <2>1. Len(convo) \in Nat /\ DOMAIN convo = 1..Len(convo)
      BY <1>1, LenProperties
    <2>2. /\ convo' \in Seq(Messages) /\ Len(convo') = last
          /\ convo'[last] = m
          /\ \A i \in 1..Len(convo) : convo'[i] = convo[i]
      BY <1>1, AppendProperties
    <2>3. DOMAIN convo' = 1..Len(convo')
      BY <2>2, LenProperties
    <2> QED
      BY <2>1, <2>2, <2>3
  <1>c. Copies
    <2>1. AllAnswered
      BY <1>2 DEF AllAnswered, Answered
    <2> QED
      BY <1>1, <2>1 DEF CopiesInv
  <1>3. ~Shows(pending'.message)
    BY <1>1 DEF NoCall, Result, Note, Message, Shows
  <1>p. \A p : Plain(p)' = Plain(p)
    BY DEF Plain, OneSpelling
  <1>4. ASSUME NEW i \in DOMAIN convo', Shows(convo'[i])
        PROVE  /\ convo'[i].tool = "read"
               /\ Plain(convo'[i].path) =>
                    \/ FoldedInOrder(i)'
                    \/ recorded[FileOf[convo'[i].path]]
                         \in {Nothing, convo'[i].content}
    <2>1. CASE i = last
      <3>1. convo'[i] = m /\ m.path \in Path
        BY <1>1, <1>2, <2>1 DEF Messages
      <3>2. m.tool = "read"
        BY <1>c, <1>4, <3>1 DEF Copies
      <3>3. BeingShown(m.path)
        BY <1>1, <1>4, <3>1 DEF BeingShown, Shows
      <3>4. m.content = recorded[FileOf[m.path]]
        BY <1>1, <3>1, <3>3 DEF Known
      <3> QED
        BY <3>1, <3>2, <3>4
    <2>2. CASE i # last
      <3>1. i \in DOMAIN convo /\ convo'[i] = convo[i] /\ i < last
        BY <1>2, <2>2
      <3>2. /\ convo[i].tool = "read"
            /\ Plain(convo[i].path) =>
                 \/ FoldedInOrder(i)
                 \/ recorded[FileOf[convo[i].path]] \in {Nothing, convo[i].content}
                 \/ m.path = convo[i].path /\ Supersedes(m)
        BY <1>c, <1>4, <3>1 DEF Copies
      <3>3. CASE FoldedInOrder(i)
        <4>1. PICK j \in i+1..Len(convo) :
                convo[j].path = convo[i].path /\ Supersedes(convo[j])
          BY <3>3 DEF FoldedInOrder
        <4>2. j \in 1..Len(convo) /\ j \in i+1..Len(convo')
          BY <1>1, <1>2, <3>1, <4>1, AppendProperties
        <4>3. convo'[j] = convo[j]
          BY <1>2, <4>2
        <4>4. ReadOf(convo'[i])
          BY <3>1, <3>3 DEF FoldedInOrder
        <4> QED
          BY <3>1, <3>2, <4>1, <4>2, <4>3, <4>4 DEF FoldedInOrder
      <3>4. CASE m.path = convo[i].path /\ Supersedes(m)
        <4>1. last \in i+1..Len(convo')
          BY <1>1, <1>2, <3>1, AppendProperties
        <4>2. ReadOf(convo'[i])
          BY <1>4, <3>1, <3>2 DEF Shows, ReadOf
        <4> QED
          BY <1>2, <3>1, <3>2, <3>4, <4>1, <4>2 DEF FoldedInOrder
      <3> QED
        BY <3>1, <3>2, <3>3, <3>4
    <2> QED
      BY <2>1, <2>2
  <1> QED
    BY <1>1, <1>3, <1>4, <1>p DEF Copies

(* What is left after a compaction was there before, and was not folded.   *)
LEMMA CompactedKeeps ==
    ASSUME TypeOK, CopiesInv, interrupted = "no", AllAnswered, pending = NoCall,
           NEW trimmed, NEW i \in DOMAIN convo, Shows(Compacted(trimmed)[i])
    PROVE  /\ Compacted(trimmed)[i] = convo[i]
           /\ convo[i].tool = "read"
           /\ Plain(convo[i].path) =>
                recorded[FileOf[convo[i].path]] \in {Nothing, convo[i].content}
  <1> DEFINE gone == Message("read", convo[i].path, "gone", Nothing)
  <1>1. Compacted(trimmed)[i] = IF /\ Folded(i) \/ i \in trimmed
                                   /\ convo[i].body \in {"whole", "part"}
                                   /\ convo[i].path \notin Bracketed
                                  THEN gone ELSE convo[i]
    BY DEF Compacted
  <1>2. ~Shows(gone)
    BY DEF Shows, Message
  <1> HIDE DEF gone
  <1>3. Compacted(trimmed)[i] = convo[i] /\ Shows(convo[i])
    BY <1>1, <1>2
  <1>4. convo[i].path \notin Bracketed => ~Folded(i)
    BY <1>1, <1>2, <1>3 DEF Shows
  <1>5. Plain(convo[i].path) => ~FoldedInOrder(i)
    BY <1>4, InOrder DEF Plain
  <1>6. Copies
    BY DEF CopiesInv
  <1> QED
    BY <1>3, <1>5, <1>6 DEF Copies

(* Compaction leaves no call more and none less without its result.        *)
LEMMA CompactedAnswers ==
    ASSUME NEW trimmed, NEW i \in DOMAIN convo
    PROVE  Compacted(trimmed)[i].body = "unanswered" <=> ~Answered(i)
  <1> DEFINE gone == Message("read", convo[i].path, "gone", Nothing)
  <1>1. \/ Compacted(trimmed)[i] = convo[i]
        \/ /\ Compacted(trimmed)[i] = gone
           /\ convo[i].body \in {"whole", "part"}
    BY DEF Compacted
  <1>2. gone.body = "gone"
    BY DEF Message
  <1> QED
    BY <1>1, <1>2 DEF Answered

LEMMA CopiesNext == TypeOK /\ Known /\ CopiesInv /\ [Next]_vars => CopiesInv'
  <1> SUFFICES ASSUME TypeOK, Known, CopiesInv, [Next]_vars PROVE CopiesInv'
    OBVIOUS
  <1> SUFFICES ASSUME interrupted' = "no" PROVE CopiesInv'
    BY DEF CopiesInv
  <1>t. /\ FileOf \in [Path -> File]
        /\ recorded \in [File -> Content \cup {Nothing}]
        /\ disk \in [File -> Content \cup {Nothing}]
    BY PathAssumption DEF TypeOK
  (* A change supersedes the copies of its path.                           *)
  <1>1. ASSUME NEW p \in Path, NEW q,
               Execute(Result(Message("change", p, "done", Nothing), q)),
               \A f \in File : f # FileOf[p]
                                 => recorded'[f] \in {Nothing, recorded[f]}
        PROVE  CopiesInv'
    <2> DEFINE m == Message("change", p, "done", Nothing)
    <2>1. m \in Messages /\ m.path = p /\ Supersedes(m) /\ ~Shows(m)
      BY DEF Message, Messages, Tools, Supersedes, Shows
    <2> QED
      BY <1>1, <2>1, CopiesExecute
  <1>2. ASSUME NEW p \in Path, NEW c \in Content, ApplyChange(p, c)
        PROVE  CopiesInv'
    BY <1>1, <1>2, <1>t DEF ApplyChange
  <1>3. ASSUME NEW p \in Path, ApplyDelete(p) PROVE CopiesInv'
    BY <1>1, <1>3, <1>t DEF ApplyDelete
  <1>4. ASSUME NEW p \in Path, NEW q \in Path, ApplyRename(p, q)
        PROVE  CopiesInv'
    BY <1>1, <1>4, <1>t DEF ApplyRename
  <1>h. ASSUME NEW p \in Path, RecordHash(p)
        PROVE  /\ OnDisk(p) \in Content
               /\ recorded'[FileOf[p]] = OnDisk(p)
               /\ \A f \in File : f # FileOf[p] => recorded'[f] = recorded[f]
    BY <1>h, <1>t DEF RecordHash, OnDisk
  <1>5. ASSUME NEW p \in Path, ReadCached(p) PROVE CopiesInv'
    <2> DEFINE m == Message("read", p, "unchanged", OnDisk(p))
    <2>1. /\ RecordHash(p) /\ Execute(Result(m, p))
          /\ p \in inspected /\ recorded[FileOf[p]] \in {Nothing, OnDisk(p)}
          /\ pending = NoCall /\ interrupted = "no"
      BY <1>5 DEF ReadCached, CacheHit, Fresh, Execute
    <2>2. m \in Messages /\ m.path = p /\ m.tool = "read"
      BY <1>h, <2>1 DEF Message, Messages, Tools
    <2>3. Plain(p) => recorded'[FileOf[p]] = recorded[FileOf[p]]
      BY <1>h, <2>1, VouchedBetween DEF Vouched, Plain
    <2> QED
      BY <1>h, <2>1, <2>2, <2>3, CopiesExecute
  <1>6. ASSUME NEW p \in Path, NEW body \in {"whole", "part"}, Read(p, body)
        PROVE  CopiesInv'
    <2> DEFINE m == Message("read", p, body, OnDisk(p))
    <2>1. RecordHash(p) /\ Execute(Result(m, p))
      BY <1>6 DEF Read
    <2>2. /\ m \in Messages /\ m.path = p /\ m.tool = "read"
          /\ Supersedes(m)
      BY <1>h, <2>1 DEF Message, Messages, Tools, Supersedes, ReadOf
    <2> QED
      BY <1>h, <2>1, <2>2, CopiesExecute
  <1>7. ASSUME NEW p \in Path, RangeFails(p) PROVE CopiesInv'
    <2> DEFINE m == Note("read", p)
    <2>1. RecordHash(p) /\ Execute(Result(m, p))
      BY <1>7 DEF RangeFails
    <2>2. /\ m \in Messages /\ m.path = p /\ m.tool = "read"
          /\ Supersedes(m)
      BY DEF Note, Message, Messages, Tools, Supersedes, ReadOf
    <2> QED
      BY <1>h, <2>1, <2>2, CopiesExecute
  <1>8. ASSUME NEW p \in Path, NEW tool \in Tools, CallFails(p, tool)
        PROVE  CopiesInv'
    <2> DEFINE m == Note(tool, p)
    <2>1. m \in Messages /\ m.path = p /\ ~Shows(m)
      BY DEF Note, Message, Messages, Shows
    <2>2. Execute(Result(m, p)) /\ recorded' = recorded
      BY <1>8 DEF CallFails
    <2> QED
      BY <2>1, <2>2, CopiesExecute
  <1>9. CASE Record
    BY <1>9, CopiesRecord
  <1>10. CASE UNCHANGED <<pending, convo, recorded, interrupted>>
    <2>1. /\ \A i \in DOMAIN convo : FoldedInOrder(i)' = FoldedInOrder(i)
          /\ \A p : Plain(p)' = Plain(p)
      BY <1>10 DEF FoldedInOrder, Plain, OneSpelling
    <2> QED
      BY <1>10, <2>1 DEF CopiesInv, Copies, AllAnswered, Answered
  <1>11. ASSUME NEW f \in File, NEW c \in Content \cup {Nothing},
                ExternalChange(f, c)
         PROVE  CopiesInv'
    BY <1>10, <1>11 DEF ExternalChange, history
  <1>12. ASSUME NEW p \in Path, NEW tool \in Tools, LeaveUnanswered(p, tool)
         PROVE  CopiesInv'
    <2> DEFINE m == Message(tool, p, "unanswered", Nothing)
    <2>1. m \in Messages /\ convo \in Seq(Messages) /\ m.body = "unanswered"
      BY DEF Message, Messages, TypeOK
    <2>2. convo' = Append(convo, m)
      BY <1>12 DEF LeaveUnanswered
    <2> HIDE DEF m
    <2>3. /\ convo' \in Seq(Messages) /\ Len(convo') = Len(convo) + 1
          /\ convo'[Len(convo) + 1] = m /\ Len(convo) \in Nat
      BY <2>1, <2>2, AppendProperties, LenProperties
    <2>4. Len(convo) + 1 \in DOMAIN convo'
      BY <2>3, LenProperties
    <2> QED
      BY <2>1, <2>3, <2>4 DEF CopiesInv, AllAnswered, Answered
  <1>13. CASE Compact
    <2> SUFFICES ASSUME AllAnswered' PROVE Copies'
      BY DEF CopiesInv
    <2>1. /\ pending = NoCall /\ pending' = NoCall /\ interrupted = "no"
          /\ recorded' = recorded
      BY <1>13 DEF Compact, history
    <2>2. PICK trimmed : convo' = Compacted(trimmed)
      BY <1>13 DEF Compact
    <2>3. DOMAIN convo' = DOMAIN convo
      BY <2>2 DEF Compacted
    <2>4. AllAnswered
      BY <2>2, <2>3, CompactedAnswers DEF AllAnswered, Answered
    <2>5. \A i \in DOMAIN convo' : Shows(convo'[i]) =>
            /\ convo'[i].tool = "read"
            /\ Plain(convo'[i].path) =>
                 recorded[FileOf[convo'[i].path]] \in {Nothing, convo'[i].content}
      BY <2>1, <2>2, <2>3, <2>4, CompactedKeeps
    <2>6. ~Shows(NoCall.message)
      BY DEF NoCall, Result, Note, Message, Shows
    <2>7. \A p : Plain(p)' = Plain(p)
      BY DEF Plain, OneSpelling
    <2> QED
      BY <2>1, <2>5, <2>6, <2>7 DEF Copies
  <1>14. CASE NextTurn
    BY <1>10, <1>14 DEF NextTurn, history
  <1>15. CASE Interrupt
    BY <1>15 DEF Interrupt
  <1>16. CASE NewTask
    BY <1>16 DEF NewTask, CopiesInv, Copies, Shows, NoCall, Result, Note, Message
  <1>17. CASE UNCHANGED vars
    BY <1>10, <1>17 DEF vars, history
  <1> QED
    BY <1>2, <1>3, <1>4, <1>5, <1>6, <1>7, <1>8, <1>9, <1>11, <1>12, <1>13,
       <1>14, <1>15, <1>16, <1>17
    DEF Next, ReadWhole, ReadRange

-----------------------------------------------------------------------------
(* What follows for the code.                                              *)

(* The records stay within their types, and files_inspected within its     *)
(* bound (task_state.py:38-43, 72-76).                                     *)
THEOREM TypeCorrect == Spec => []TypeOK
  <1>1. TypeInv => TypeOK
    BY DEF TypeInv
  <1> QED
    BY TypeInit, TypeNext, <1>1, PTL DEF Spec

(* For a file known under one spelling, read_file answers that it is      *)
(* unchanged only when its content on disk is what read_file last showed   *)
(* for it, unless a turn was torn off between executing a call and         *)
(* recording it, or a read that failed on its range has taken the hash of  *)
(* another content (filesystem.py:181-194, 213-216, 232-235).              *)
THEOREM NoticeTrue == Spec => []UnchangedNoticeIsTrue
  <1>1. Init => Known
    BY KnownInit
  <1>2. TypeOK /\ Known /\ [Next]_vars => Known'
    BY KnownNext
  <1>3. TypeOK /\ Known => UnchangedNoticeIsTrue
    <2> SUFFICES ASSUME TypeOK, Known, interrupted # "torn", pending = NoCall,
                        NEW p \in Path, OneSpelling(p), seen[p] # Unshown,
                        CacheHit(p)
                 PROVE  seen[p] = OnDisk(p)
      BY DEF UnchangedNoticeIsTrue, NoticeTrueOf
    <2>1. p \in inspected /\ recorded[FileOf[p]] \in {Nothing, OnDisk(p)}
      BY DEF CacheHit, Fresh
    <2>2. seen[p] = recorded[FileOf[p]] /\ recorded[FileOf[p]] # Nothing
      BY <2>1, VouchedBetween DEF Vouched
    <2> QED
      BY <2>1, <2>2
  <1> QED
    BY <1>1, <1>2, <1>3, TypeCorrect, PTL DEF Spec

(* A compaction leaves the model no copy of a file with one spelling that  *)
(* differs from the content the tracker vouches for, as long as every call *)
(* of the conversation has its result and no turn was dropped; paths that  *)
(* start with "[" excepted (context_manager.py:166-202, 204-289).          *)
THEOREM CopiesCurrent == Spec => []CopiesAreCurrent
  <1>1. Init => Known /\ CopiesInv
    BY KnownInit, CopiesInit
  <1>2. TypeOK /\ Known /\ [Next]_vars => Known'
    BY KnownNext
  <1>3. TypeOK /\ Known /\ CopiesInv /\ [Next]_vars => CopiesInv'
    BY CopiesNext
  <1>4. TypeOK /\ CopiesInv => CopiesAreCurrent
    <2> SUFFICES ASSUME TypeOK, CopiesInv, interrupted = "no", AllAnswered,
                        pending = NoCall, NEW p \in Path \ Bracketed,
                        OneSpelling(p), NEW i \in DOMAIN convo,
                        Shows(Compacted({})[i]), Compacted({})[i].path = p
                 PROVE  recorded[FileOf[p]] \in {Nothing, Compacted({})[i].content}
      BY DEF CopiesAreCurrent, CopiesCurrentOf, Shows
    <2>1. /\ Compacted({})[i] = convo[i]
          /\ Plain(convo[i].path) =>
               recorded[FileOf[convo[i].path]] \in {Nothing, convo[i].content}
      BY CompactedKeeps
    <2> QED
      BY <2>1 DEF Plain
  <1> QED
    BY <1>1, <1>2, <1>3, <1>4, TypeCorrect, PTL DEF Spec
=============================================================================
