----------------------------- MODULE WorkingSet ------------------------------
(***************************************************************************)
(* What the agent believes it knows about files, and what the conversation *)
(* really shows the model.  Three records are kept side by side: the hash  *)
(* of each file's last known content (FileStateTracker, by resolved path), *)
(* the paths read and not modified since (TaskState.files_inspected, by    *)
(* the spelling the model used) and the tool messages of the conversation, *)
(* which compact_messages folds and a broken turn's rollback cuts off.     *)
(* read_file answers "unchanged, use the copy above" from the first two.   *)
(*                                                                         *)
(* Contents are opaque values: equal contents have equal hashes.  A tool   *)
(* message is kept as the call it was made for and what its body shows;    *)
(* bodies other than file contents are all the same.  Calls of tools that  *)
(* touch no file are kept because results are paired with calls by their   *)
(* position.  Approval is GatedTurn's, and the calls that compaction       *)
(* cannot read are AgentTurn's.                                            *)
(***************************************************************************)
EXTENDS Naturals, Sequences, FiniteSets

CONSTANTS
    Path,        \* the spellings of paths the model uses
    File,        \* files, by resolved path
    FileOf,      \* the file each spelling resolves to
    Bracketed,   \* the spellings that start with "[", as in [slug]/page.tsx
    LongFiles,   \* files of more than MAX_FILE_LINES lines
    Content,     \* contents of files
    Nothing,     \* no file, no hash, no content
    Unshown,     \* a content that is recorded and was not shown
    MaxStored,   \* _MAX_STORED of task_state.py
    KeepRecent,  \* KEEP_RECENT_TOOL_MESSAGES
    MaxMessages  \* bound: calls in a conversation

ASSUME PathAssumption ==
    /\ FileOf \in [Path -> File]
    /\ Bracketed \subseteq Path
    /\ LongFiles \subseteq File
    /\ Nothing \notin Content /\ Unshown \notin Content \cup {Nothing}
    /\ Nothing \notin Path

ASSUME LimitAssumption ==
    /\ MaxStored \in Nat \ {0}
    /\ KeepRecent \in Nat
    /\ MaxMessages \in Nat

VARIABLES
    disk,         \* disk[f]: the content of f
    recorded,     \* recorded[f]: the tracker's hash of f
    inspected,    \* files_inspected, without its order
    convo,        \* the conversation's calls, each with its tool message
    turnStart,    \* how many of them precede the current turn
    pending,      \* a call that was executed and is not recorded yet
    seen,         \* history: the content read_file last showed for a path, or
                  \* Unshown once a failed read has taken the hash of another
    interrupted   \* history: the worst interruption of a turn so far

history == <<seen, interrupted>>
vars == <<disk, recorded, inspected, convo, turnStart, pending, history>>

OnDisk(p) == disk[FileOf[p]]

(* No other spelling leads to the same file.                               *)
OneSpelling(p) == \A q \in Path : FileOf[q] = FileOf[p] => q = p

(* read_file; edit_file, write_file, delete_file and rename_file; others.  *)
Tools == {"read", "change", "other"}

Message(tool, p, body, content) ==
    [tool |-> tool, path |-> p, body |-> body, content |-> content]

Note(tool, p) == Message(tool, p, "note", Nothing)

(* What is left to do for a call: append its message and, for a rename,    *)
(* forget its destination.                                                 *)
Result(m, destination) == [message |-> m, to |-> destination]

NoCall == Result(Note("none", Nothing), Nothing)

Init ==
    /\ disk \in [File -> Content \cup {Nothing}]
    /\ recorded = [f \in File |-> Nothing]
    /\ inspected = {}
    /\ convo = <<>>
    /\ turnStart = 0
    /\ pending = NoCall
    /\ seen = [p \in Path |-> Nothing]
    /\ interrupted = "no"

-----------------------------------------------------------------------------
(* A call is executed, with its effects on the disk and the tracker; then  *)
(* its event is yielded, and only when the caller comes back for more are  *)
(* TaskState and the conversation brought up to date.                      *)
Execute(result) ==
    /\ pending = NoCall
    /\ Len(convo) < MaxMessages
    /\ pending' = result
    /\ UNCHANGED <<inspected, convo, turnStart, interrupted>>

(* The turn gives up or breaks off at a call of its batch: the calls from  *)
(* there on get no tool message, and stay when the turn is over.           *)
LeaveUnanswered(p, tool) ==
    /\ pending = NoCall
    /\ Len(convo) < MaxMessages
    /\ convo' = Append(convo, Message(tool, p, "unanswered", Nothing))
    /\ turnStart' = Len(convo) + 1
    /\ UNCHANGED <<disk, recorded, inspected, pending, history>>

(* read_file.  is_fresh: the hash is that of the content on disk, or there *)
(* is none.                                                                *)
Fresh(p) == recorded[FileOf[p]] \in {Nothing, OnDisk(p)}

CacheHit(p) == p \in inspected /\ Fresh(p)

(* Any read that gets to the file's text records the hash of all of it,    *)
(* whatever part of it is shown, and if none is.                           *)
RecordHash(p) ==
    /\ OnDisk(p) # Nothing
    /\ recorded' = [recorded EXCEPT ![FileOf[p]] = OnDisk(p)]
    /\ UNCHANGED disk

(* A full read, not forced, of a path that was read and has not changed.   *)
ReadCached(p) ==
    /\ CacheHit(p)
    /\ RecordHash(p)
    /\ Execute(Result(Message("read", p, "unchanged", OnDisk(p)), p))
    /\ UNCHANGED seen

Read(p, body) ==
    /\ RecordHash(p)
    /\ Execute(Result(Message("read", p, body, OnDisk(p)), p))
    /\ UNCHANGED seen

(* A full read: forced, or of a path whose content is not known current.   *)
(* A long file is cut.                                                     *)
ReadWhole(p) == Read(p, IF FileOf[p] \in LongFiles THEN "part" ELSE "whole")

(* A read with start_line or end_line.                                     *)
ReadRange(p) == Read(p, "part")

(* One whose range is not in the file: it fails, but only after the hash   *)
(* is recorded.  Whatever was shown of another content is not what the     *)
(* tracker vouches for any more.                                           *)
RangeFails(p) ==
    /\ RecordHash(p)
    /\ Execute(Result(Note("read", p), p))
    /\ seen' = [q \in Path |->
                  IF FileOf[q] = FileOf[p] /\ seen[q] \notin {Nothing, OnDisk(p)}
                    THEN Unshown ELSE seen[q]]

(* Any other read that fails, a change that is refused by its tool,        *)
(* rejected by the human, not possible any more or not verified, and a     *)
(* call that is answered without being executed leave only their message.  *)
(* A change that was made and could not be verified is this one followed   *)
(* by an ExternalChange before it is recorded.                             *)
CallFails(p, tool) ==
    /\ Execute(Result(Note(tool, p), p))
    /\ UNCHANGED <<disk, recorded, seen>>

(* edit_file proposes no change to a file that is not fresh, but           *)
(* write_file with overwrite does not look, so any file can be changed.    *)
ApplyChange(p, c) ==
    /\ disk' = [disk EXCEPT ![FileOf[p]] = c]
    /\ recorded' = [recorded EXCEPT ![FileOf[p]] = c]
    /\ Execute(Result(Message("change", p, "done", Nothing), p))
    /\ UNCHANGED seen

ApplyDelete(p) ==
    /\ OnDisk(p) # Nothing
    /\ disk' = [disk EXCEPT ![FileOf[p]] = Nothing]
    /\ recorded' = [recorded EXCEPT ![FileOf[p]] = Nothing]
    /\ Execute(Result(Message("change", p, "done", Nothing), p))
    /\ UNCHANGED seen

ApplyRename(p, q) ==
    /\ OnDisk(p) # Nothing
    /\ OnDisk(q) = Nothing
    /\ disk' = [f \in File |-> CASE f = FileOf[p] -> Nothing
                                 [] f = FileOf[q] -> OnDisk(p)
                                 [] OTHER         -> disk[f]]
    /\ recorded' = [f \in File |-> IF f \in {FileOf[p], FileOf[q]}
                                    THEN Nothing ELSE recorded[f]]
    /\ Execute(Result(Message("change", p, "done", Nothing), q))
    /\ UNCHANGED seen

-----------------------------------------------------------------------------
(* The caller comes back.                                                  *)

(* Mutant of NoteInspected: nothing is trimmed.                            *)
NoteUntrimmed(p) == inspected' = inspected \cup {p}

(* note_file_inspected: p becomes the youngest entry, and the oldest goes  *)
(* when the list is full.  Ages are not kept, so any other entry may go.   *)
NoteInspected(p) ==
    IF p \in inspected \/ Cardinality(inspected) < MaxStored
      THEN inspected' = inspected \cup {p}
      ELSE \E oldest \in inspected : inspected' = (inspected \ {oldest}) \cup {p}

(* Mutant of Record: a rename's destination is not forgotten.              *)
RecordSourceOnly ==
    LET m == pending.message IN
    /\ pending # NoCall
    /\ CASE m.body = "note" -> UNCHANGED inspected
         [] m.body = "done" -> inspected' = inspected \ {m.path}
         [] OTHER           -> NoteInspected(m.path)
    /\ seen' = IF m.body \in {"whole", "part"}
                 THEN [seen EXCEPT ![m.path] = m.content]
                 ELSE seen
    /\ convo' = Append(convo, m)
    /\ pending' = NoCall
    /\ UNCHANGED <<disk, recorded, turnStart, interrupted>>

(* A read that succeeded is noted; a change that succeeded makes the paths *)
(* of its call forgotten, as they are spelled there; any tool message is   *)
(* appended.                                                               *)
Record ==
    LET m == pending.message IN
    /\ pending # NoCall
    /\ CASE m.body = "note" -> UNCHANGED inspected
         [] m.body = "done" -> inspected' = inspected \ {m.path, pending.to}
         [] OTHER           -> NoteInspected(m.path)
    /\ seen' = IF m.body \in {"whole", "part"}
                 THEN [seen EXCEPT ![m.path] = m.content]
                 ELSE seen
    /\ convo' = Append(convo, m)
    /\ pending' = NoCall
    /\ UNCHANGED <<disk, recorded, turnStart, interrupted>>

(* An editor, a command or a checkout changes a file.                      *)
ExternalChange(f, c) ==
    /\ c # disk[f]
    /\ disk' = [disk EXCEPT ![f] = c]
    /\ UNCHANGED <<recorded, inspected, convo, turnStart, pending, history>>

-----------------------------------------------------------------------------
(* compact_messages, at the start of an iteration.                         *)

Answered(i) == convo[i].body # "unanswered"

ToolMessages(n) == Cardinality({j \in 1..n : Answered(j)})

(* Results are paired with calls first in, first out: the tool message of  *)
(* call i is taken for the result of the oldest call that has none, which  *)
(* is another one after a call was left unanswered.                        *)
CallOf(i) == convo[ToolMessages(i)]

(* Whether the message is a notice without contents is its own mark, not   *)
(* the call's.                                                             *)
RealRead(i) == CallOf(i).tool = "read" /\ convo[i].body # "unchanged"

(* Mutant of Folded: only a later read replaces a copy.                    *)
FoldedByReads(i) ==
    /\ Answered(i) /\ RealRead(i)
    /\ \E j \in i+1..Len(convo) :
         /\ Answered(j)
         /\ CallOf(j).path = CallOf(i).path
         /\ RealRead(j)

(* Pass 1 walks the messages and replaces the last real read of a path     *)
(* when another real read of it follows (superseded), or a call to change  *)
(* it (stale), which may both have failed.                                 *)
Folded(i) ==
    /\ Answered(i) /\ RealRead(i)
    /\ \E j \in i+1..Len(convo) :
         /\ Answered(j)
         /\ CallOf(j).path = CallOf(i).path
         /\ RealRead(j) \/ CallOf(j).tool = "change"

(* Pass 2 trims old bodies, but none of the KeepRecent youngest, until the *)
(* conversation is short enough.  Sizes are not kept, so it may stop       *)
(* anywhere, and pass over a body that is shorter than its placeholder.    *)
Trimmable == {i \in DOMAIN convo :
                ToolMessages(i) + KeepRecent <= ToolMessages(Len(convo))}

(* Neither pass touches a body that starts with "[": it is taken for a     *)
(* placeholder, and a file's contents start with the path as it was        *)
(* spelled.  What is done to bodies that show no content is left out.      *)
Compacted(trimmed) ==
    [i \in DOMAIN convo |->
       IF /\ Folded(i) \/ i \in trimmed
          /\ convo[i].body \in {"whole", "part"}
          /\ convo[i].path \notin Bracketed
         THEN Message("read", convo[i].path, "gone", Nothing)
         ELSE convo[i]]

Compact ==
    /\ pending = NoCall
    /\ \E trimmed \in SUBSET Trimmable : convo' = Compacted(trimmed)
    /\ UNCHANGED <<disk, recorded, inspected, turnStart, pending, history>>

-----------------------------------------------------------------------------
(* Turns and tasks.                                                        *)

NextTurn ==
    /\ pending = NoCall
    /\ turnStart' = Len(convo)
    /\ UNCHANGED <<disk, recorded, inspected, convo, pending, history>>

(* The client is gone when an event is written, or Ctrl+C lands: the turn  *)
(* is dropped where it stands and its messages are deleted, calls without  *)
(* a result among them.                                                    *)
Interrupt ==
    /\ convo' = SubSeq(convo, 1, turnStart)
    /\ pending' = NoCall
    /\ interrupted' = IF pending # NoCall THEN "torn"
                      ELSE IF interrupted = "no" THEN "clean"
                      ELSE interrupted
    /\ UNCHANGED <<disk, recorded, inspected, turnStart, seen>>

(* /new and /task/new.                                                     *)
NewTask ==
    /\ recorded' = [f \in File |-> Nothing]
    /\ inspected' = {}
    /\ convo' = <<>>
    /\ turnStart' = 0
    /\ pending' = NoCall
    /\ seen' = [p \in Path |-> Nothing]
    /\ interrupted' = "no"
    /\ UNCHANGED disk

Next ==
    \/ \E p \in Path :
         \/ ReadCached(p) \/ ReadWhole(p) \/ ReadRange(p) \/ RangeFails(p)
         \/ \E tool \in Tools : CallFails(p, tool) \/ LeaveUnanswered(p, tool)
         \/ \E c \in Content : ApplyChange(p, c)
         \/ ApplyDelete(p)
         \/ \E q \in Path : ApplyRename(p, q)
    \/ Record
    \/ \E f \in File, c \in Content \cup {Nothing} : ExternalChange(f, c)
    \/ Compact \/ NextTurn \/ Interrupt \/ NewTask

Spec == Init /\ [][Next]_vars

-----------------------------------------------------------------------------
(* Properties.                                                             *)

Messages == [tool : Tools, path : Path,
             body : {"whole", "part", "unchanged", "note", "done", "gone",
                     "unanswered"},
             content : Content \cup {Nothing}]

(* Every variable stays within its type, and the list of paths within its  *)
(* bound (task_state.py:38-43).                                            *)
TypeOK ==
    /\ disk \in [File -> Content \cup {Nothing}]
    /\ recorded \in [File -> Content \cup {Nothing}]
    /\ inspected \subseteq Path
    /\ Cardinality(inspected) <= MaxStored
    /\ convo \in Seq(Messages)
    /\ turnStart \in 0..Len(convo)
    /\ pending \in [message : Messages, to : Path] \cup {NoCall}
    /\ seen \in [Path -> Content \cup {Nothing, Unshown}]
    /\ interrupted \in {"no", "clean", "torn"}

(* read_file would answer that p is unchanged, and that answer is true.    *)
NoticeTrueOf(p) == CacheHit(p) => seen[p] = OnDisk(p)

(* The unchanged notice is true (filesystem.py:213-216): when read_file    *)
(* would answer that a path is unchanged, its content on disk is what      *)
(* read_file last showed for that path, whatever edits, deletions and      *)
(* renames of the agent or of others, failed calls and dropped turns came  *)
(* in between.  This takes three conditions: no turn was torn off between  *)
(* executing a call and recording it; no read that failed on its range has *)
(* taken the hash of another content (filesystem.py:194 comes before       *)
(* 232-235); and the file is known under one spelling.                     *)
UnchangedNoticeIsTrue ==
    interrupted # "torn" /\ pending = NoCall =>
      \A p \in Path :
        OneSpelling(p) /\ seen[p] # Unshown => NoticeTrueOf(p)

(* The same without the first, the second and the third of them.           *)
NoticeTrueThoughTorn ==
    pending = NoCall =>
      \A p \in Path :
        OneSpelling(p) /\ seen[p] # Unshown => NoticeTrueOf(p)

NoticeTrueThoughUnshown ==
    interrupted # "torn" /\ pending = NoCall =>
      \A p \in Path : OneSpelling(p) => NoticeTrueOf(p)

NoticeTrueOfSpellings ==
    interrupted # "torn" /\ pending = NoCall =>
      \A p \in Path : seen[p] # Unshown => NoticeTrueOf(p)

(* What the notice says (filesystem.py:203-206 and 215-216): the content   *)
(* is still there, whole, earlier in the conversation.                     *)
NoticePointsAtContent ==
    pending.message.body = "unchanged"
      => \E i \in DOMAIN convo :
           convo[i] = Message("read", pending.message.path, "whole",
                              pending.message.content)

(* No copy of p that compaction leaves is known to be out of date, not     *)
(* even when nothing is trimmed.                                           *)
CopiesCurrentOf(p) ==
    \A i \in DOMAIN convo :
      LET m == Compacted({})[i] IN
        m.path = p /\ m.body \in {"whole", "part"}
          => recorded[FileOf[p]] \in {Nothing, m.content}

(* Every call of the conversation has its tool message.                    *)
AllAnswered == \A i \in DOMAIN convo : Answered(i)

(* After a compaction the model sees no copy of a file that differs from   *)
(* the content the tracker vouches for (context_manager.py:213-218): a     *)
(* copy the agent has read over or changed since is gone.  A rollback      *)
(* takes away the very messages compaction would learn this from; a call   *)
(* that was left unanswered makes it pair results with other calls; a      *)
(* change under another spelling is not of this path; and a body that      *)
(* starts with "[" is never replaced.                                      *)
CopiesAreCurrent ==
    interrupted = "no" /\ AllAnswered /\ pending = NoCall =>
      \A p \in Path \ Bracketed : OneSpelling(p) => CopiesCurrentOf(p)

(* The same after unanswered calls, and of bodies that start with "[".     *)
CopiesCurrentUnanswered ==
    interrupted = "no" /\ pending = NoCall =>
      \A p \in Path \ Bracketed : OneSpelling(p) => CopiesCurrentOf(p)

CopiesCurrentBracketed ==
    interrupted = "no" /\ AllAnswered /\ pending = NoCall =>
      \A p \in Path : OneSpelling(p) => CopiesCurrentOf(p)
=============================================================================
