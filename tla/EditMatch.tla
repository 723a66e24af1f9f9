------------------------------- MODULE EditMatch -------------------------------
(***************************************************************************)
(* How edit_file finds the text it replaces (tools/editing.py): first      *)
(* literally, then without the line numbers read_file prints, then line by *)
(* line without regard to indentation.                                     *)
(*                                                                         *)
(* A text is a sequence of letters, spaces ("sp"), line ends ("nl") and    *)
(* line-number prefixes ("num": the digits and the bar of "  12 | ").  The *)
(* refusals before the search that look at the file or at the wording      *)
(* (missing, sensitive, too large, a placeholder) are left to FileEdits.   *)
(***************************************************************************)
EXTENDS Naturals, Sequences, FiniteSets, SequencesExt

CONSTANTS
    Letter,     \* the characters that are neither space nor line end
    FileText,   \* the files
    OldText,    \* the values of old_text
    NewText     \* the values of new_text

Symbol == Letter \cup {"sp", "nl", "num"}

ASSUME MatchAssumption ==
    /\ FileText \cup OldText \cup NewText \subseteq Seq(Symbol)
    /\ {"sp", "nl", "num"} \cap Letter = {}

VARIABLES
    normalized,     \* the file's text when the edit is proposed
    args,           \* EditFileArgs: old_text, new_text, replace_all
    resolved        \* what _edit_file makes of them

matchVars == <<normalized, args, resolved>>

-----------------------------------------------------------------------------
(* Lines. *)

\* A finite set of numbers from the least to the greatest.
InOrder(S) ==
    [k \in 1 .. Cardinality(S) |->
       CHOOSE n \in S : Cardinality({m \in S : m < n}) = k - 1]

Lines(text) ==
    LET ends == {i \in DOMAIN text : text[i] = "nl"}
        cuts == InOrder(ends \cup {0, Len(text) + 1})
    IN  [k \in 1 .. Len(cuts) - 1 |-> SubSeq(text, cuts[k] + 1, cuts[k + 1] - 1)]

Joined(lines) ==
    FlattenSeq([k \in DOMAIN lines |->
                  IF k = 1 THEN lines[k] ELSE <<"nl">> \o lines[k]])

Ink(line) == {i \in DOMAIN line : line[i] # "sp"}

Indent(line) == IF Ink(line) = {} THEN Len(line) ELSE Min(Ink(line)) - 1

Stripped(line) ==
    IF Ink(line) = {} THEN <<>> ELSE SubSeq(line, Min(Ink(line)), Max(Ink(line)))

StrippedAll(lines) == [k \in DOMAIN lines |-> Stripped(lines[k])]

Meaningful(lines) == {k \in DOMAIN lines : Ink(lines[k]) # {}}

\* The indentation of the shallowest line that is not blank.
Shallowest(lines) ==
    IF Meaningful(lines) = {} THEN 0
    ELSE Min({Indent(lines[k]) : k \in Meaningful(lines)})

\* A final line end opens no line of its own.
AsBlock(text) ==
    LET lines == Lines(text)
    IN  IF Len(lines) > 1 /\ Last(lines) = <<>> THEN Front(lines) ELSE lines

Dedented(lines) ==
    [k \in DOMAIN lines |->
       IF Ink(lines[k]) = {} THEN <<>>
       ELSE SubSeq(lines[k], Shallowest(lines) + 1, Len(lines[k]))]

-----------------------------------------------------------------------------
(* read_file's line numbers: taken off when every line that is not blank has one. *)

Numbered(line) == Ink(line) # {} /\ line[Indent(line) + 1] = "num"

\* The prefix goes with the spaces before it and one space after it.
Unnumbered(line) ==
    LET n == Indent(line) + 1
        m == IF n < Len(line) /\ line[n + 1] = "sp" THEN n + 1 ELSE n
    IN  SubSeq(line, m + 1, Len(line))

StripNumbers(text) ==
    LET lines == Lines(text)
    IN  IF /\ Meaningful(lines) # {}
           /\ \A k \in Meaningful(lines) : Numbered(lines[k])
        THEN Joined([k \in DOMAIN lines |->
                       IF k \in Meaningful(lines) THEN Unnumbered(lines[k]) ELSE lines[k]])
        ELSE text

-----------------------------------------------------------------------------
(* Searching and replacing. *)

OccursAt(whole, part, i) ==
    i + Len(part) <= Len(whole) + 1 /\ SubSeq(whole, i, i + Len(part) - 1) = part

\* The places str.count counts: from the left, none inside the one before.
Found(whole, part) ==
    LET upTo[i \in 0 .. Len(whole) + 1] ==
          IF i = 0 THEN {}
          ELSE IF /\ OccursAt(whole, part, i)
                  /\ \A j \in upTo[i - 1] : j + Len(part) <= i
               THEN upTo[i - 1] \cup {i}
               ELSE upTo[i - 1]
    IN  upTo[Len(whole) + 1]

\* whole with what stands at the places, as long as part each, replaced by by.
Replaced(whole, part, by, places) ==
    FlattenSeq([i \in 1 .. Len(whole) + 1 |->
      (IF i \in places THEN by ELSE <<>>)
        \o (IF i > Len(whole) \/ \E p \in places : p <= i /\ i < p + Len(part)
            THEN <<>> ELSE <<whole[i]>>)])

Refused(why) == [kind |-> why, strategy |-> "none", text |-> <<>>]
Matched(strategy, text) == [kind |-> "matched", strategy |-> strategy, text |-> text]

\* Mutant of ApplyLiteral: the first place is taken where there are several.
ApplyLiteralFirst(strategy, text, old, new, all) ==
    LET places == Found(text, old)
    IN  Matched(strategy, Replaced(text, old, new,
                                   IF all THEN places ELSE {Min(places)}))

\* The literal strategies, for a text that occurs.
ApplyLiteral(strategy, text, old, new, all) ==
    LET places == Found(text, old)
    IN  IF Cardinality(places) > 1 /\ ~all
        THEN Refused("ambiguous")
        ELSE Matched(strategy, Replaced(text, old, new, places))

\* The windows of lines that are the block up to leading and trailing spaces.
Windows(lines, block) ==
    {i \in DOMAIN lines :
       OccursAt(StrippedAll(lines), StrippedAll(block), i)}

\* Mutant of Splice: the block takes the indentation of the first line.
SpliceAtFirstLine(lines, start, span, block) ==
    LET margin == [i \in 1 .. Indent(lines[start]) |-> "sp"]
    IN  SubSeq(lines, 1, start - 1)
          \o [k \in DOMAIN block |-> IF block[k] = <<>> THEN <<>> ELSE margin \o block[k]]
          \o SubSeq(lines, start + span, Len(lines))

\* One window replaced, at the indentation the file has there.
Splice(lines, start, span, block) ==
    LET matched == SubSeq(lines, start, Min({start + span - 1, Len(lines)}))
        margin == [i \in 1 .. Shallowest(matched) |-> "sp"]
        indented == [k \in DOMAIN block |->
                       IF block[k] = <<>> THEN <<>> ELSE margin \o block[k]]
    IN  SubSeq(lines, 1, start - 1) \o indented \o SubSeq(lines, start + span, Len(lines))

\* Mutant of SpliceAll: from the first to the last, which moves the later windows.
SpliceAllForward(lines, starts, span, block) ==
    FoldLeft(LAMBDA ls, start : Splice(ls, start, span, block), lines,
             InOrder(starts))

\* The windows are replaced from the last to the first.
SpliceAll(lines, starts, span, block) ==
    FoldLeft(LAMBDA ls, start : Splice(ls, start, span, block), lines,
             Reverse(InOrder(starts)))

ApplyWhitespaceInsensitive(text, old, new, all) ==
    LET block == AsBlock(old)
        starts == Windows(Lines(text), block)
    IN  IF starts = {} THEN Refused("not_found")
        ELSE IF Cardinality(starts) > 1 /\ ~all THEN Refused("ambiguous")
        ELSE Matched("lines",
               Joined(SpliceAll(Lines(text), starts, Len(block),
                                Dedented(AsBlock(new)))))

\* Mutant of ResolveReplacement: the line numbers are taken off before the first search.
ResolveStrippedFirst(text, old, new, all) ==
    LET bareOld == StripNumbers(old)
        bareNew == StripNumbers(new)
    IN  IF Found(text, bareOld) # {}
        THEN ApplyLiteral("literal", text, bareOld, bareNew, all)
        ELSE ApplyWhitespaceInsensitive(text, bareOld, bareNew, all)

\* The first strategy that finds the text decides.
ResolveReplacement(text, old, new, all) ==
    LET bareOld == StripNumbers(old)
        bareNew == StripNumbers(new)
    IN  IF Found(text, old) # {} THEN ApplyLiteral("literal", text, old, new, all)
        ELSE IF bareOld # old /\ Found(text, bareOld) # {}
        THEN IF bareOld = bareNew THEN Refused("identical")
             ELSE ApplyLiteral("unnumbered", text, bareOld, bareNew, all)
        ELSE ApplyWhitespaceInsensitive(text, bareOld, bareNew, all)

-----------------------------------------------------------------------------
(* One call of edit_file, up to the proposal. *)

Waiting == Refused("waiting")

MatchInit ==
    /\ normalized \in FileText
    /\ args \in [old : OldText, new : NewText, all : BOOLEAN]
    /\ resolved = Waiting

\* old_text is missing, or there is nothing to change.
RejectEdit ==
    /\ resolved = Waiting
    /\ args.old = <<>> \/ args.old = args.new
    /\ resolved' = Refused(IF args.old = <<>> THEN "empty" ELSE "identical")
    /\ UNCHANGED <<normalized, args>>

EditFile ==
    LET found == ResolveReplacement(normalized, args.old, args.new, args.all)
    IN  /\ resolved = Waiting
        /\ args.old # <<>> /\ args.old # args.new
        /\ resolved' = IF found.kind = "matched" /\ found.text = normalized
                     THEN Refused("unchanged") ELSE found
        /\ UNCHANGED <<normalized, args>>

MatchNext == RejectEdit \/ EditFile

MatchSpec == MatchInit /\ [][MatchNext]_matchVars

-----------------------------------------------------------------------------
(* Properties. *)

Accepted == resolved.kind = "matched"

\* What was searched for, with the strategy that found it.
Anchor ==
    CASE resolved.strategy = "literal" -> args.old
      [] resolved.strategy = "unnumbered" -> StripNumbers(args.old)
      [] OTHER -> Joined(AsBlock(StripNumbers(args.old)))

FileLines == Lines(normalized)
OldBlock == AsBlock(StripNumbers(args.old))
NewBlock == AsBlock(StripNumbers(args.new))
Starts == Windows(FileLines, OldBlock)

\* An edit whose old_text stands at one place of the file is made there and
\* with new_text as it is, whatever the forgiving strategies would make of the
\* same texts: "neither fallback can change the result of an edit that was
\* already correct" (_resolve_replacement).
LiteralWins ==
    resolved # Waiting /\ args.old # <<>> /\ args.old # args.new =>
        \A i \in DOMAIN normalized :
            (\A j \in DOMAIN normalized : OccursAt(normalized, args.old, j) <=> j = i)
              => /\ Accepted
                 /\ resolved.text = SubSeq(normalized, 1, i - 1) \o args.new
                      \o SubSeq(normalized, i + Len(args.old), Len(normalized))

\* Without replace_all no accepted edit had a second target: the text searched
\* for has no other place in the file that does not overlap the one replaced,
\* and the block of lines has no other place at all (count and the ambiguity
\* errors of both strategies).
OneTargetUnlessAll ==
    Accepted /\ ~args.all =>
        IF resolved.strategy = "lines"
        THEN Cardinality(Starts) = 1
        ELSE \A i, j \in 1 .. Len(normalized) + 1 :
                /\ OccursAt(normalized, Anchor, i)
                /\ OccursAt(normalized, Anchor, j)
                => i = j \/ (i < j + Len(Anchor) /\ j < i + Len(Anchor))

\* Matching without regard to indentation replaces whole blocks, each once, and
\* moves or drops no other line, whatever the lengths of the two blocks: up to
\* indentation the result is the file's lines with every window exchanged.  The
\* windows must not overlap; where they do the code replaces lines it has just
\* put there (_apply_whitespace_insensitive).
ReplacesWholeBlocks ==
    /\ Accepted /\ resolved.strategy = "lines"
    /\ \A i, j \in Starts : i < j => i + Len(OldBlock) <= j
    => StrippedAll(Lines(resolved.text))
         = Replaced(StrippedAll(FileLines), OldBlock, StrippedAll(NewBlock), Starts)

\* A block replaced without regard to indentation lands at the margin of what it
\* replaces and keeps its own nesting: its shallowest line is as deep as the
\* shallowest line that was there, also where the block starts deeper than it
\* ends ("correct for one that starts deeper than it ends").
BlockKeepsMargin ==
    /\ Accepted /\ resolved.strategy = "lines" /\ Cardinality(Starts) = 1
    /\ Meaningful(OldBlock) # {} /\ Meaningful(NewBlock) # {}
    => LET start == CHOOSE i \in Starts : TRUE
           before == SubSeq(FileLines, start, start + Len(OldBlock) - 1)
           after == SubSeq(Lines(resolved.text), start, start + Len(NewBlock) - 1)
       IN  /\ Shallowest(after) = Shallowest(before)
           /\ Dedented(after) = Dedented(NewBlock)

\* An edit replaces something: the text searched for is not empty.  _edit_file
\* promises it of every call: "edit_file replaces one exact existing block of
\* text -- it cannot insert/append/rewrite a file with no anchor".
EditHasAnchor ==
    Accepted /\ resolved.strategy # "lines" => Anchor # <<>>
=============================================================================
