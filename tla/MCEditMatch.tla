------------------------------ MODULE MCEditMatch ------------------------------
(***************************************************************************)
(* EditMatch for every file of up to MaxText characters over one letter,   *)
(* the space and the line end, every old_text of up to MaxOld characters   *)
(* over those and the line number, and the texts of one or two lines below *)
(* that put it back shorter, longer, deeper and with a line number.        *)
(***************************************************************************)
EXTENDS EditMatch

CONSTANTS x, y, MaxText, MaxOld

Upto(S, n) == UNION {[1 .. k -> S] : k \in 0 .. n}

MCLetter == {x, y}

MCText == Upto({x, "sp", "nl"}, MaxText)

\* Blocks of two lines whose first is the deeper one, beyond MaxOld.
MCOldText ==
    Upto({x, "sp", "nl", "num"}, MaxOld)
      \cup {<<"sp", x, "nl", x>>, <<x, "nl", "sp", x>>, <<"sp", "num", "sp", x>>,
            <<"num", x, "nl", "num", x>>}

MCNewText ==
    {<<>>, <<y>>, <<"sp", y>>, <<y, "nl", "sp", y>>, <<"num", "sp", y>>}
=============================================================================
