------------------------------- MODULE MCConsole -------------------------------
(***************************************************************************)
(* A screen of three rows of four columns: lines wrap twice and scroll.   *)
(***************************************************************************)
EXTENDS Console

MCKey == {"a", "enter", "back"}
MCPlain == [key \in MCKey |->
    CASE key = "a" -> "a" [] key = "enter" -> NewLine [] key = "back" -> Backspace]
MCShifted == [MCPlain EXCEPT !["a"] = "A"]

MCPrompts == {<<"p">>, <<"p", "q">>}
\* One text ends a row, one does not.
MCTexts == {<<NewLine>>, <<"p">>}

\* As in the code the options start on the last row and the last lines of the
\* heading have no row of their own; the options fill no more than that row.
MCHeading == <<[row |-> 1, text |-> <<"p">>], [row |-> 2, text |-> <<"q", "p">>],
               [row |-> 3, text |-> <<"p", "q">>]>>
MCOptionRow == [choice \in 0 .. 1 |-> 2 + choice]
MCOption == [choice \in 0 .. 1 |-> IF choice = 0 THEN <<"p">> ELSE << >>]

=============================================================================
