------------------------------ MODULE LineEditor ------------------------------
(***************************************************************************)
(* What a program that asks for a line may rely on: the prompt stays, the  *)
(* keys edit a line of at most Limit characters, what is visible from the  *)
(* prompt on is the line (or a mask for each of its characters), and Enter *)
(* hands over what was visible.  Console implements it with a screen that  *)
(* wraps and scrolls.                                                      *)
(***************************************************************************)
EXTENDS Integers, Sequences

CONSTANTS Glyph, Mask, Limit

VARIABLES
    asking,     \* a line is being read
    prompt,     \* what was asked
    masked,     \* its characters are not to be seen
    line,       \* the line so far
    visible     \* what the user sees from the prompt on

editorVars == <<asking, prompt, masked, line, visible>>

Seen(text, hide) == [k \in 1 .. Len(text) |-> IF hide THEN Mask ELSE text[k]]

EditorInit == ~ asking

Ask ==
    /\ ~ asking
    /\ asking'
    /\ line' = << >>
    /\ visible' = prompt'

Edit(text) ==
    /\ asking /\ asking'
    /\ line' = text
    /\ visible' = prompt \o Seen(text, masked)
    /\ UNCHANGED <<prompt, masked>>

Insert(c) == Len(line) < Limit /\ Edit(Append(line, c))
Erase == line # << >> /\ Edit(SubSeq(line, 1, Len(line) - 1))

Accept ==
    /\ asking /\ ~ asking'
    /\ line' = line

\* Between two questions the program prints what it likes.
Idle == ~ asking /\ ~ asking'

EditorNext == Ask \/ (\E c \in Glyph : Insert(c)) \/ Erase \/ Accept \/ Idle

EditorSpec == EditorInit /\ [][EditorNext]_editorVars

=============================================================================
