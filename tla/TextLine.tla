------------------------------ MODULE TextLine ------------------------------
(***************************************************************************)
(* What the line editor of the prompt promises: a text with a cursor in it.*)
(* A character goes in before the cursor, backspace takes out the one      *)
(* before it, and enter hands the whole text, cursor or not, to eval.      *)
(***************************************************************************)
EXTENDS Sequences

CONSTANT Chars

VARIABLES
  before,       \* the text before the cursor
  after,        \* the text from the cursor on
  evaluated     \* the line eval was given last

vars == <<before, after, evaluated>>

Init ==
  /\ before = <<>>
  /\ after = <<>>
  /\ evaluated = <<>>

Insert(ch) ==
  /\ before' = Append(before, ch)
  /\ UNCHANGED <<after, evaluated>>

Backspace ==
  /\ before # <<>>
  /\ \E ch \in Chars : before = Append(before', ch)
  /\ UNCHANGED <<after, evaluated>>

Left ==
  /\ before # <<>>
  /\ before \o after = before' \o after'
  /\ \E ch \in Chars : before = Append(before', ch)
  /\ UNCHANGED evaluated

Right ==
  /\ after # <<>>
  /\ before' = Append(before, Head(after))
  /\ after' = Tail(after)
  /\ UNCHANGED evaluated

Enter ==
  /\ evaluated' = before \o after
  /\ before' = <<>>
  /\ after' = <<>>

Next ==
  \/ \E ch \in Chars : Insert(ch)
  \/ Backspace
  \/ Left
  \/ Right
  \/ Enter

Spec == Init /\ [][Next]_vars
=============================================================================
