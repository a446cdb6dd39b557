------------------------------ MODULE KeyQueue ------------------------------
(***************************************************************************)
(* What the keyboard promises the prompt: the keys of the keyboard arrive  *)
(* one by one in the order they were pressed and released, each with the   *)
(* modifiers as they stood at that moment. Up to Capacity keys wait; one   *)
(* that comes when that many are waiting is lost, but still counts for the *)
(* modifiers.                                                              *)
(***************************************************************************)
EXTENDS Naturals, Sequences

CONSTANTS
  Keys,             \* the keys that have a scan code
  ModifiersOf(_),   \* the modifiers a key stands for: none, or one
  Capacity,
  NoKey

VARIABLES
  last,             \* the latest press or release, [key, release]
  held,             \* the modifiers that are down
  waiting,          \* the keys waiting, [scan_code, modifiers]
  polled            \* the answer to the latest poll

vars == <<last, held, waiting, polled>>

NoScanCode == [scan_code |-> NoKey, modifiers |-> {}]

Codes == [key : Keys, release : BOOLEAN]

Init ==
  /\ last = NoKey
  /\ held = {}
  /\ waiting = <<>>
  /\ polled = NoScanCode

Key(code) ==
  /\ last' = code
  /\ held' = IF code.release THEN held \ ModifiersOf(code.key)
                             ELSE held \union ModifiersOf(code.key)
  /\ waiting' = IF Len(waiting) < Capacity
                THEN Append(waiting, [scan_code |-> code, modifiers |-> held'])
                ELSE waiting
  /\ UNCHANGED polled

Poll ==
  /\ IF waiting = <<>>
     THEN polled' = NoScanCode /\ UNCHANGED waiting
     ELSE polled' = Head(waiting) /\ waiting' = Tail(waiting)
  /\ UNCHANGED <<last, held>>

Next == Poll \/ \E code \in Codes : Key(code)

Spec == Init /\ [][Next]_vars
=============================================================================
