-------------------------------- MODULE Once --------------------------------
(* What call_once promises (common/include/once.h): the function is run at *)
(* most once, and a call returns only after it has been run to its end.    *)
CONSTANT Threads

VARIABLES
  status,   \* the function: "never" run, "running", "done"
  caller    \* each thread: "out" of call_once, "in" it, or "running" the function

onceVars == <<status, caller>>

Init ==
  /\ status = "never"
  /\ caller = [t \in Threads |-> "out"]

Call(t) ==
  /\ caller[t] = "out"
  /\ caller' = [caller EXCEPT ![t] = "in"]
  /\ UNCHANGED status

Begin(t) ==
  /\ caller[t] = "in"
  /\ status = "never"
  /\ status' = "running"
  /\ caller' = [caller EXCEPT ![t] = "running"]

Finish(t) ==
  /\ caller[t] = "running"
  /\ status' = "done"
  /\ caller' = [caller EXCEPT ![t] = "in"]

Return(t) ==
  /\ caller[t] = "in"
  /\ status = "done"
  /\ caller' = [caller EXCEPT ![t] = "out"]
  /\ UNCHANGED status

Next == \E t \in Threads : Call(t) \/ Begin(t) \/ Finish(t) \/ Return(t)

Spec == Init /\ [][Next]_onceVars
=============================================================================
