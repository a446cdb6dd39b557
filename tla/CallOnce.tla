------------------------------ MODULE CallOnce ------------------------------
(***************************************************************************)
(* call_once (common/include/once.h), as several kernel contexts run it on *)
(* one once_flag, for example the one guarding init_xsave_info.            *)
(*                                                                         *)
(* One action per atomic operation on _once_state; a spin that finds the   *)
(* flag locked changes nothing and is a stuttering step.                   *)
(***************************************************************************)
EXTENDS Naturals

CONSTANT Threads

VARIABLES
  once_state,   \* the bits of _once_state that are set
  pc,           \* where each thread is in call_once
  runs,         \* how often the function was started
  func          \* its last run: "never" started, "running" or "done"

vars == <<once_state, pc, runs, func>>

Locked == "locked"     \* _once_flag_locked
Inited == "init"       \* _once_flag_init

Init ==
  /\ once_state = {}
  /\ pc = [t \in Threads |-> "out"]
  /\ runs = 0
  /\ func = "never"

Goto(t, label) == pc' = [pc EXCEPT ![t] = label]

Enter(t) ==
  /\ pc[t] = "out"
  /\ Goto(t, "load")
  /\ UNCHANGED <<once_state, runs, func>>

(* Faulty variant: any bit counts as initialised. *)
FastPathAnyBit(t) ==
  /\ pc[t] = "load"
  /\ Goto(t, IF once_state # {} THEN "out" ELSE "lock")
  /\ UNCHANGED <<once_state, runs, func>>

(* The fast path: one acquire load. *)
FastPath(t) ==
  /\ pc[t] = "load"
  /\ Goto(t, IF Inited \in once_state THEN "out" ELSE "lock")
  /\ UNCHANGED <<once_state, runs, func>>

(* The fetch_or that finds the lock bit clear ends the spin. *)
Acquire(t) ==
  /\ pc[t] = "lock"
  /\ Locked \notin once_state
  /\ once_state' = once_state \union {Locked}
  /\ Goto(t, "check")
  /\ UNCHANGED <<runs, func>>

(* Faulty variant: the init bit set before the call. *)
CheckAndPublish(t) ==
  /\ pc[t] = "check"
  /\ IF Inited \in once_state
     THEN Goto(t, "release") /\ UNCHANGED <<runs, func>>
     ELSE Goto(t, "call") /\ runs' = runs + 1 /\ func' = "running"
  /\ once_state' = once_state \union {Inited}

(* The second load, under the lock; (_call)() begins if nobody ran it. *)
Check(t) ==
  /\ pc[t] = "check"
  /\ IF Inited \in once_state
     THEN Goto(t, "release") /\ UNCHANGED <<runs, func>>
     ELSE Goto(t, "call") /\ runs' = runs + 1 /\ func' = "running"
  /\ UNCHANGED once_state

CallReturns(t) ==
  /\ pc[t] = "call"
  /\ func' = "done"
  /\ Goto(t, "release")
  /\ UNCHANGED <<once_state, runs>>

(* Faulty variant: the lock bit survives. *)
ReleaseWithOr(t) ==
  /\ pc[t] = "release"
  /\ once_state' = once_state \union {Inited}
  /\ Goto(t, "out")
  /\ UNCHANGED <<runs, func>>

(* The store sets the init bit and clears the lock bit at once. *)
Release(t) ==
  /\ pc[t] = "release"
  /\ once_state' = {Inited}
  /\ Goto(t, "out")
  /\ UNCHANGED <<runs, func>>

Step(t) ==
  \/ FastPath(t)
  \/ Acquire(t)
  \/ Check(t)
  \/ CallReturns(t)
  \/ Release(t)

Next == \E t \in Threads : Enter(t) \/ Step(t)

Spec == Init /\ [][Next]_vars

(* A thread inside call_once keeps running; nobody has to call it. *)
FairSpec == Spec /\ \A t \in Threads : WF_vars(Step(t))

-----------------------------------------------------------------------------
Labels == {"out", "load", "lock", "check", "call", "release"}
Holding == {"check", "call", "release"}

TypeOK ==
  /\ once_state \subseteq {Locked, Inited}
  /\ pc \in [Threads -> Labels]
  /\ runs \in Nat
  /\ func \in {"never", "running", "done"}

(* At most one thread is past the spin and before the releasing store: the *)
(* initialiser never runs beside a second copy of itself, nor beside a     *)
(* thread that is about to publish its result.                             *)
MutualExclusion ==
  \A s, t \in Threads : pc[s] \in Holding /\ pc[t] \in Holding => s = t

(* The initialiser is started at most once, however the loads, the spins   *)
(* and the releasing stores of the threads interleave.                     *)
AtMostOnce == runs <= 1

(* The init bit is published only after the initialiser has finished, so   *)
(* the fast path of another thread never sees a half-filled table.         *)
PublishedIsComplete == Inited \in once_state => func = "done"

(* call_once implements its promise. *)
O == INSTANCE Once WITH
  status <- func,
  caller <- [t \in Threads |-> IF pc[t] = "out" THEN "out"
                               ELSE IF pc[t] = "call" THEN "running" ELSE "in"]

ImplementsOnce == O!Spec

(* Every call returns: the spin ends, because each other thread that is    *)
(* still past the fast path holds the lock once and then releases it.      *)
CallsReturn == \A t \in Threads : pc[t] # "out" ~> pc[t] = "out"
=============================================================================
