---------------------------- MODULE KernelRandom ----------------------------
(***************************************************************************)
(* The random generators of a kernel context and its threads               *)
(* (kernel/src/common/entropy.c over randlib/src/random.c).                *)
(*                                                                         *)
(* A generator is [state, ticks]: the state moves on with every rand_poll  *)
(* and rand_ingest, ticks is _ticks_since_ingest. The context's generator  *)
(* kgen is shared and guarded by kgen_lock; each thread has one of its own *)
(* (urand_gen), used without a lock. Inside the lock the generator is read *)
(* and written back in two steps, so that two threads there would be seen. *)
(* rand_slow_get_entropy (the CPU's source and two polls of the event      *)
(* ring) is abstracted to fresh entropy: it only moves the state on. The   *)
(* states are numbered modulo StateCycle, so that runs never end.          *)
(***************************************************************************)
EXTENDS Naturals

CONSTANTS
  Threads,
  KERNEL_TICKS,   \* KERNEL_TICKS_SINCE_INGEST, 16 in the code
  USER_TICKS,     \* USER_TICKS_SINCE_INGEST, 128 in the code
  StateCycle      \* how many states of a generator are told apart

ASSUME TicksAssumption ==
  /\ KERNEL_TICKS \in Nat \ {0}
  /\ USER_TICKS \in Nat \ {0}
  /\ StateCycle \in Nat \ {0}

VARIABLES
  kgen_lock,
  kgen,         \* [state, ticks]
  uticks,       \* _ticks_since_ingest of each thread's urand_gen
  pc,           \* where each thread is
  op,           \* what it holds kgen_lock for: "user" reseed, "gen", "ingest"
  copy          \* the generator as the thread read it

vars == <<kgen_lock, kgen, uticks, pc, op, copy>>

Fresh == [state |-> 0, ticks |-> 0]

(* kmain has seeded both generators before it enables interrupts. *)
Init ==
  /\ kgen_lock = 0
  /\ kgen = [state |-> 2 % StateCycle, ticks |-> 1]
  /\ uticks = [t \in Threads |-> 0]
  /\ pc = [t \in Threads |-> "idle"]
  /\ op = [t \in Threads |-> "gen"]
  /\ copy = [t \in Threads |-> Fresh]

Goto(t, label) == pc' = [pc EXCEPT ![t] = label]

-----------------------------------------------------------------------------
(* rand_poll and rand_ingest on a generator. *)
Polled(gen)   == [state |-> (gen.state + 1) % StateCycle, ticks |-> gen.ticks + 1]
Ingested(gen) == [state |-> (gen.state + 1) % StateCycle, ticks |-> 0]

(* Faulty variant: one poll too many before new entropy. *)
ReseededLate(gen, threshold) == IF gen.ticks > threshold THEN Ingested(gen) ELSE gen

Reseeded(gen, threshold) == IF gen.ticks >= threshold THEN Ingested(gen) ELSE gen

(* random_global_gen: the thread's own generator, unless it is due for     *)
(* new entropy, which comes from kgen.                                     *)
GlobalGen(t) ==
  /\ pc[t] = "idle"
  /\ IF uticks[t] >= USER_TICKS
     THEN /\ op' = [op EXCEPT ![t] = "user"]
          /\ Goto(t, "try")
          /\ UNCHANGED uticks
     ELSE /\ uticks' = [uticks EXCEPT ![t] = @ + 1]
          /\ UNCHANGED <<op, pc>>
  /\ UNCHANGED <<kgen_lock, kgen, copy>>

(* random_global_ingest *)
GlobalIngest(t) ==
  /\ pc[t] = "idle"
  /\ uticks' = [uticks EXCEPT ![t] = 0]
  /\ UNCHANGED <<kgen_lock, kgen, pc, op, copy>>

(* random_kglobal_gen, called for itself. *)
KGlobalGen(t) ==
  /\ pc[t] = "idle"
  /\ op' = [op EXCEPT ![t] = "gen"]
  /\ Goto(t, "try")
  /\ UNCHANGED <<kgen_lock, kgen, uticks, copy>>

(* random_kglobal_ingest *)
KGlobalIngest(t) ==
  /\ pc[t] = "idle"
  /\ op' = [op EXCEPT ![t] = "ingest"]
  /\ Goto(t, "spin")
  /\ UNCHANGED <<kgen_lock, kgen, uticks, copy>>

(* Faulty variant: the result of the fetch_or is not looked at. *)
TryLockAnyway(t) ==
  /\ pc[t] = "try"
  /\ kgen_lock' = 1
  /\ Goto(t, "load")
  /\ UNCHANGED <<kgen, uticks, op, copy>>

(* Faulty variant: draw waits for the lock, as ingest does. *)
TryLockWaits(t) ==
  /\ pc[t] = "try" /\ kgen_lock = 0
  /\ kgen_lock' = 1
  /\ Goto(t, "load")
  /\ UNCHANGED <<kgen, uticks, op, copy>>

(* The fetch_or of random_kglobal_gen. If the lock is taken it returns -1  *)
(* and random_global_gen turns to rand_slow_get_entropy instead.           *)
TryLock(t) ==
  /\ pc[t] = "try"
  /\ kgen_lock' = 1
  /\ Goto(t, IF kgen_lock = 0 THEN "load"
             ELSE IF op[t] = "user" THEN "reseed" ELSE "idle")
  /\ UNCHANGED <<kgen, uticks, op, copy>>

(* The fetch_or of random_kglobal_ingest that ends the spin. *)
SpinLock(t) ==
  /\ pc[t] = "spin" /\ kgen_lock = 0
  /\ kgen_lock' = 1
  /\ Goto(t, "load")
  /\ UNCHANGED <<kgen, uticks, op, copy>>

Load(t) ==
  /\ pc[t] = "load"
  /\ copy' = [copy EXCEPT ![t] = kgen]
  /\ Goto(t, "store")
  /\ UNCHANGED <<kgen_lock, kgen, uticks, op>>

StoreIngested(t) ==
  /\ pc[t] = "store" /\ op[t] = "ingest"
  /\ kgen' = Ingested(Reseeded(copy[t], KERNEL_TICKS \div 2))
  /\ copy' = [copy EXCEPT ![t] = Fresh]
  /\ Goto(t, "unlock")
  /\ UNCHANGED <<kgen_lock, uticks, op>>

StorePolled(t) ==
  /\ pc[t] = "store" /\ op[t] # "ingest"
  /\ kgen' = Polled(Reseeded(copy[t], KERNEL_TICKS))
  /\ copy' = [copy EXCEPT ![t] = Fresh]
  /\ Goto(t, "unlock")
  /\ UNCHANGED <<kgen_lock, uticks, op>>

Unlock(t) ==
  /\ pc[t] = "unlock"
  /\ kgen_lock' = 0
  /\ Goto(t, IF op[t] = "user" THEN "reseed" ELSE "idle")
  /\ UNCHANGED <<kgen, uticks, op, copy>>

(* The rest of random_global_gen: rand_ingest, then rand_poll. *)
Reseed(t) ==
  /\ pc[t] = "reseed"
  /\ uticks' = [uticks EXCEPT ![t] = 1]
  /\ Goto(t, "idle")
  /\ UNCHANGED <<kgen_lock, kgen, op, copy>>

Call(t) == GlobalGen(t) \/ GlobalIngest(t) \/ KGlobalGen(t) \/ KGlobalIngest(t)

Step(t) ==
  \/ TryLock(t)
  \/ SpinLock(t)
  \/ Load(t)
  \/ StoreIngested(t)
  \/ StorePolled(t)
  \/ Unlock(t)
  \/ Reseed(t)

Next == \E t \in Threads : Call(t) \/ Step(t)

Spec == Init /\ [][Next]_vars

-----------------------------------------------------------------------------
Holding == {"load", "store", "unlock"}

TypeOK ==
  /\ kgen_lock \in {0, 1}
  /\ kgen \in [state : Nat, ticks : Nat]
  /\ uticks \in [Threads -> Nat]
  /\ pc \in [Threads -> Holding \union {"idle", "try", "spin", "reseed"}]
  /\ op \in [Threads -> {"user", "gen", "ingest"}]
  /\ copy \in [Threads -> [state : Nat, ticks : Nat]]

(* Only one thread at a time works on the context's generator, whether it  *)
(* came by the try-lock or by the spin, and a failed try does not let go   *)
(* of, nor take, somebody else's lock.                                     *)
KgenExclusive ==
  /\ \A s, t \in Threads : pc[s] \in Holding /\ pc[t] \in Holding => s = t
  /\ kgen_lock = 1 <=> \E t \in Threads : pc[t] \in Holding

(* No two callers are ever given the same bytes of the context's generator,*)
(* and no injected entropy is lost: what is stored continues the           *)
(* generator's present state, never an older one.                          *)
NoUseIsLost == \A t \in Threads : pc[t] = "store" => copy[t] = kgen

(* No generator is polled more often than its limit allows between two     *)
(* injections of entropy, with threads competing for kgen throughout.      *)
ReseededInTime ==
  /\ kgen.ticks <= KERNEL_TICKS
  /\ \A t \in Threads : uticks[t] <= USER_TICKS

(* A thread that draws random bytes is never made to wait by the others,   *)
(* however often they take kgen_lock: the call returns, with bytes or      *)
(* without. (random_kglobal_ingest does wait, with no bound on how long.)  *)
DrawsReturn ==
  \A t \in Threads : pc[t] # "idle" /\ op[t] # "ingest" ~> pc[t] = "idle"
=============================================================================
