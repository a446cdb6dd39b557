---------------------------- MODULE RandomProofs ----------------------------
(***************************************************************************)
(* Safety of the generators of entropy.c, and of the devices over them,    *)
(* for any number of threads and any reseeding limits: the lock of the     *)
(* context's generator is exclusive whichever way it is taken, no use of   *)
(* the generator is lost, every generator is given new entropy in time,    *)
(* and a device counts what it read.                                       *)
(***************************************************************************)
EXTENDS RandDev, TLAPS

Generator == [state : Nat, ticks : 0..KERNEL_TICKS]

(* What the properties rest on: the lock word says whether a thread is     *)
(* inside, and what a thread has read while inside is still the truth.     *)
IInv ==
  /\ kgen_lock \in {0, 1}
  /\ kgen \in Generator
  /\ uticks \in [Threads -> 0..USER_TICKS]
  /\ pc \in [Threads -> Holding \union {"idle", "try", "spin", "reseed"}]
  /\ op \in [Threads -> {"user", "gen", "ingest"}]
  /\ copy \in [Threads -> Generator]
  /\ KgenExclusive
  /\ NoUseIsLost

(* What rand_ingest, with or without a reseeding before it, leaves.        *)
LEMMA IngestedGenerator ==
  ASSUME NEW gen \in Generator, NEW threshold \in Nat
  PROVE  /\ Ingested(gen) \in Generator
         /\ Reseeded(gen, threshold) \in Generator
         /\ Ingested(Reseeded(gen, threshold)) \in Generator
<1>1. \A g \in Generator : Ingested(g) \in Generator
  BY TicksAssumption DEF Generator, Ingested
<1> QED
  BY <1>1 DEF Reseeded

(* What rand_poll leaves when the generator was reseeded first if it was   *)
(* due: one poll more, never above the limit.                              *)
LEMMA PolledGenerator ==
  ASSUME NEW gen \in Generator
  PROVE  Polled(Reseeded(gen, KERNEL_TICKS)) \in Generator
<1> DEFINE r == Reseeded(gen, KERNEL_TICKS)
<1>1. r \in Generator /\ r.ticks < KERNEL_TICKS
  BY TicksAssumption DEF Generator, Reseeded, Ingested
<1>2. ASSUME NEW g \in Generator, g.ticks < KERNEL_TICKS
      PROVE  Polled(g) \in Generator
  BY <1>2, TicksAssumption DEF Generator, Polled
<1> QED
  BY <1>1, <1>2

LEMMA InitIInv == Init => IInv
BY TicksAssumption DEF Init, IInv, Generator, Fresh, KgenExclusive, NoUseIsLost, Holding

LEMMA NextIInv == IInv /\ [Next]_vars => IInv'
<1> SUFFICES ASSUME IInv, [Next]_vars PROVE IInv'
  OBVIOUS
<1> USE DEF IInv, Goto
<1>1. CASE UNCHANGED vars
  BY <1>1 DEF vars, KgenExclusive, NoUseIsLost, Holding, Generator
<1>2. ASSUME NEW t \in Threads, Call(t)
      PROVE  IInv'
  <2>1. CASE GlobalGen(t)
    BY <2>1, TicksAssumption DEF GlobalGen, KgenExclusive, NoUseIsLost, Holding
  <2>2. CASE GlobalIngest(t)
    BY <2>2, TicksAssumption DEF GlobalIngest, KgenExclusive, NoUseIsLost, Holding
  <2>3. CASE KGlobalGen(t)
    BY <2>3 DEF KGlobalGen, KgenExclusive, NoUseIsLost, Holding
  <2>4. CASE KGlobalIngest(t)
    BY <2>4 DEF KGlobalIngest, KgenExclusive, NoUseIsLost, Holding
  <2> QED
    BY <1>2, <2>1, <2>2, <2>3, <2>4 DEF Call
<1>3. ASSUME NEW t \in Threads, Step(t)
      PROVE  IInv'
  <2>1. CASE TryLock(t)
    BY <2>1 DEF TryLock, KgenExclusive, NoUseIsLost, Holding
  <2>2. CASE SpinLock(t)
    BY <2>2 DEF SpinLock, KgenExclusive, NoUseIsLost, Holding
  <2>3. CASE Load(t)
    BY <2>3 DEF Load, KgenExclusive, NoUseIsLost, Holding
  <2>4. ASSUME NEW g \in Generator, pc[t] = "store", kgen' = g,
               copy' = [copy EXCEPT ![t] = Fresh], Goto(t, "unlock"),
               UNCHANGED <<kgen_lock, uticks, op>>
        PROVE  IInv'
    <3>1. Fresh \in Generator
      BY TicksAssumption DEF Fresh, Generator
    <3> QED
      BY <2>4, <3>1 DEF KgenExclusive, NoUseIsLost, Holding
  <2>5. CASE StoreIngested(t)
    <3>1. copy[t] \in Generator /\ KERNEL_TICKS \div 2 \in Nat
      BY TicksAssumption
    <3> QED
      BY <2>4, <2>5, <3>1, IngestedGenerator DEF StoreIngested
  <2>6. CASE StorePolled(t)
    <3>1. copy[t] \in Generator
      OBVIOUS
    <3> QED
      BY <2>4, <2>6, <3>1, PolledGenerator DEF StorePolled
  <2>7. CASE Unlock(t)
    BY <2>7 DEF Unlock, KgenExclusive, NoUseIsLost, Holding
  <2>8. CASE Reseed(t)
    BY <2>8, TicksAssumption DEF Reseed, KgenExclusive, NoUseIsLost, Holding
  <2> QED
    BY <1>3, <2>1, <2>2, <2>3, <2>5, <2>6, <2>7, <2>8 DEF Step
<1> QED
  BY <1>1, <1>2, <1>3 DEF Next

(* The invariant holds in every reachable state.                           *)
THEOREM IInvHolds == Spec => []IInv
BY InitIInv, NextIInv, PTL DEF Spec

(* One thread at a time works on the context's generator, and kgen_lock is *)
(* set exactly while one does.                                             *)
THEOREM KgenExclusiveTheorem == Spec => []KgenExclusive
<1>1. IInv => KgenExclusive
  BY DEF IInv
<1> QED
  BY <1>1, IInvHolds, PTL

(* What random_kglobal_gen and random_kglobal_ingest store always continues*)
(* the generator's present state: no output is given out twice and no      *)
(* entropy is dropped.                                                     *)
THEOREM NoUseIsLostTheorem == Spec => []NoUseIsLost
<1>1. IInv => NoUseIsLost
  BY DEF IInv
<1> QED
  BY <1>1, IInvHolds, PTL

(* No generator, shared or a thread's own, gives out more than its limit   *)
(* between two injections of entropy.                                      *)
THEOREM ReseededTheorem == Spec => []ReseededInTime
<1>1. IInv => ReseededInTime
  BY TicksAssumption DEF IInv, ReseededInTime, Generator
<1> QED
  BY <1>1, IInvHolds, PTL

-----------------------------------------------------------------------------
(* The devices use the generators as any caller does.                      *)
LEMMA DevNextIsNext == [DevNext]_devVars => [Next]_vars
<1> SUFFICES ASSUME DevNext PROVE Next \/ UNCHANGED vars
  BY DEF devVars
<1>1. ASSUME NEW t \in Users, Device(t)
      PROVE  Next \/ UNCHANGED vars
  <2>1. t \in Threads
    BY DeviceAssumption
  <2> QED
    BY <1>1, <2>1 DEF Device, CallGen, CallIngest, Return, Next, Call
<1>2. ASSUME NEW t \in Users, NEW kind, NEW kernel, NEW asked, Open(t, kind, kernel, asked)
      PROVE  UNCHANGED vars
  BY <1>2 DEF Open
<1>3. ASSUME NEW t \in Threads, Inside(t) \/ Call(t)
      PROVE  Next
  BY <1>3 DEF Inside, Next
<1> QED
  BY <1>1, <1>2, <1>3 DEF DevNext

(* The devices implement the generators with callers that may call at any  *)
(* time: what holds of those holds with the devices.                       *)
THEOREM DevicesImplementGenerators == DevSpec => Spec
<1>1. DevInit => Init
  BY DEF DevInit
<1> QED
  BY <1>1, DevNextIsNext, PTL DEF DevSpec, Spec

(* No use of kgen is lost, with devices or without.                        *)
THEOREM DevNoUseIsLostTheorem == DevSpec => []NoUseIsLost
BY DevicesImplementGenerators, NoUseIsLostTheorem, PTL

(* Devices read through a generator no further than to its limit.          *)
THEOREM DevReseededTheorem == DevSpec => []ReseededInTime
BY DevicesImplementGenerators, ReseededTheorem, PTL

-----------------------------------------------------------------------------
Request == [kind : {"none", "read", "write", "complete", "short", "written"},
            kernel : BOOLEAN, asked : Nat, sz : Nat, total : Nat, given : Nat, left : Nat]

(* A read has given what is not left of it, and counted as much until the  *)
(* last block, which may be counted for more.                              *)
Counted(r) ==
  /\ r.kind = "read" => /\ r.given + r.sz = r.asked
                        /\ r.given <= r.total
                        /\ r.sz > 0 => r.given = r.total
  /\ r.kind \in {"complete", "short"} => r.given = Min({r.total, r.asked})
  /\ r.kind = "complete" => r.given = r.asked
  /\ r.kind = "short" => r.kernel

(* A thread that is at place, holding or waiting for the lock for o, is    *)
(* there for its request r only, and only while that has something to do.  *)
Matches(place, o, r) ==
  place # "idle" =>
    /\ r.kind \in {"read", "write"}
    /\ r.kind = "read" => r.sz > 0 /\ o = IF r.kernel THEN "gen" ELSE "user"
    /\ r.kind = "write" => r.left > 0

DevInv ==
  /\ request \in [Users -> Request]
  /\ \A t \in Users : Counted(request[t]) /\ Matches(pc[t], op[t], request[t])

LEMMA MinOfTwo ==
  ASSUME NEW a \in Nat, NEW b \in Nat
  PROVE  Min({a, b}) = IF a <= b THEN a ELSE b
BY DEF Min

LEMMA FilledIsCounted ==
  ASSUME NEW r \in Request, r.kind = "read", r.sz > 0, Counted(r)
  PROVE  Filled(r) \in Request /\ Counted(Filled(r)) /\ Filled(r).kind = "read"
<1> DEFINE m == Min({r.sz, BLOCK})
<1>1. /\ m \in Nat /\ m <= r.sz /\ m <= BLOCK /\ (m = r.sz \/ m = BLOCK)
      /\ BLOCK \in Nat
  BY DeviceAssumption, MinOfTwo DEF Request
<1>2. Filled(r) = [r EXCEPT !.given = @ + m, !.total = @ + BLOCK, !.sz = @ - m]
  BY DEF Filled
<1>3. /\ r.given \in Nat /\ r.total \in Nat /\ r.sz \in Nat /\ r.asked \in Nat
      /\ r.given + r.sz = r.asked /\ r.given = r.total
  BY DEF Request, Counted
<1> HIDE DEF m
<1>4. /\ Filled(r).kind = "read" /\ Filled(r).asked = r.asked
      /\ Filled(r).given = r.given + m /\ Filled(r).total = r.total + BLOCK
      /\ Filled(r).sz = r.sz - m
  BY <1>2 DEF Request
<1>5. Filled(r) \in Request
  <2> DEFINE given == r.given + m
             total == r.total + BLOCK
             sz == r.sz - m
  <2>1. given \in Nat /\ total \in Nat /\ sz \in Nat
    BY <1>1, <1>3
  <2>2. Filled(r) = [r EXCEPT !.given = given, !.total = total, !.sz = sz]
    BY <1>2
  <2> HIDE DEF given, total, sz
  <2>3. [r EXCEPT !.given = given, !.total = total, !.sz = sz] \in Request
    BY <2>1 DEF Request
  <2> QED
    BY <2>2, <2>3
<1> DEFINE f == Filled(r)
<1>6. /\ f.given + f.sz = f.asked /\ f.given <= f.total
      /\ f.sz > 0 => f.given = f.total
  BY <1>1, <1>3, <1>4
<1> QED
  BY <1>4, <1>5, <1>6 DEF Counted

LEMMA TakenIsRequest ==
  ASSUME NEW r \in Request, r.kind = "write", r.left > 0
  PROVE  Taken(r) \in Request /\ Taken(r).kind = "write" /\ Counted(Taken(r))
<1>1. Taken(r).kind = "write"
  BY DEF Request, Taken
<1>2. Taken(r) \in Request
  <2> DEFINE sz == IF r.sz >= BLOCK THEN r.sz - BLOCK ELSE r.sz
             left == r.left - 1
  <2>1. sz \in Nat /\ left \in Nat
    BY DeviceAssumption DEF Request
  <2>2. Taken(r) = [r EXCEPT !.left = left, !.sz = sz]
    BY DEF Taken
  <2> HIDE DEF sz, left
  <2>3. [r EXCEPT !.left = left, !.sz = sz] \in Request
    BY <2>1 DEF Request
  <2> QED
    BY <2>2, <2>3
<1> QED
  BY <1>1, <1>2 DEF Counted

(* A step of thread t leaves every other thread where it is.               *)
LEMMA OthersStay ==
  ASSUME IInv, NEW t \in Threads, Call(t) \/ Step(t)
  PROVE  \A u \in Threads \ {t} : pc'[u] = pc[u] /\ op'[u] = op[u]
<1> USE DEF IInv, Goto
<1>1. CASE Call(t)
  BY <1>1 DEF Call, GlobalGen, GlobalIngest, KGlobalGen, KGlobalIngest
<1>2. CASE Step(t)
  BY <1>2 DEF Step, TryLock, SpinLock, Load, StoreIngested, StorePolled, Unlock, Reseed
<1> QED
  BY <1>1, <1>2

(* What is left to show when only the request of t is changed, or nothing  *)
(* but where t is.                                                         *)
LEMMA OneRequest ==
  ASSUME DevInv, NEW t \in Users, NEW r \in Request,
         request' = [request EXCEPT ![t] = r], Counted(r), Matches(pc'[t], op'[t], r),
         \A u \in Users \ {t} : pc'[u] = pc[u] /\ op'[u] = op[u]
  PROVE  DevInv'
<1>1. request' \in [Users -> Request] /\ request'[t] = r
  BY DEF DevInv
<1>2. ASSUME NEW u \in Users \ {t}
      PROVE  Counted(request'[u]) /\ Matches(pc'[u], op'[u], request'[u])
  <2>1. request'[u] = request[u] /\ pc'[u] = pc[u] /\ op'[u] = op[u]
    BY DEF DevInv
  <2> QED
    BY <2>1 DEF DevInv
<1> QED
  BY <1>1, <1>2 DEF DevInv

LEMMA SameRequests ==
  ASSUME DevInv, request' = request, NEW t \in Threads,
         t \in Users => Matches(pc'[t], op'[t], request[t]),
         \A u \in Users \ {t} : pc'[u] = pc[u] /\ op'[u] = op[u]
  PROVE  DevInv'
<1>1. ASSUME NEW u \in Users
      PROVE  Matches(pc'[u], op'[u], request[u])
  BY DEF DevInv
<1> QED
  BY <1>1 DEF DevInv

(* A new request, of any size.                                             *)
LEMMA OpenDevInv ==
  ASSUME IInv, DevInv, NEW t \in Users, NEW kind \in {"read", "write"}, NEW kernel \in BOOLEAN,
         NEW asked \in 0..MaxSize, Open(t, kind, kernel, asked)
  PROVE  DevInv'
<1> DEFINE left == IF kind = "write" THEN asked \div BLOCK + 1 ELSE 0
           total == IF kind = "write" THEN asked ELSE 0
           r == [kind |-> kind, kernel |-> kernel, asked |-> asked, sz |-> asked,
                 total |-> total, given |-> 0, left |-> left]
<1>1. left \in Nat /\ total \in Nat /\ asked \in Nat
  BY DeviceAssumption
<1>2. kind = "read" => total = 0
  OBVIOUS
<1>3. /\ request' = [request EXCEPT ![t] = r] /\ pc[t] = "idle"
      /\ pc' = pc /\ op' = op
  BY DEF Open, vars
<1> HIDE DEF left, total
<1>4. r \in Request
  BY <1>1 DEF Request
<1>5. Counted(r)
  BY <1>1, <1>2 DEF Counted
<1>6. Matches(pc'[t], op'[t], r)
  BY <1>3 DEF Matches
<1> HIDE DEF r
<1> QED
  BY <1>3, <1>4, <1>5, <1>6, OneRequest

(* The next block of a read.                                               *)
LEMMA CallGenDevInv ==
  ASSUME IInv, DevInv, NEW t \in Users, CallGen(t)
  PROVE  DevInv'
<1> DEFINE r == request[t]
<1>1. /\ t \in Threads /\ r \in Request /\ Counted(r) /\ pc[t] = "idle"
      /\ r.kind = "read" /\ r.sz > 0
  BY DeviceAssumption DEF DevInv, CallGen, More
<1>2. \A u \in Users \ {t} : pc'[u] = pc[u] /\ op'[u] = op[u]
  BY <1>1, DeviceAssumption, OthersStay DEF CallGen, Call
<1>3. CASE pc'[t] = "idle"
  <2>1. request' = [request EXCEPT ![t] = Filled(r)]
    BY <1>3 DEF CallGen
  <2>2. Matches(pc'[t], op'[t], Filled(r))
    BY <1>3 DEF Matches
  <2>3. Filled(r) \in Request /\ Counted(Filled(r))
    BY <1>1, FilledIsCounted
  <2> QED
    BY <1>2, <2>1, <2>2, <2>3, OneRequest
<1>4. CASE pc'[t] # "idle"
  <2>1. request' = request
    BY <1>4 DEF CallGen
  <2>2. op'[t] = IF r.kernel THEN "gen" ELSE "user"
    BY <1>1, <1>4 DEF CallGen, KGlobalGen, GlobalGen, IInv
  <2>3. Matches(pc'[t], op'[t], request[t])
    BY <1>1, <2>2 DEF Matches
  <2> QED
    BY <1>1, <1>2, <2>1, <2>3, SameRequests
<1> QED
  BY <1>3, <1>4

(* The next block of a write.                                              *)
LEMMA CallIngestDevInv ==
  ASSUME IInv, DevInv, NEW t \in Users, CallIngest(t)
  PROVE  DevInv'
<1> DEFINE r == request[t]
<1>1. /\ t \in Threads /\ r \in Request /\ Counted(r) /\ pc[t] = "idle"
      /\ r.kind = "write" /\ r.left > 0
  BY DeviceAssumption DEF DevInv, CallIngest
<1>2. \A u \in Users \ {t} : pc'[u] = pc[u] /\ op'[u] = op[u]
  BY <1>1, DeviceAssumption, OthersStay DEF CallIngest, Call
<1>3. CASE pc'[t] = "idle"
  <2>1. request' = [request EXCEPT ![t] = Taken(r)]
    BY <1>3 DEF CallIngest
  <2>2. Matches(pc'[t], op'[t], Taken(r))
    BY <1>3 DEF Matches
  <2>3. Taken(r) \in Request /\ Counted(Taken(r))
    BY <1>1, TakenIsRequest
  <2> QED
    BY <1>2, <2>1, <2>2, <2>3, OneRequest
<1>4. CASE pc'[t] # "idle"
  <2>1. request' = request
    BY <1>4 DEF CallIngest
  <2>2. Matches(pc'[t], op'[t], request[t])
    BY <1>1 DEF Matches
  <2> QED
    BY <1>1, <1>2, <2>1, <2>2, SameRequests
<1> QED
  BY <1>3, <1>4

(* The end of a read or a write.                                           *)
LEMMA ReturnDevInv ==
  ASSUME IInv, DevInv, NEW t \in Users, Return(t)
  PROVE  DevInv'
<1> DEFINE k == IF request[t].kind = "read" THEN "complete" ELSE "written"
           r == [request[t] EXCEPT !.kind = k]
<1>1. /\ request[t] \in Request /\ Counted(request[t])
      /\ pc' = pc /\ op' = op /\ pc[t] = "idle"
      /\ request[t].kind = "read" => ~(request[t].sz > 0)
  BY DEF DevInv, Return, More, vars
<1>2. request' = [request EXCEPT ![t] = r]
  BY DEF DevInv, Return
<1>3. r \in Request /\ k \in {"complete", "written"}
  BY <1>1 DEF Request
<1>4. Counted(r)
  <2>1. CASE request[t].kind = "read"
    <3>1. /\ request[t].given \in Nat /\ request[t].total \in Nat
          /\ request[t].asked \in Nat /\ request[t].sz \in Nat
      BY <1>1 DEF Request
    <3>2. /\ request[t].given = request[t].asked
          /\ request[t].given <= request[t].total
      BY <1>1, <2>1, <3>1 DEF Counted
    <3>3. request[t].given = Min({request[t].total, request[t].asked})
      BY <3>1, <3>2, MinOfTwo
    <3>4. /\ r.kind = "complete" /\ r.given = request[t].given
          /\ r.total = request[t].total /\ r.asked = request[t].asked
      BY <1>1, <2>1 DEF Request
    <3> QED
      BY <3>2, <3>3, <3>4 DEF Counted
  <2>2. CASE request[t].kind # "read"
    <3>1. r.kind = "written"
      BY <1>1, <2>2 DEF Request
    <3> QED
      BY <3>1 DEF Counted
  <2> QED
    BY <2>1, <2>2
<1>5. Matches(pc'[t], op'[t], r)
  BY <1>1 DEF Matches
<1> HIDE DEF r
<1> QED
  BY <1>1, <1>2, <1>3, <1>4, <1>5, OneRequest

(* A step in a generator; the one that returns from it answers the device. *)
LEMMA InsideDevInv ==
  ASSUME IInv, DevInv, NEW t \in Threads, Inside(t)
  PROVE  DevInv'
<1> DEFINE r == request[t]
<1>1. /\ \A u \in Users \ {t} : pc'[u] = pc[u] /\ op'[u] = op[u]
      /\ pc[t] # "idle" /\ op'[t] = op[t] /\ op[t] \in {"user", "gen", "ingest"}
      /\ pc[t] = "try" /\ pc'[t] = "idle" => op[t] # "user"
  <2>1. Step(t)
    BY DEF Inside
  <2>2. \A u \in Users \ {t} : pc'[u] = pc[u] /\ op'[u] = op[u]
    BY <2>1, DeviceAssumption, OthersStay
  <2>3. /\ pc[t] # "idle" /\ op'[t] = op[t] /\ op[t] \in {"user", "gen", "ingest"}
        /\ pc[t] = "try" /\ pc'[t] = "idle" => op[t] # "user"
    BY <2>1 DEF IInv, Goto, Step, TryLock, SpinLock, Load, StoreIngested, StorePolled, Unlock, Reseed
  <2> QED
    BY <2>2, <2>3
<1>2. CASE t \in Users /\ pc'[t] = "idle"
  <2> DEFINE a == Answered(t)
  <2>1. request' = [request EXCEPT ![t] = a]
    BY <1>2 DEF Inside
  <2>2. /\ r \in Request /\ Counted(r) /\ r.kind \in {"read", "write"}
        /\ r.kind = "read" => r.sz > 0 /\ op[t] = IF r.kernel THEN "gen" ELSE "user"
        /\ r.kind = "write" => r.left > 0
    BY <1>1, <1>2 DEF DevInv, Matches
  <2>3. a \in Request /\ Counted(a)
    <3>1. CASE r.kind = "write"
      <4>1. a = Taken(r)
        BY <3>1 DEF Answered
      <4> QED
        BY <2>2, <3>1, <4>1, TakenIsRequest
    <3>2. CASE r.kind = "read" /\ pc[t] = "try"
      <4>1. a = [r EXCEPT !.kind = "short"]
        BY <3>2 DEF Answered
      <4>2. r.kernel
        BY <1>1, <1>2, <2>2, <3>2
      <4>3. /\ a \in Request /\ a.kind = "short" /\ a.kernel
            /\ a.given = r.given /\ a.total = r.total /\ a.asked = r.asked
        BY <2>2, <4>1, <4>2 DEF Request
      <4>4. r.given \in Nat /\ r.total \in Nat /\ r.asked \in Nat /\ r.sz \in Nat
        BY <2>2 DEF Request
      <4>5. r.given = r.total /\ r.given <= r.asked
        BY <2>2, <3>2, <4>4 DEF Counted
      <4>6. r.given = Min({r.total, r.asked})
        BY <4>4, <4>5, MinOfTwo
      <4> QED
        BY <4>3, <4>6 DEF Counted
    <3>3. CASE r.kind = "read" /\ pc[t] # "try"
      <4>1. a = Filled(r)
        BY <3>3 DEF Answered
      <4> QED
        BY <2>2, <3>3, <4>1, FilledIsCounted
    <3> QED
      BY <2>2, <3>1, <3>2, <3>3
  <2>4. Matches(pc'[t], op'[t], a)
    BY <1>2 DEF Matches
  <2> HIDE DEF a
  <2> QED
    BY <1>1, <1>2, <2>1, <2>3, <2>4, OneRequest
<1>3. CASE ~(t \in Users /\ pc'[t] = "idle")
  <2>1. request' = request
    BY <1>3 DEF Inside
  <2>2. t \in Users => Matches(pc'[t], op'[t], request[t])
    BY <1>1, <1>3 DEF DevInv, Matches
  <2> QED
    BY <1>1, <2>1, <2>2, SameRequests
<1> QED
  BY <1>2, <1>3

LEMMA DevInitDevInv == DevInit => DevInv
<1> SUFFICES ASSUME DevInit PROVE DevInv
  OBVIOUS
<1>1. request = [t \in Users |-> NoRequest] /\ \A t \in Users : pc[t] = "idle"
  BY DeviceAssumption DEF DevInit, Init
<1>2. NoRequest \in Request /\ Counted(NoRequest)
  BY DEF NoRequest, Request, Counted
<1> QED
  BY <1>1, <1>2 DEF DevInv, Matches

LEMMA DevNextDevInv == IInv /\ DevInv /\ [DevNext]_devVars => DevInv'
<1> SUFFICES ASSUME IInv, DevInv, [DevNext]_devVars PROVE DevInv'
  OBVIOUS
<1>1. CASE UNCHANGED devVars
  BY <1>1 DEF devVars, vars, DevInv
<1>2. ASSUME NEW t \in Users, NEW kind \in {"read", "write"}, NEW kernel \in BOOLEAN,
             NEW asked \in 0..MaxSize, Open(t, kind, kernel, asked)
      PROVE  DevInv'
  BY <1>2, OpenDevInv
<1>3. ASSUME NEW t \in Users, Device(t)
      PROVE  DevInv'
  BY <1>3, CallGenDevInv, CallIngestDevInv, ReturnDevInv DEF Device
<1>4. ASSUME NEW t \in Threads \ Users, Call(t), UNCHANGED request
      PROVE  DevInv'
  <2>1. \A u \in Users \ {t} : pc'[u] = pc[u] /\ op'[u] = op[u]
    BY <1>4, DeviceAssumption, OthersStay
  <2> QED
    BY <1>4, <2>1, SameRequests
<1>5. ASSUME NEW t \in Threads, Inside(t)
      PROVE  DevInv'
  BY <1>5, InsideDevInv
<1> QED
  BY <1>1, <1>2, <1>3, <1>4, <1>5 DEF DevNext

(* However threads compete for the context's generator, a read of a device *)
(* counts exactly the bytes the generator gave it, and only krand_dev is   *)
(* cut short.                                                              *)
THEOREM ReadsAreCountedTheorem == DevSpec => []ReadsAreCounted
<1>1. DevSpec => []IInv
  BY DevicesImplementGenerators, IInvHolds, PTL
<1>2. DevSpec => []DevInv
  BY <1>1, DevInitDevInv, DevNextDevInv, PTL DEF DevSpec
<1>3. DevInv => ReadsAreCounted
  BY DEF DevInv, Counted, ReadsAreCounted
<1> QED
  BY <1>2, <1>3, PTL
=============================================================================
