-------------------------- MODULE EventRingProofs ---------------------------
(***************************************************************************)
(* The entropy event ring for any number of producers, any size and any    *)
(* number of events: an event waits once and is delivered at most once;    *)
(* and with one producer, the ring is a bounded queue.                     *)
(***************************************************************************)
EXTENDS MCEventRing, TLAPS

Busy == {"test", "store", "publish"}
Polling == {"test", "load", "exchange"}

Slot(k) == k % RingSize

TypeInv ==
  /\ entropy_buffer \in [Slots -> Nat]
  /\ read_head \in Slots /\ write_head \in Slots
  /\ pushed \in Nat
  /\ pc \in [Producers \union Consumers -> {"idle"} \union Busy \union Polling]
  /\ \A p \in Producers : pc[p] \in {"idle"} \union Busy
  /\ pc[c1] \in {"idle"} \union Polling
  /\ event \in [Producers -> Nat]
  /\ write_pos \in [Producers -> Slots]
  /\ read_pos \in [Consumers -> Slots]
  /\ val \in [Consumers -> Nat]
  /\ took \in [Consumers -> BOOLEAN]
  /\ delivered \in Seq(Nat)

(* The heads as numbers that do not wrap, r events taken and w published,  *)
(* and the number each producer found published when it began. Who began   *)
(* later found no less, and not more than the events between them.         *)
BusyInv(p, r, w, a) ==
  /\ write_pos[p] = Slot(a)
  /\ a <= w /\ w <= a + 1 + (pushed - event[p])
  /\ event[p] \in 1..pushed /\ pushed - event[p] <= MaxOverlap
  /\ pc[p] # "test" => a < r + RingSize - 1

InOrder(p, q, at) ==
  /\ event[p] # event[q]
  /\ event[p] < event[q] => at[p] <= at[q] /\ at[q] <= at[p] + (event[q] - event[p])

HeadsInv(r, w, at) ==
  /\ read_head = Slot(r) /\ write_head = Slot(w)
  /\ r <= w /\ w < r + RingSize
  /\ \A p \in Producers : pc[p] # "idle" => BusyInv(p, r, w, at[p])
  /\ \A p, q \in Producers : pc[p] # "idle" /\ pc[q] # "idle" /\ p # q => InOrder(p, q, at)

(* The poll is at the slot of read_head, in which something waits, until   *)
(* it has taken that.                                                      *)
PollInv(r, w) ==
  /\ pc[c1] \in Polling => read_pos[c1] = Slot(IF took[c1] THEN r - 1 ELSE r)
  /\ pc[c1] \in {"load", "exchange"} /\ ~took[c1] => r < w
  /\ pc[c1] = "idle" => ~took[c1]
  /\ took[c1] => r > 0

Delivered(e) == \E i \in DOMAIN delivered : delivered[i] = e

(* An event that can still be delivered.                                   *)
Live(e) == e # NoEvent /\ ~Delivered(e)

(* An event that has not been stored anywhere.                             *)
Fresh(e) ==
  /\ Live(e) /\ e # val[c1]
  /\ \A s \in Slots : entropy_buffer[s] # e

(* A slot that holds an event which waits, or which is about to be         *)
(* published.                                                              *)
InUse(s, r, w, at) ==
  \/ \E k \in r..(w - 1) : s = Slot(k)
  \/ s = Slot(w) /\ \E p \in Producers : pc[p] = "publish" /\ at[p] = w

NumbersInv ==
  /\ \A s \in Slots : entropy_buffer[s] <= pushed
  /\ \A i \in DOMAIN delivered : delivered[i] <= pushed
  /\ val[c1] <= pushed

(* Each event is in one slot, and delivered once.                          *)
OnceInv ==
  /\ \A s, t \in Slots : entropy_buffer[s] # NoEvent /\ s # t => entropy_buffer[s] # entropy_buffer[t]
  /\ \A i, j \in DOMAIN delivered : i # j => delivered[i] # delivered[j]

(* What is in use or has just been taken has not been delivered, and what  *)
(* has just been taken is not in use again.                                *)
LiveInv(r, w, at) ==
  /\ \A p \in Producers : pc[p] \in {"test", "store"} => Fresh(event[p])
  /\ \A s \in Slots : InUse(s, r, w, at) => Live(entropy_buffer[s])
  /\ took[c1] => Live(entropy_buffer[Slot(r - 1)])
  /\ pc[c1] = "exchange" /\ took[c1] =>
       /\ Live(val[c1])
       /\ \A s \in Slots : InUse(s, r, w, at) => entropy_buffer[s] # val[c1]

RingInv(r, w, at) ==
  TypeInv /\ HeadsInv(r, w, at) /\ PollInv(r, w) /\ NumbersInv /\ OnceInv /\ LiveInv(r, w, at)

IInv ==
  \E r, w \in Nat : \E at \in [Producers -> Nat] : RingInv(r, w, at)

-----------------------------------------------------------------------------
(* Slots                                                                   *)
LEMMA DivMod ==
  ASSUME NEW a \in Int, NEW n \in Nat \ {0}
  PROVE  /\ a \div n \in Int
         /\ a % n \in 0..(n - 1)
         /\ a = (a \div n) * n + (a % n)
<1> DEFINE m == (a \div n) * n
<1>1. a \div n \in Int /\ a % n \in 0..(n - 1)
  OBVIOUS
<1>2. a - m = a % n /\ m \in Int
  OBVIOUS
<1> HIDE DEF m
<1>3. a = m + (a % n)
  BY <1>1, <1>2
<1> QED
  BY <1>1, <1>3, Zenon DEF m

(* A multiple of n between -n and n is 0.                                  *)
LEMMA SmallMultiple ==
  ASSUME NEW d \in Int, NEW n \in Nat \ {0}, d * n < n, d * n > -n
  PROVE  d = 0
<1>1. ~(d >= 1)
  <2> SUFFICES ASSUME d >= 1 PROVE FALSE
    OBVIOUS
  <2>1. d * n >= 1 * n
    OBVIOUS
  <2> QED
    BY <2>1
<1>2. ~(d <= -1)
  <2> SUFFICES ASSUME d <= -1 PROVE FALSE
    OBVIOUS
  <2>1. d * n <= (-1) * n
    OBVIOUS
  <2> QED
    BY <2>1
<1> QED
  BY <1>1, <1>2

LEMMA Remainder ==
  ASSUME NEW a \in Int, NEW b \in Int, NEW k \in Int, NEW n \in Nat \ {0},
         a = b + k * n
  PROVE  (a % n) = (b % n)
<1> DEFINE qa == a \div n
           qb == b \div n
           ra == a % n
           rb == b % n
<1>1. /\ qa \in Int /\ qb \in Int /\ ra \in 0..(n - 1) /\ rb \in 0..(n - 1)
      /\ a = qa * n + ra /\ b = qb * n + rb
  BY DivMod
<1> HIDE DEF qa, qb, ra, rb
<1> DEFINE d == qa - qb - k
<1>2. d \in Int /\ d * n = qa * n - qb * n - k * n
  BY <1>1
<1>3. qa * n \in Int /\ qb * n \in Int /\ k * n \in Int
  BY <1>1
<1> HIDE DEF d
<1>4. d * n = rb - ra
  BY <1>1, <1>2, <1>3
<1>5. d * n < n /\ d * n > -n
  BY <1>1, <1>4
<1>6. d = 0
  BY <1>2, <1>5, SmallMultiple
<1>7. d * n = 0
  BY <1>6
<1>8. ra = rb
  BY <1>1, <1>4, <1>7
<1> QED
  BY <1>8 DEF ra, rb

LEMMA RemainderAdds ==
  ASSUME NEW b \in Int, NEW k \in Int, NEW n \in Nat \ {0}
  PROVE  ((b + k * n) % n) = (b % n)
<1> DEFINE m == k * n
           a == b + m
<1>1. m \in Int
  OBVIOUS
<1> HIDE DEF m
<1>2. a \in Int
  BY <1>1
<1> HIDE DEF a
<1>3. a = b + k * n
  BY Zenon DEF a, m
<1>4. (a % n) = (b % n)
  BY <1>2, <1>3, Remainder
<1> QED
  BY <1>4, Zenon DEF a, m

LEMMA SizeType == RingSize \in Nat \ {0} /\ RingSize > 1
BY RingAssumption

LEMMA SlotType == \A k \in Int : Slot(k) \in Slots
BY SizeType DEF Slot, Slots

(* Numbers that are less than the ring apart have different slots.         *)
LEMMA SlotsDiffer ==
  ASSUME NEW a \in Int, NEW b \in Int, a < b, b < a + RingSize
  PROVE  Slot(a) # Slot(b)
<1> SUFFICES ASSUME Slot(a) = Slot(b) PROVE FALSE
  OBVIOUS
<1> DEFINE n == RingSize
           qa == a \div n
           qb == b \div n
           ra == a % n
           rb == b % n
<1>1. n \in Nat \ {0}
  BY SizeType
<1>2. /\ qa \in Int /\ qb \in Int /\ ra \in 0..(n - 1) /\ rb \in 0..(n - 1)
      /\ a = qa * n + ra /\ b = qb * n + rb
  BY <1>1, DivMod
<1>3. ra = rb
  BY DEF Slot
<1> HIDE DEF qa, qb, ra, rb, n
<1> DEFINE d == qb - qa
<1>4. d \in Int /\ d * n = qb * n - qa * n /\ qb * n \in Int /\ qa * n \in Int
  BY <1>1, <1>2
<1> HIDE DEF d
<1>5. d * n = b - a
  BY <1>2, <1>3, <1>4
<1>6. d * n < n /\ d * n > -n
  BY <1>1, <1>5 DEF n
<1>7. d = 0
  BY <1>1, <1>4, <1>6, SmallMultiple
<1>8. d * n = 0
  BY <1>1, <1>7
<1> QED
  BY <1>5, <1>8

(* The slot before and after that of k.                                    *)
LEMMA SlotStep ==
  ASSUME NEW k \in Int
  PROVE  /\ Advance(Slot(k)) = Slot(k + 1)
         /\ (Slot(k) - 1) % RingSize = Slot(k - 1)
         /\ Slot(k + RingSize) = Slot(k)
<1> DEFINE n == RingSize
           q == k \div n
           r == k % n
<1>1. n \in Nat \ {0}
  BY SizeType
<1>2. q \in Int /\ r \in 0..(n - 1) /\ k = q * n + r
  BY <1>1, DivMod
<1> HIDE DEF q, r, n
<1>3. q * n \in Int /\ r \in Int
  BY <1>1, <1>2
<1>4. /\ k + 1 \in Int /\ r + 1 \in Int /\ k + 1 = (r + 1) + q * n
      /\ k - 1 \in Int /\ r - 1 \in Int /\ k - 1 = (r - 1) + q * n
  BY <1>1, <1>2, <1>3
<1>5. ((k + 1) % n) = ((r + 1) % n)
  <2>1. (((r + 1) + q * n) % n) = ((r + 1) % n)
    BY <1>1, <1>2, <1>4, RemainderAdds, Zenon
  <2> QED
    BY <1>4, <2>1, Zenon
<1>6. ((k - 1) % n) = ((r - 1) % n)
  <2>1. (((r - 1) + q * n) % n) = ((r - 1) % n)
    BY <1>1, <1>2, <1>4, RemainderAdds, Zenon
  <2> QED
    BY <1>4, <2>1, Zenon
<1>7. ((k + n) % n) = (k % n)
  <2>1. PICK one \in Int : one = 1
    OBVIOUS
  <2>2. ((k + one * n) % n) = (k % n)
    BY <1>1, RemainderAdds, Zenon
  <2>3. one * n = n
    BY <1>1, <2>1
  <2> QED
    BY <2>2, <2>3, Zenon
<1> QED
  BY <1>5, <1>6, <1>7 DEF Slot, Advance, n, r

-----------------------------------------------------------------------------
LEMMA InitIInv == Init => IInv
<1> SUFFICES ASSUME Init PROVE RingInv(0, 0, [p \in Producers |-> 0])
  <2>1. 0 \in Nat /\ [p \in Producers |-> 0] \in [Producers -> Nat]
    OBVIOUS
  <2> QED
    BY <2>1 DEF IInv
<1>1. c1 \in Consumers /\ c1 \notin Producers
  BY InstanceAssumption, RingAssumption
<1>2. Slot(0) = 0 /\ 0 \in Slots
  BY SizeType DEF Slot, Slots
<1>3. TypeInv
  BY <1>1, <1>2 DEF Init, TypeInv, NoEvent
<1>4. \A p \in Producers : pc[p] = "idle"
  BY DEF Init
<1>5. HeadsInv(0, 0, [p \in Producers |-> 0])
  BY <1>2, <1>4, SizeType DEF Init, HeadsInv
<1>6. PollInv(0, 0)
  BY <1>1 DEF Init, PollInv, Polling
<1>7. NumbersInv /\ OnceInv /\ LiveInv(0, 0, [p \in Producers |-> 0])
  <2>1. 0..(0 - 1) = {} /\ DOMAIN delivered = {} /\ pushed = 0 /\ val[c1] = 0
        /\ ~took[c1] /\ \A x \in Slots : entropy_buffer[x] = 0
    BY <1>1 DEF Init, NoEvent
  <2> QED
    BY <1>4, <2>1 DEF NumbersInv, OnceInv, LiveInv, InUse, NoEvent
<1> QED
  BY <1>3, <1>5, <1>6, <1>7 DEF RingInv

LEMMA Contexts ==
  /\ c1 \in Consumers /\ c1 \notin Producers
  /\ \A c \in Consumers : c = c1
  /\ p1 \in Producers
  /\ RingSize \in Nat \ {0} /\ MaxOverlap \in Nat /\ MaxOverlap < RingSize - 1
  /\ 0 \in Slots
BY InstanceAssumption, RingAssumption DEF Slots

LEMMA AdvanceType == \A s \in Slots : Advance(s) \in Slots
BY Contexts DEF Advance, Slots

LEMMA AppendNat ==
  ASSUME NEW s \in Seq(Nat), NEW e \in Nat
  PROVE  /\ Append(s, e) \in Seq(Nat)
         /\ DOMAIN s = 1..Len(s) /\ DOMAIN Append(s, e) = 1..(Len(s) + 1) /\ Len(s) \in Nat
         /\ \A i \in 1..Len(s) : Append(s, e)[i] = s[i]
         /\ Append(s, e)[Len(s) + 1] = e
OBVIOUS

LEMMA TypeStep ==
  ASSUME TypeInv, [Next]_vars
  PROVE  TypeInv'
<1> USE Contexts DEF TypeInv, ringVars, pushVars, pollVars, Goto, Busy, Polling
<1>1. ASSUME NEW p \in Producers, PushBegin(p) PROVE TypeInv'
  BY <1>1 DEF PushBegin
<1>2. ASSUME NEW p \in Producers, PushTest(p) PROVE TypeInv'
  BY <1>2 DEF PushTest
<1>3. ASSUME NEW p \in Producers, PushStore(p) PROVE TypeInv'
  BY <1>3 DEF PushStore
<1>4. ASSUME NEW p \in Producers, PushPublish(p) PROVE TypeInv'
  BY <1>4, AdvanceType DEF PushPublish
<1>5. ASSUME NEW c \in Consumers, PollBegin(c) PROVE TypeInv'
  BY <1>5 DEF PollBegin
<1>6. ASSUME NEW c \in Consumers, PollTest(c) PROVE TypeInv'
  BY <1>6 DEF PollTest
<1>7. ASSUME NEW c \in Consumers, PollLoad(c) PROVE TypeInv'
  BY <1>7 DEF PollLoad
<1>8. ASSUME NEW c \in Consumers, PollExchange(c) PROVE TypeInv'
  <2>1. val[c] \in Nat /\ read_pos[c] \in Slots
    OBVIOUS
  <2>2. CASE read_head = read_pos[c]
    BY <1>8, <2>1, <2>2, AdvanceType, ZenonT(30) DEF PollExchange
  <2>3. CASE read_head # read_pos[c]
    <3>1. delivered' = Append(delivered, val[c]) /\ delivered \in Seq(Nat)
      BY <1>8, <2>3 DEF PollExchange
    <3>2. delivered' \in Seq(Nat)
      BY <2>1, <3>1, AppendNat
    <3> QED
      BY <1>8, <2>1, <2>3, <3>2, ZenonT(30) DEF PollExchange
  <2> QED
    BY <2>2, <2>3
<1>9. CASE UNCHANGED vars
  BY <1>9 DEF vars
<1> QED
  BY <1>1, <1>2, <1>3, <1>4, <1>5, <1>6, <1>7, <1>8, <1>9 DEF Next, Push, Poll

LEMMA Numbers ==
  ASSUME TypeInv, NumbersInv
  PROVE  /\ \A s \in Slots : entropy_buffer[s] \in Nat /\ entropy_buffer[s] <= pushed
         /\ \A i \in DOMAIN delivered : delivered[i] \in Nat /\ delivered[i] <= pushed
         /\ val[c1] \in Nat /\ val[c1] <= pushed
<1>1. delivered \in Seq(Nat)
  BY DEF TypeInv
<1>2. \A i \in DOMAIN delivered : delivered[i] \in Nat
  BY <1>1
<1>3. (\A s \in Slots : entropy_buffer[s] \in Nat) /\ val[c1] \in Nat
  BY Contexts DEF TypeInv
<1> QED
  BY <1>2, <1>3 DEF NumbersInv

(* What SlotsDiffer says of the heads.                                     *)
LEMMA SlotsSame ==
  ASSUME NEW a \in Int, NEW b \in Int, Slot(a) = Slot(b), a < b + RingSize, b < a + RingSize
  PROVE  a = b
<1>1. ~(a < b) /\ ~(b < a)
  BY SlotsDiffer
<1> QED
  BY <1>1

-----------------------------------------------------------------------------
(* push_event                                                              *)
LEMMA PushBeginStep ==
  ASSUME NEW r \in Nat, NEW w \in Nat, NEW at \in [Producers -> Nat], RingInv(r, w, at),
         NEW p \in Producers, PushBegin(p), TypeInv'
  PROVE  RingInv(r, w, [at EXCEPT ![p] = w])'
<1> DEFINE at2 == [at EXCEPT ![p] = w]
<1>1. at2 \in [Producers -> Nat] /\ at2[p] = w /\ \A q \in Producers : q # p => at2[q] = at[q]
  OBVIOUS
<1> HIDE DEF at2
<1>2. /\ pc[p] = "idle" /\ pc'[p] = "test" /\ \A q \in Producers : q # p => pc'[q] = pc[q]
      /\ pc'[c1] = pc[c1]
      /\ event'[p] = pushed + 1 /\ \A q \in Producers : q # p => event'[q] = event[q]
      /\ write_pos'[p] = write_head /\ \A q \in Producers : q # p => write_pos'[q] = write_pos[q]
      /\ pushed' = pushed + 1 /\ pushed \in Nat
      /\ \A q \in Producers : pc[q] # "idle" => pushed - event[q] < MaxOverlap
      /\ entropy_buffer' = entropy_buffer /\ read_head' = read_head /\ write_head' = write_head
      /\ read_pos' = read_pos /\ val' = val /\ took' = took /\ delivered' = delivered
      /\ event \in [Producers -> Nat]
  BY Contexts DEF PushBegin, Goto, RingInv, TypeInv, ringVars, pollVars
<1>3. HeadsInv(r, w, at) /\ PollInv(r, w) /\ NumbersInv /\ OnceInv /\ LiveInv(r, w, at)
  BY DEF RingInv
<1>4. HeadsInv(r, w, at2)'
  <2>1. ASSUME NEW q \in Producers, pc'[q] # "idle" PROVE BusyInv(q, r, w, at2[q])'
    <3>1. CASE q = p
      BY <1>1, <1>2, <1>3, <3>1, Contexts DEF HeadsInv, BusyInv
    <3>2. CASE q # p
      <4>1. BusyInv(q, r, w, at[q]) /\ at[q] \in Nat
        BY <1>2, <1>3, <2>1, <3>2 DEF HeadsInv
      <4>2. pushed - event[q] < MaxOverlap
        BY <1>2, <2>1, <3>2
      <4> QED
        BY <1>1, <1>2, <3>2, <4>1, <4>2, Contexts DEF BusyInv
    <3> QED
      BY <3>1, <3>2
  <2>2. ASSUME NEW q \in Producers, NEW s \in Producers, pc'[q] # "idle", pc'[s] # "idle", q # s
        PROVE  InOrder(q, s, at2)'
    <3>1. CASE q = p
      <4>1. BusyInv(s, r, w, at[s])
        BY <1>2, <1>3, <2>2, <3>1 DEF HeadsInv
      <4> QED
        BY <1>2, <2>2, <3>1, <4>1 DEF BusyInv, InOrder
    <3>2. CASE s = p
      <4>1. BusyInv(q, r, w, at[q]) /\ at[q] \in Nat
        BY <1>2, <1>3, <2>2, <3>2 DEF HeadsInv
      <4> QED
        BY <1>1, <1>2, <2>2, <3>2, <4>1 DEF BusyInv, InOrder
    <3>3. CASE q # p /\ s # p
      BY <1>1, <1>2, <1>3, <2>2, <3>3 DEF HeadsInv, InOrder
    <3> QED
      BY <3>1, <3>2, <3>3
  <2> QED
    BY <1>2, <1>3, <2>1, <2>2 DEF HeadsInv
<1>5. PollInv(r, w)'
  BY <1>2, <1>3 DEF PollInv
<1>6. /\ \A s \in Slots : entropy_buffer[s] \in Nat /\ entropy_buffer[s] <= pushed
      /\ \A i \in DOMAIN delivered : delivered[i] \in Nat /\ delivered[i] <= pushed
      /\ val[c1] \in Nat /\ val[c1] <= pushed
  BY Numbers DEF RingInv
<1>7. NumbersInv'
  BY <1>2, <1>6 DEF NumbersInv
<1>8. OnceInv'
  BY <1>2, <1>3 DEF OnceInv
<1>9. LiveInv(r, w, at2)'
  <2>1. Fresh(pushed + 1)
    BY <1>2, <1>6 DEF Fresh, Live, Delivered, NoEvent
  <2>2. \A e : (Live(e) <=> Live(e)') /\ (Fresh(e) <=> Fresh(e)')
    BY <1>2 DEF Fresh, Live, Delivered
  <2>3. \A s : InUse(s, r, w, at2)' => InUse(s, r, w, at)
    BY <1>1, <1>2 DEF InUse
  <2> QED
    BY <1>2, <1>3, <2>1, <2>2, <2>3 DEF LiveInv
<1> QED
  BY <1>4, <1>5, <1>7, <1>8, <1>9 DEF RingInv, at2

LEMMA PushTestStep ==
  ASSUME NEW r \in Nat, NEW w \in Nat, NEW at \in [Producers -> Nat], RingInv(r, w, at),
         NEW p \in Producers, PushTest(p), TypeInv'
  PROVE  RingInv(r, w, at)'
<1>1. /\ pc[p] = "test" /\ \A q \in Producers : q # p => pc'[q] = pc[q]
      /\ pc'[p] = (IF RingFull(write_pos[p]) THEN "idle" ELSE "store")
      /\ pc'[c1] = pc[c1]
      /\ event' = event /\ write_pos' = write_pos /\ pushed' = pushed
      /\ entropy_buffer' = entropy_buffer /\ read_head' = read_head /\ write_head' = write_head
      /\ read_pos' = read_pos /\ val' = val /\ took' = took /\ delivered' = delivered
  BY Contexts DEF PushTest, Goto, RingInv, TypeInv, ringVars, pushVars, pollVars
<1>2. HeadsInv(r, w, at) /\ PollInv(r, w) /\ NumbersInv /\ OnceInv /\ LiveInv(r, w, at)
  BY DEF RingInv
<1>3. ASSUME pc'[p] # "idle" PROVE at[p] < r + RingSize - 1
  <2>1. /\ write_pos[p] = Slot(at[p]) /\ at[p] <= w /\ at[p] \in Nat /\ w < r + RingSize
        /\ read_head = Slot(r)
    BY <1>1, <1>2 DEF HeadsInv, BusyInv
  <2>2. Slot(at[p]) # (Slot(r) - 1) % RingSize
    BY <1>1, <1>3, <2>1 DEF RingFull
  <2>3. PICK k \in Int : k = r - 1
    OBVIOUS
  <2>4. (Slot(r) - 1) % RingSize = Slot(k) /\ Slot(k + RingSize) = Slot(k)
    BY <2>3, SlotStep
  <2>5. at[p] # k + RingSize
    BY <2>2, <2>4, Zenon
  <2> QED
    BY <2>1, <2>3, <2>5, Contexts
<1>4. HeadsInv(r, w, at)'
  <2>1. ASSUME NEW q \in Producers, pc'[q] # "idle" PROVE BusyInv(q, r, w, at[q])'
    <3>1. BusyInv(q, r, w, at[q])
      BY <1>1, <1>2, <2>1 DEF HeadsInv
    <3> QED
      BY <1>1, <1>3, <2>1, <3>1 DEF BusyInv
  <2>2. \A q, s \in Producers : pc'[q] # "idle" /\ pc'[s] # "idle" /\ q # s => InOrder(q, s, at)'
    BY <1>1, <1>2 DEF HeadsInv, InOrder
  <2> QED
    BY <1>1, <1>2, <2>1, <2>2 DEF HeadsInv
<1>5. PollInv(r, w)'
  BY <1>1, <1>2 DEF PollInv
<1>6. NumbersInv' /\ OnceInv'
  BY <1>1, <1>2 DEF NumbersInv, OnceInv
<1>7. LiveInv(r, w, at)'
  <2>1. \A e : (Live(e) <=> Live(e)') /\ (Fresh(e) <=> Fresh(e)')
    BY <1>1 DEF Fresh, Live, Delivered
  <2>2. \A s : InUse(s, r, w, at)' => InUse(s, r, w, at)
    BY <1>1 DEF InUse
  <2> QED
    BY <1>1, <1>2, <2>1, <2>2 DEF LiveInv
<1> QED
  BY <1>4, <1>5, <1>6, <1>7 DEF RingInv

LEMMA PushStoreStep ==
  ASSUME NEW r \in Nat, NEW w \in Nat, NEW at \in [Producers -> Nat], RingInv(r, w, at),
         NEW p \in Producers, PushStore(p), TypeInv'
  PROVE  RingInv(r, w, at)'
<1>1. /\ pc[p] = "store" /\ pc'[p] = "publish" /\ \A q \in Producers : q # p => pc'[q] = pc[q]
      /\ pc'[c1] = pc[c1]
      /\ event' = event /\ write_pos' = write_pos /\ pushed' = pushed
      /\ read_head' = read_head /\ write_head' = write_head
      /\ read_pos' = read_pos /\ val' = val /\ took' = took /\ delivered' = delivered
  BY Contexts DEF PushStore, Goto, RingInv, TypeInv, pushVars, pollVars
<1>2. HeadsInv(r, w, at) /\ PollInv(r, w) /\ NumbersInv /\ OnceInv /\ LiveInv(r, w, at)
  BY DEF RingInv
<1>3. /\ write_pos[p] \in Slots /\ write_pos[p] = Slot(at[p])
      /\ entropy_buffer'[write_pos[p]] = event[p]
      /\ \A s \in Slots : s # write_pos[p] => entropy_buffer'[s] = entropy_buffer[s]
  <2>1. write_pos[p] = Slot(at[p])
    BY <1>1, <1>2 DEF HeadsInv, BusyInv
  <2> QED
    BY <2>1 DEF PushStore, RingInv, TypeInv
<1>4. Fresh(event[p]) /\ event[p] <= pushed
  BY <1>1, <1>2 DEF LiveInv, HeadsInv, BusyInv
<1>5. HeadsInv(r, w, at)'
  <2>1. ASSUME NEW q \in Producers, pc'[q] # "idle" PROVE BusyInv(q, r, w, at[q])'
    <3>1. BusyInv(q, r, w, at[q])
      BY <1>1, <1>2, <2>1 DEF HeadsInv
    <3> QED
      BY <1>1, <2>1, <3>1 DEF BusyInv
  <2>2. \A q, s \in Producers : pc'[q] # "idle" /\ pc'[s] # "idle" /\ q # s => InOrder(q, s, at)'
    BY <1>1, <1>2 DEF HeadsInv, InOrder
  <2> QED
    BY <1>1, <1>2, <2>1, <2>2 DEF HeadsInv
<1>6. PollInv(r, w)'
  BY <1>1, <1>2 DEF PollInv
<1>7. NumbersInv'
  BY <1>1, <1>2, <1>3, <1>4 DEF NumbersInv
<1>8. OnceInv'
  <2>1. \A s \in Slots : entropy_buffer[s] # event[p]
    BY <1>4 DEF Fresh
  <2> QED
    BY <1>1, <1>2, <1>3, <2>1 DEF OnceInv
<1>9. LiveInv(r, w, at)'
  <2>1. \A e : Live(e) <=> Live(e)'
    BY <1>1 DEF Live, Delivered
  <2>2. \A s : InUse(s, r, w, at)' => InUse(s, r, w, at) \/ s = write_pos[p]
    BY <1>1, <1>3 DEF InUse
  <2>3. ASSUME NEW q \in Producers, pc'[q] \in {"test", "store"} PROVE Fresh(event[q])'
    <3>1. q # p /\ Fresh(event[q])
      BY <1>1, <1>2, <2>3 DEF LiveInv
    <3>2. event[q] # event[p]
      BY <1>1, <1>2, <2>3, <3>1 DEF HeadsInv, InOrder
    <3> QED
      BY <1>1, <1>3, <2>1, <3>1, <3>2 DEF Fresh
  <2>4. Live(event[p]) /\ event[p] # val[c1]
    BY <1>4 DEF Fresh
  <2>5. \A s \in Slots : InUse(s, r, w, at)' => Live(entropy_buffer[s])'
    BY <1>2, <1>3, <2>1, <2>2, <2>4 DEF LiveInv
  <2>6. took'[c1] => Live(entropy_buffer[Slot(r - 1)])'
    <3>1. Slot(r - 1) \in Slots
      BY SlotType
    <3> QED
      BY <1>1, <1>2, <1>3, <2>1, <2>4, <3>1 DEF LiveInv
  <2>7. pc'[c1] = "exchange" /\ took'[c1] =>
          Live(val[c1])' /\ \A s \in Slots : InUse(s, r, w, at)' => entropy_buffer'[s] # val'[c1]
    BY <1>1, <1>2, <1>3, <2>1, <2>2, <2>4 DEF LiveInv
  <2> QED
    BY <2>3, <2>5, <2>6, <2>7 DEF LiveInv
<1> QED
  BY <1>5, <1>6, <1>7, <1>8, <1>9 DEF RingInv

(* The compare-exchange succeeds for the producer that found published     *)
(* what is published now, and for no other: the ring has not gone round.   *)
LEMMA ExchangeSucceeds ==
  ASSUME NEW r \in Nat, NEW w \in Nat, NEW at \in [Producers -> Nat], RingInv(r, w, at),
         NEW p \in Producers, pc[p] # "idle"
  PROVE  write_head = write_pos[p] <=> at[p] = w
<1>1. /\ write_head = Slot(w) /\ write_pos[p] = Slot(at[p]) /\ at[p] \in Nat /\ at[p] <= w
      /\ w <= at[p] + 1 + (pushed - event[p]) /\ pushed - event[p] <= MaxOverlap
      /\ pushed \in Nat /\ event[p] \in Nat
  BY DEF RingInv, TypeInv, HeadsInv, BusyInv
<1>2. w < at[p] + RingSize
  BY <1>1, Contexts
<1>3. at[p] < w + RingSize
  BY <1>1, Contexts
<1>4. Slot(w) = Slot(at[p]) => at[p] = w
  BY <1>1, <1>2, <1>3, SlotsSame
<1> QED
  BY <1>1, <1>4

LEMMA PushPublishStep ==
  ASSUME NEW r \in Nat, NEW w \in Nat, NEW at \in [Producers -> Nat], RingInv(r, w, at),
         NEW p \in Producers, PushPublish(p), TypeInv'
  PROVE  RingInv(r, IF at[p] = w THEN w + 1 ELSE w, at)'
<1> DEFINE w2 == IF at[p] = w THEN w + 1 ELSE w
<1>1. /\ pc[p] = "publish" /\ pc'[p] = "idle" /\ \A q \in Producers : q # p => pc'[q] = pc[q]
      /\ pc'[c1] = pc[c1]
      /\ event' = event /\ write_pos' = write_pos /\ pushed' = pushed
      /\ entropy_buffer' = entropy_buffer /\ read_head' = read_head
      /\ read_pos' = read_pos /\ val' = val /\ took' = took /\ delivered' = delivered
      /\ pushed \in Nat /\ event \in [Producers -> Nat]
  BY Contexts DEF PushPublish, Goto, RingInv, TypeInv, pushVars, pollVars
<1>2. HeadsInv(r, w, at) /\ PollInv(r, w) /\ NumbersInv /\ OnceInv /\ LiveInv(r, w, at)
  BY DEF RingInv
<1>3. /\ write_pos[p] = Slot(at[p]) /\ at[p] \in Nat /\ at[p] < r + RingSize - 1
      /\ r <= w /\ w < r + RingSize /\ write_head = Slot(w)
  BY <1>1, <1>2 DEF HeadsInv, BusyInv
<1>4. w2 \in Nat /\ w2 \in {w, w + 1} /\ (w2 = w + 1 <=> at[p] = w)
  OBVIOUS
<1>5. write_head' = Slot(w2)
  <2>1. CASE at[p] = w
    BY <1>1, <1>3, <2>1, ExchangeSucceeds, SlotStep DEF PushPublish
  <2>2. CASE at[p] # w
    BY <1>1, <1>3, <2>2, ExchangeSucceeds DEF PushPublish
  <2> QED
    BY <2>1, <2>2
<1> HIDE DEF w2
<1>6. r <= w2 /\ w2 < r + RingSize
  BY <1>3, <1>4, Contexts
<1>7. HeadsInv(r, w2, at)'
  <2>1. ASSUME NEW q \in Producers, pc'[q] # "idle" PROVE BusyInv(q, r, w2, at[q])'
    <3>1. q # p /\ BusyInv(q, r, w, at[q]) /\ at[q] \in Nat
      BY <1>1, <1>2, <2>1 DEF HeadsInv
    <3>2. w2 <= at[q] + 1 + (pushed - event[q])
      <4>1. CASE w2 = w
        BY <3>1, <4>1 DEF BusyInv
      <4>2. CASE w2 = w + 1
        <5>1. at[p] = w /\ InOrder(p, q, at) /\ InOrder(q, p, at) /\ event[p] <= pushed
          BY <1>1, <1>2, <1>4, <2>1, <3>1, <4>2 DEF HeadsInv, BusyInv
        <5>2. event[p] \in Nat /\ event[q] \in Nat
          BY <1>1
        <5> QED
          BY <1>1, <3>1, <4>2, <5>1, <5>2 DEF InOrder, BusyInv
      <4> QED
        BY <1>4, <4>1, <4>2
    <3> QED
      BY <1>1, <1>4, <2>1, <3>1, <3>2 DEF BusyInv
  <2>2. \A q, s \in Producers : pc'[q] # "idle" /\ pc'[s] # "idle" /\ q # s => InOrder(q, s, at)'
    BY <1>1, <1>2 DEF HeadsInv, InOrder
  <2> QED
    BY <1>1, <1>2, <1>5, <1>6, <2>1, <2>2 DEF HeadsInv
<1>8. PollInv(r, w2)'
  BY <1>1, <1>2, <1>4 DEF PollInv
<1>9. NumbersInv' /\ OnceInv'
  BY <1>1, <1>2 DEF NumbersInv, OnceInv
<1>10. LiveInv(r, w2, at)'
  <2>1. \A e : (Live(e) <=> Live(e)') /\ (Fresh(e) <=> Fresh(e)')
    BY <1>1 DEF Fresh, Live, Delivered
  <2>2. ASSUME NEW s, InUse(s, r, w2, at)' PROVE InUse(s, r, w, at)
    <3>1. CASE w2 = w
      BY <1>1, <2>2, <3>1 DEF InUse
    <3>2. CASE w2 = w + 1
      <4>1. \A q \in Producers : pc'[q] # "idle" => at[q] # w + 1
        BY <1>1, <1>2 DEF HeadsInv, BusyInv
      <4>2. \E k \in r..w : s = Slot(k)
        BY <2>2, <3>2, <4>1 DEF InUse
      <4>3. pc[p] = "publish" /\ at[p] = w
        BY <1>1, <1>4, <3>2
      <4> QED
        BY <4>2, <4>3 DEF InUse
    <3> QED
      BY <1>4, <3>1, <3>2
  <2> QED
    BY <1>1, <1>2, <2>1, <2>2 DEF LiveInv
<1> QED
  BY <1>7, <1>8, <1>9, <1>10 DEF RingInv, w2

-----------------------------------------------------------------------------
(* poll_ebuf                                                               *)
LEMMA PollBeginStep ==
  ASSUME NEW r \in Nat, NEW w \in Nat, NEW at \in [Producers -> Nat], RingInv(r, w, at),
         PollBegin(c1), TypeInv'
  PROVE  RingInv(r, w, at)'
<1>1. /\ pc'[c1] = "test" /\ took'[c1] = FALSE /\ read_pos'[c1] = read_head
      /\ \A q \in Producers : pc'[q] = pc[q]
      /\ event' = event /\ write_pos' = write_pos /\ pushed' = pushed
      /\ entropy_buffer' = entropy_buffer /\ read_head' = read_head /\ write_head' = write_head
      /\ val' = val /\ delivered' = delivered
  BY Contexts DEF PollBegin, Goto, RingInv, TypeInv, ringVars, pushVars
<1>2. HeadsInv(r, w, at) /\ PollInv(r, w) /\ NumbersInv /\ OnceInv /\ LiveInv(r, w, at)
  BY DEF RingInv
<1>3. HeadsInv(r, w, at)'
  BY <1>1, <1>2 DEF HeadsInv, BusyInv, InOrder
<1>4. PollInv(r, w)'
  BY <1>1, <1>2 DEF PollInv, HeadsInv
<1>5. NumbersInv' /\ OnceInv'
  BY <1>1, <1>2 DEF NumbersInv, OnceInv
<1>6. LiveInv(r, w, at)'
  <2>1. \A e : (Live(e) <=> Live(e)') /\ (Fresh(e) <=> Fresh(e)')
    BY <1>1 DEF Fresh, Live, Delivered
  <2>2. \A s : InUse(s, r, w, at)' => InUse(s, r, w, at)
    BY <1>1 DEF InUse
  <2> QED
    BY <1>1, <1>2, <2>1, <2>2 DEF LiveInv
<1> QED
  BY <1>3, <1>4, <1>5, <1>6 DEF RingInv

LEMMA PollTestStep ==
  ASSUME NEW r \in Nat, NEW w \in Nat, NEW at \in [Producers -> Nat], RingInv(r, w, at),
         PollTest(c1), TypeInv'
  PROVE  RingInv(r, w, at)'
<1>1. /\ pc[c1] = "test"
      /\ \A q \in Producers : pc'[q] = pc[q]
      /\ \/ read_pos[c1] = write_head /\ pc'[c1] = "idle" /\ took'[c1] = FALSE
         \/ read_pos[c1] # write_head /\ pc'[c1] = "load" /\ took'[c1] = took[c1]
      /\ event' = event /\ write_pos' = write_pos /\ pushed' = pushed
      /\ entropy_buffer' = entropy_buffer /\ read_head' = read_head /\ write_head' = write_head
      /\ read_pos' = read_pos /\ val' = val /\ delivered' = delivered
  BY Contexts DEF PollTest, Goto, RingInv, TypeInv, ringVars, pushVars
<1>2. HeadsInv(r, w, at) /\ PollInv(r, w) /\ NumbersInv /\ OnceInv /\ LiveInv(r, w, at)
  BY DEF RingInv
<1>3. HeadsInv(r, w, at)'
  BY <1>1, <1>2 DEF HeadsInv, BusyInv, InOrder
<1>4. PollInv(r, w)'
  <2>1. pc'[c1] = "load" /\ ~took'[c1] => r < w
    BY <1>1, <1>2 DEF PollInv, HeadsInv, Polling
  <2> QED
    BY <1>1, <1>2, <2>1 DEF PollInv, Polling
<1>5. NumbersInv' /\ OnceInv'
  BY <1>1, <1>2 DEF NumbersInv, OnceInv
<1>6. LiveInv(r, w, at)'
  <2>1. \A e : (Live(e) <=> Live(e)') /\ (Fresh(e) <=> Fresh(e)')
    BY <1>1 DEF Fresh, Live, Delivered
  <2>2. \A s : InUse(s, r, w, at)' => InUse(s, r, w, at)
    BY <1>1 DEF InUse
  <2> QED
    BY <1>1, <1>2, <2>1, <2>2 DEF LiveInv
<1> QED
  BY <1>3, <1>4, <1>5, <1>6 DEF RingInv

(* The slot just taken is not in use again: that would fill the last slot. *)
LEMMA TakenIsFree ==
  ASSUME NEW r \in Nat, NEW w \in Nat, NEW at \in [Producers -> Nat], RingInv(r, w, at)
  PROVE  \A s : InUse(s, r, w, at) => s # Slot(r - 1) /\ s \in Slots
<1>1. /\ HeadsInv(r, w, at) /\ r <= w /\ w < r + RingSize
  BY DEF RingInv, HeadsInv
<1>2. ASSUME NEW k \in Int, r <= k, k < r + RingSize - 1
      PROVE  Slot(k) # Slot(r - 1) /\ Slot(k) \in Slots
  <2>1. r - 1 \in Int /\ r - 1 < k /\ k < (r - 1) + RingSize
    BY <1>2, Contexts
  <2> QED
    BY <2>1, SlotsDiffer, SlotType
<1>3. ASSUME NEW p \in Producers, pc[p] = "publish", at[p] = w
      PROVE  w < r + RingSize - 1
  BY <1>1, <1>3 DEF HeadsInv, BusyInv
<1>4. ASSUME NEW s, InUse(s, r, w, at)
      PROVE  \E k \in Int : r <= k /\ k < r + RingSize - 1 /\ s = Slot(k)
  <2>1. CASE \E k \in r..(w - 1) : s = Slot(k)
    BY <1>1, <2>1, Contexts
  <2>2. CASE s = Slot(w) /\ \E p \in Producers : pc[p] = "publish" /\ at[p] = w
    BY <1>1, <1>3, <2>2
  <2> QED
    BY <1>4, <2>1, <2>2 DEF InUse
<1> QED
  BY <1>2, <1>4

LEMMA PollLoadStep ==
  ASSUME NEW r \in Nat, NEW w \in Nat, NEW at \in [Producers -> Nat], RingInv(r, w, at),
         PollLoad(c1), TypeInv'
  PROVE  RingInv(r, w, at)'
<1>1. /\ pc[c1] = "load" /\ pc'[c1] = "exchange"
      /\ \A q \in Producers : pc'[q] = pc[q]
      /\ val'[c1] = entropy_buffer[read_pos[c1]] /\ read_pos[c1] \in Slots
      /\ event' = event /\ write_pos' = write_pos /\ pushed' = pushed
      /\ entropy_buffer' = entropy_buffer /\ read_head' = read_head /\ write_head' = write_head
      /\ read_pos' = read_pos /\ took' = took /\ delivered' = delivered
  BY Contexts DEF PollLoad, Goto, RingInv, TypeInv, ringVars, pushVars
<1>2. HeadsInv(r, w, at) /\ PollInv(r, w) /\ NumbersInv /\ OnceInv /\ LiveInv(r, w, at)
  BY DEF RingInv
<1>3. HeadsInv(r, w, at)'
  BY <1>1, <1>2 DEF HeadsInv, BusyInv, InOrder
<1>4. PollInv(r, w)'
  BY <1>1, <1>2 DEF PollInv, Polling
<1>5. NumbersInv' /\ OnceInv'
  BY <1>1, <1>2 DEF NumbersInv, OnceInv
<1>6. LiveInv(r, w, at)'
  <2>1. \A e : Live(e) <=> Live(e)'
    BY <1>1 DEF Live, Delivered
  <2>2. \A e : Fresh(e) => Fresh(e)'
    BY <1>1, <2>1 DEF Fresh
  <2>3. \A s : InUse(s, r, w, at)' <=> InUse(s, r, w, at)
    BY <1>1 DEF InUse
  <2>4. ASSUME took[c1] PROVE Live(val'[c1]) /\ \A s \in Slots : InUse(s, r, w, at) => entropy_buffer[s] # val'[c1]
    <3>1. val'[c1] = entropy_buffer[Slot(r - 1)] /\ Slot(r - 1) \in Slots
      BY <1>1, <1>2, <2>4, SlotType DEF PollInv, Polling
    <3>2. Live(val'[c1]) /\ val'[c1] # NoEvent
      BY <1>2, <2>4, <3>1 DEF LiveInv, Live
    <3> QED
      BY <1>2, <3>1, <3>2, TakenIsFree DEF OnceInv
  <2>5. \A q \in Producers : pc'[q] \in {"test", "store"} => Fresh(event[q])'
    BY <1>1, <1>2, <2>2 DEF LiveInv
  <2>6. \A s \in Slots : InUse(s, r, w, at)' => Live(entropy_buffer[s])'
    BY <1>1, <1>2, <2>1, <2>3 DEF LiveInv
  <2>7. took'[c1] => Live(entropy_buffer[Slot(r - 1)])'
    BY <1>1, <1>2, <2>1 DEF LiveInv
  <2>8. took'[c1] =>
          Live(val[c1])' /\ \A s \in Slots : InUse(s, r, w, at)' => entropy_buffer'[s] # val'[c1]
    BY <1>1, <2>1, <2>3, <2>4
  <2> QED
    BY <2>5, <2>6, <2>7, <2>8 DEF LiveInv
<1> QED
  BY <1>3, <1>4, <1>5, <1>6 DEF RingInv

(* The exchange succeeds in the first round of the loop, and in no other.  *)
LEMMA FirstRoundTakes ==
  ASSUME NEW r \in Nat, NEW w \in Nat, NEW at \in [Producers -> Nat], RingInv(r, w, at),
         pc[c1] \in Polling
  PROVE  read_head = read_pos[c1] <=> ~took[c1]
<1>1. read_head = Slot(r) /\ read_pos[c1] = Slot(IF took[c1] THEN r - 1 ELSE r) /\ took[c1] \in BOOLEAN
  BY Contexts DEF RingInv, TypeInv, HeadsInv, PollInv
<1>2. Slot(r - 1) # Slot(r)
  <2>1. r - 1 \in Int /\ r - 1 < r /\ r < (r - 1) + RingSize
    BY Contexts
  <2> QED
    BY <2>1, SlotsDiffer
<1> QED
  BY <1>1, <1>2

LEMMA PollTakesStep ==
  ASSUME NEW r \in Nat, NEW w \in Nat, NEW at \in [Producers -> Nat], RingInv(r, w, at),
         PollExchange(c1), ~took[c1], TypeInv'
  PROVE  RingInv(r + 1, w, at)'
<1>1. /\ pc[c1] = "exchange" /\ pc'[c1] = "test" /\ took'[c1] = TRUE
      /\ \A q \in Producers : pc'[q] = pc[q]
      /\ read_head' = Advance(read_head) /\ read_pos' = read_pos
      /\ event' = event /\ write_pos' = write_pos /\ pushed' = pushed
      /\ entropy_buffer' = entropy_buffer /\ write_head' = write_head
      /\ val' = val /\ delivered' = delivered
  <2>1. read_head = read_pos[c1]
    BY FirstRoundTakes DEF PollExchange, Polling
  <2> QED
    BY <2>1, Contexts DEF PollExchange, Goto, RingInv, TypeInv, pushVars
<1>2. HeadsInv(r, w, at) /\ PollInv(r, w) /\ NumbersInv /\ OnceInv /\ LiveInv(r, w, at)
  BY DEF RingInv
<1>3. r + 1 \in Nat /\ (r + 1) - 1 = r /\ r < w
  BY <1>1, <1>2 DEF PollInv
<1>4. HeadsInv(r + 1, w, at)'
  <2>1. read_head' = Slot(r + 1) /\ r + 1 <= w /\ w < (r + 1) + RingSize
    BY <1>1, <1>2, <1>3, SlotStep, Contexts DEF HeadsInv
  <2>2. ASSUME NEW q \in Producers, pc'[q] # "idle" PROVE BusyInv(q, r + 1, w, at[q])'
    <3>1. BusyInv(q, r, w, at[q]) /\ at[q] \in Nat
      BY <1>1, <1>2, <2>2 DEF HeadsInv
    <3> QED
      BY <1>1, <2>2, <3>1, Contexts DEF BusyInv
  <2>3. \A q, s \in Producers : pc'[q] # "idle" /\ pc'[s] # "idle" /\ q # s => InOrder(q, s, at)'
    BY <1>1, <1>2 DEF HeadsInv, InOrder
  <2> QED
    BY <1>1, <1>2, <2>1, <2>2, <2>3 DEF HeadsInv
<1>5. PollInv(r + 1, w)'
  BY <1>1, <1>2, <1>3 DEF PollInv, Polling
<1>6. NumbersInv' /\ OnceInv'
  BY <1>1, <1>2 DEF NumbersInv, OnceInv
<1>7. LiveInv(r + 1, w, at)'
  <2>1. \A e : (Live(e) <=> Live(e)') /\ (Fresh(e) <=> Fresh(e)')
    BY <1>1 DEF Fresh, Live, Delivered
  <2>2. \A s : InUse(s, r + 1, w, at)' => InUse(s, r, w, at)
    BY <1>1 DEF InUse
  <2>3. Live(entropy_buffer[Slot(r)])
    <3>1. InUse(Slot(r), r, w, at) /\ Slot(r) \in Slots
      BY <1>3, SlotType DEF InUse
    <3> QED
      BY <1>2, <3>1 DEF LiveInv
  <2>4. Live(entropy_buffer[Slot((r + 1) - 1)])'
    BY <1>1, <1>3, <2>1, <2>3
  <2>5. \A q \in Producers : pc'[q] \in {"test", "store"} => Fresh(event[q])'
    BY <1>1, <1>2, <2>1 DEF LiveInv
  <2>6. \A s \in Slots : InUse(s, r + 1, w, at)' => Live(entropy_buffer[s])'
    BY <1>1, <1>2, <2>1, <2>2 DEF LiveInv
  <2> QED
    BY <1>1, <2>4, <2>5, <2>6 DEF LiveInv
<1> QED
  BY <1>4, <1>5, <1>6, <1>7 DEF RingInv

LEMMA PollReturnsStep ==
  ASSUME NEW r \in Nat, NEW w \in Nat, NEW at \in [Producers -> Nat], RingInv(r, w, at),
         PollExchange(c1), took[c1], TypeInv'
  PROVE  RingInv(r, w, at)'
<1>1. /\ pc[c1] = "exchange" /\ pc'[c1] = "idle" /\ took'[c1] = FALSE
      /\ \A q \in Producers : pc'[q] = pc[q]
      /\ delivered' = Append(delivered, val[c1])
      /\ event' = event /\ write_pos' = write_pos /\ pushed' = pushed
      /\ entropy_buffer' = entropy_buffer /\ write_head' = write_head /\ read_head' = read_head
      /\ val' = val
  <2>1. read_head # read_pos[c1]
    BY FirstRoundTakes DEF PollExchange, Polling
  <2> QED
    BY <2>1, Contexts DEF PollExchange, Goto, RingInv, TypeInv, pushVars
<1>2. HeadsInv(r, w, at) /\ PollInv(r, w) /\ NumbersInv /\ OnceInv /\ LiveInv(r, w, at)
  BY DEF RingInv
<1>3. PICK n \in Nat :
        /\ DOMAIN delivered = 1..n /\ DOMAIN delivered' = 1..(n + 1)
        /\ \A i \in 1..n : delivered'[i] = delivered[i]
        /\ delivered'[n + 1] = val[c1]
  <2>1. delivered \in Seq(Nat) /\ val[c1] \in Nat
    BY Contexts DEF RingInv, TypeInv
  <2> QED
    BY <1>1, <2>1, AppendNat
<1>4. Live(val[c1]) /\ \A s \in Slots : InUse(s, r, w, at) => entropy_buffer[s] # val[c1]
  BY <1>1, <1>2 DEF LiveInv
<1>5. HeadsInv(r, w, at)'
  BY <1>1, <1>2 DEF HeadsInv, BusyInv, InOrder
<1>6. PollInv(r, w)'
  BY <1>1, <1>2 DEF PollInv, Polling
<1>7. NumbersInv'
  BY <1>1, <1>2, <1>3 DEF NumbersInv
<1>8. OnceInv'
  BY <1>1, <1>2, <1>3, <1>4 DEF OnceInv, Live, Delivered
<1>9. LiveInv(r, w, at)'
  <2>1. \A e : Live(e) /\ e # val[c1] => Live(e)'
    BY <1>1, <1>3 DEF Live, Delivered
  <2>2. \A e : Fresh(e) => Fresh(e)'
    BY <1>1, <2>1 DEF Fresh
  <2>3. \A s : InUse(s, r, w, at)' => InUse(s, r, w, at)
    BY <1>1 DEF InUse
  <2>4. \A q \in Producers : pc'[q] \in {"test", "store"} => Fresh(event[q])'
    BY <1>1, <1>2, <2>2 DEF LiveInv
  <2>5. \A s \in Slots : InUse(s, r, w, at)' => Live(entropy_buffer[s])'
    BY <1>1, <1>2, <1>4, <2>1, <2>3 DEF LiveInv
  <2> QED
    BY <1>1, <2>4, <2>5 DEF LiveInv
<1> QED
  BY <1>5, <1>6, <1>7, <1>8, <1>9 DEF RingInv

-----------------------------------------------------------------------------
LEMMA IInvStep == IInv /\ [Next]_vars => IInv'
<1> SUFFICES ASSUME IInv, [Next]_vars PROVE IInv'
  OBVIOUS
<1>1. PICK r \in Nat, w \in Nat, at \in [Producers -> Nat] : RingInv(r, w, at)
  BY DEF IInv
<1>2. TypeInv'
  BY <1>1, TypeStep DEF RingInv
<1>3. ASSUME NEW r2 \in Nat, NEW w2 \in Nat, NEW at2 \in [Producers -> Nat], RingInv(r2, w2, at2)'
      PROVE  IInv'
  BY <1>3 DEF IInv
<1>4. ASSUME NEW p \in Producers, PushBegin(p) PROVE IInv'
  <2>1. [at EXCEPT ![p] = w] \in [Producers -> Nat]
    OBVIOUS
  <2> QED
    BY <1>1, <1>2, <1>3, <1>4, <2>1, PushBeginStep
<1>5. ASSUME NEW p \in Producers, PushTest(p) PROVE IInv'
  BY <1>1, <1>2, <1>3, <1>5, PushTestStep
<1>6. ASSUME NEW p \in Producers, PushStore(p) PROVE IInv'
  BY <1>1, <1>2, <1>3, <1>6, PushStoreStep
<1>7. ASSUME NEW p \in Producers, PushPublish(p) PROVE IInv'
  <2>1. (IF at[p] = w THEN w + 1 ELSE w) \in Nat
    OBVIOUS
  <2> QED
    BY <1>1, <1>2, <1>3, <1>7, <2>1, PushPublishStep
<1>8. ASSUME PollBegin(c1) PROVE IInv'
  BY <1>1, <1>2, <1>3, <1>8, PollBeginStep
<1>9. ASSUME PollTest(c1) PROVE IInv'
  BY <1>1, <1>2, <1>3, <1>9, PollTestStep
<1>10. ASSUME PollLoad(c1) PROVE IInv'
  BY <1>1, <1>2, <1>3, <1>10, PollLoadStep
<1>11. ASSUME PollExchange(c1) PROVE IInv'
  <2>1. CASE took[c1]
    BY <1>1, <1>2, <1>3, <1>11, <2>1, PollReturnsStep
  <2>2. CASE ~took[c1]
    <3>1. r + 1 \in Nat
      OBVIOUS
    <3> QED
      BY <1>1, <1>2, <1>3, <1>11, <2>2, <3>1, PollTakesStep
  <2> QED
    BY <2>1, <2>2
<1>12. CASE UNCHANGED vars
  <2>1. RingInv(r, w, at)'
    BY <1>1, <1>12 DEF vars, ringVars, pushVars, pollVars, RingInv, TypeInv, HeadsInv, BusyInv, InOrder,
         PollInv, NumbersInv, OnceInv, LiveInv, InUse, Fresh, Live, Delivered
  <2> QED
    BY <1>3, <2>1
<1> QED
  BY <1>4, <1>5, <1>6, <1>7, <1>8, <1>9, <1>10, <1>11, <1>12, Contexts DEF Next, Push, Poll

(* The inductive invariant holds in every state of the ring.               *)
THEOREM IInvHolds == Spec => []IInv
<1> QED
  BY InitIInv, IInvStep, PTL DEF Spec

-----------------------------------------------------------------------------
(* What waits                                                              *)
LEMMA SlotSum ==
  ASSUME NEW a \in Int, NEW j \in Int
  PROVE  ((Slot(a) + j) % RingSize) = Slot(a + j)
<1> DEFINE n == RingSize
           q == a \div n
           s == a % n
<1>1. n \in Nat \ {0}
  BY SizeType
<1>2. q \in Int /\ s \in 0..(n - 1) /\ a = q * n + s
  BY <1>1, DivMod
<1> HIDE DEF q, s, n
<1>3. q * n \in Int
  BY <1>1, <1>2
<1>4. s + j \in Int /\ a + j = (s + j) + q * n
  BY <1>1, <1>2, <1>3
<1>5. (((s + j) + q * n) % n) = ((s + j) % n)
  BY <1>1, <1>2, <1>4, RemainderAdds, Zenon
<1>6. ((a + j) % n) = ((s + j) % n)
  BY <1>4, <1>5, Zenon
<1> QED
  BY <1>6 DEF Slot, n, s

LEMMA SlotDifference ==
  ASSUME NEW a \in Int, NEW b \in Int, a <= b, b < a + RingSize
  PROVE  ((Slot(b) - Slot(a)) % RingSize) = b - a
<1> DEFINE n == RingSize
           qa == a \div n
           sa == a % n
<1>1. n \in Nat \ {0}
  BY SizeType
<1>2. qa \in Int /\ sa \in 0..(n - 1) /\ a = qa * n + sa
  BY <1>1, DivMod
<1>3. Slot(a) = sa
  BY DEF Slot
<1>4. b < a + n
  OBVIOUS
<1> HIDE DEF qa, sa, n
<1>5. qa * n \in Int
  BY <1>1, <1>2
<1>6. PICK j \in Int : j = -sa
  BY <1>2
<1>7. ((Slot(b) + j) % n) = Slot(b + j)
  BY <1>6, SlotSum, Zenon DEF n
<1>8. Slot(b) - sa = Slot(b) + j
  BY <1>1, <1>2, <1>6, SlotType DEF Slots
<1>9. b + j \in Int /\ b + j = (b - a) + qa * n /\ b - a \in Int
  BY <1>2, <1>5, <1>6
<1>10. (((b - a) + qa * n) % n) = ((b - a) % n)
  BY <1>1, <1>2, <1>9, RemainderAdds, Zenon
<1>11. ((b - a) % n) = b - a
  BY <1>1, <1>4
<1>12. Slot(b + j) = b - a
  BY <1>9, <1>10, <1>11, Zenon DEF Slot, n
<1> QED
  BY <1>3, <1>7, <1>8, <1>12, Zenon DEF n

LEMMA WaitingIs ==
  ASSUME NEW r \in Nat, NEW w \in Nat, NEW at \in [Producers -> Nat], RingInv(r, w, at)
  PROVE  /\ Waiting = [i \in 1..(w - r) |-> entropy_buffer[Slot(r + (i - 1))]]
         /\ w - r \in Nat /\ w - r < RingSize
<1>1. read_head = Slot(r) /\ write_head = Slot(w) /\ r <= w /\ w < r + RingSize
  BY DEF RingInv, HeadsInv
<1>2. ((write_head - read_head) % RingSize) = w - r
  BY <1>1, SlotDifference
<1>3. ASSUME NEW i \in 1..(w - r)
      PROVE  ((read_head + (i - 1)) % RingSize) = Slot(r + (i - 1))
  <2>1. PICK j \in Int : j = i - 1
    OBVIOUS
  <2>2. r \in Int
    OBVIOUS
  <2>3. ((Slot(r) + j) % RingSize) = Slot(r + j)
    BY <2>2, SlotSum, Zenon
  <2> QED
    BY <1>1, <2>1, <2>3, Zenon
<1> QED
  BY <1>1, <1>2, <1>3, Contexts DEF Waiting

(* Any number of producers and one poll: a slot between the heads holds an *)
(* event; none waits twice, is delivered twice, or waits when delivered.   *)
(* What it needs of the ring is that it does not go round while one push   *)
(* is suspended.                                                           *)
THEOREM EventsWaitOnceTheorem == Spec => []EventsWaitOnce
<1>1. IInv => EventsWaitOnce
  <2> SUFFICES ASSUME IInv PROVE EventsWaitOnce
    OBVIOUS
  <2>1. PICK r \in Nat, w \in Nat, at \in [Producers -> Nat] : RingInv(r, w, at)
    BY DEF IInv
  <2>2. OnceInv /\ LiveInv(r, w, at)
    BY <2>1 DEF RingInv
  <2>3. DOMAIN Waiting = 1..(w - r) /\ w - r < RingSize
    BY <2>1, WaitingIs
  <2>4. ASSUME NEW i \in 1..(w - r)
        PROVE  /\ r + (i - 1) \in r..(w - 1) /\ Slot(r + (i - 1)) \in Slots
               /\ Waiting[i] = entropy_buffer[Slot(r + (i - 1))]
               /\ Live(Waiting[i])
    <3>1. r + (i - 1) \in r..(w - 1) /\ Slot(r + (i - 1)) \in Slots
      BY SlotType
    <3>2. Waiting[i] = entropy_buffer[Slot(r + (i - 1))]
      BY <2>1, WaitingIs
    <3>3. InUse(Slot(r + (i - 1)), r, w, at)
      BY <3>1 DEF InUse
    <3> QED
      BY <2>2, <3>1, <3>2, <3>3 DEF LiveInv
  <2>5. ASSUME NEW i \in 1..(w - r), NEW j \in 1..(w - r), i # j
        PROVE  Waiting[i] # Waiting[j]
    <3>1. PICK a \in Int, b \in Int : a = r + (i - 1) /\ b = r + (j - 1)
      OBVIOUS
    <3>2. a # b /\ a < b + RingSize /\ b < a + RingSize
      BY <2>3, <2>5, <3>1, Contexts
    <3>3. Slot(a) # Slot(b)
      BY <3>2, SlotsSame
    <3>4. /\ Slot(a) \in Slots /\ Waiting[i] = entropy_buffer[Slot(a)] /\ Waiting[i] # NoEvent
          /\ Slot(b) \in Slots /\ Waiting[j] = entropy_buffer[Slot(b)]
      BY <2>4, <3>1 DEF Live
    <3> QED
      BY <2>2, <3>3, <3>4 DEF OnceInv
  <2> QED
    BY <2>2, <2>3, <2>4, <2>5 DEF EventsWaitOnce, OnceInv, Live, Delivered
<1> QED
  BY <1>1, IInvHolds, PTL

-----------------------------------------------------------------------------
(* A single producer finds published what is published: it alone publishes,*)
(* and stores to no slot that waits or from which the poll may still read. *)
AloneInv(r, w, at) ==
  /\ \A q \in Producers : q # p1 => pc[q] = "idle"
  /\ pc[p1] # "idle" => at[p1] = w
  /\ pc[p1] = "publish" => entropy_buffer[Slot(w)] = event[p1]
  /\ took[c1] => val[c1] = entropy_buffer[Slot(r - 1)]
  /\ pc[c1] = "exchange" /\ ~took[c1] => val[c1] = entropy_buffer[Slot(r)]

QueueInv ==
  /\ alone \in BOOLEAN
  /\ \E r, w \in Nat : \E at \in [Producers -> Nat] :
       RingInv(r, w, at) /\ (alone => AloneInv(r, w, at))

LEMMA AppendIs ==
  ASSUME NEW n \in Nat, NEW s \in [1..n -> Nat], NEW t \in [1..(n + 1) -> Nat],
         \A i \in 1..n : t[i] = s[i]
  PROVE  t = Append(s, t[n + 1]) /\ Len(s) = n
<1>1. s \in Seq(Nat) /\ Len(s) = n
  OBVIOUS
<1>2. t \in Seq(Nat) /\ Len(t) = n + 1
  OBVIOUS
<1> QED
  BY <1>1, <1>2

LEMMA TailIs ==
  ASSUME NEW n \in Nat, NEW s \in [1..(n + 1) -> Nat], NEW t \in [1..n -> Nat],
         \A i \in 1..n : t[i] = s[i + 1]
  PROVE  t = Tail(s) /\ Head(s) = s[1] /\ s # <<>>
<1>1. s \in Seq(Nat) /\ Len(s) = n + 1
  OBVIOUS
<1>2. t \in Seq(Nat) /\ Len(t) = n
  OBVIOUS
<1> QED
  BY <1>1, <1>2

(* Waiting in terms of the numbers of the heads, in this state and the     *)
(* next one.                                                               *)
WaitsFrom(r, w) ==
  /\ w - r \in Nat /\ w - r < RingSize
  /\ Waiting \in [1..(w - r) -> Nat]
  /\ \A i \in 1..(w - r) : Waiting[i] = entropy_buffer[Slot(r + (i - 1))]
  /\ Len(Waiting) = w - r

LEMMA WaitsFromHeads ==
  \A r, w \in Nat : \A at \in [Producers -> Nat] : RingInv(r, w, at) => WaitsFrom(r, w)
<1> SUFFICES ASSUME NEW r \in Nat, NEW w \in Nat, NEW at \in [Producers -> Nat], RingInv(r, w, at)
             PROVE  WaitsFrom(r, w)
  OBVIOUS
<1>1. /\ Waiting = [i \in 1..(w - r) |-> entropy_buffer[Slot(r + (i - 1))]]
      /\ w - r \in Nat /\ w - r < RingSize
  BY WaitingIs
<1>2. \A i \in 1..(w - r) : entropy_buffer[Slot(r + (i - 1))] \in Nat
  BY SlotType DEF RingInv, TypeInv
<1>3. Waiting \in [1..(w - r) -> Nat]
  BY <1>1, <1>2
<1>4. Len(Waiting) = w - r
  BY <1>1, <1>3
<1> QED
  BY <1>1, <1>3, <1>4 DEF WaitsFrom

LEMMA WaitsFromHeadsNext ==
  (\A r, w \in Nat : \A at \in [Producers -> Nat] : RingInv(r, w, at) => WaitsFrom(r, w))'
BY WaitsFromHeads, PTL

-----------------------------------------------------------------------------
(* Each step of the ring with one producer is a step of the queue          *)
Pending == IF pc[p1] = "idle" THEN NoEvent ELSE event[p1]
Hand == IF took[c1] THEN val[c1] ELSE NoEvent

QueueStep == [Q!Next]_(Q!queueVars)

LEMMA OfferStep ==
  ASSUME NEW r \in Nat, NEW w \in Nat, NEW at \in [Producers -> Nat],
         RingInv(r, w, at), AloneInv(r, w, at), alone = TRUE, alone' = TRUE,
         PushBegin(p1), RingInv(r, w, [at EXCEPT ![p1] = w])'
  PROVE  QueueStep /\ AloneInv(r, w, [at EXCEPT ![p1] = w])'
<1>1. /\ pc[p1] = "idle" /\ pc'[p1] = "test" /\ \A q \in Producers : q # p1 => pc'[q] = pc[q]
      /\ pc'[c1] = pc[c1] /\ pushed < MaxEvents /\ event'[p1] = pushed'
      /\ pushed' = pushed + 1 /\ pushed \in Nat
      /\ entropy_buffer' = entropy_buffer /\ read_head' = read_head /\ write_head' = write_head
      /\ val' = val /\ took' = took /\ delivered' = delivered
  BY Contexts DEF PushBegin, Goto, RingInv, TypeInv, ringVars, pollVars
<1>2. Waiting' = Waiting
  BY <1>1 DEF Waiting
<1>3. Q!Offer
  BY <1>1, <1>2 DEF Q!Offer, Q!NoEvent, NoEvent
<1>4. AloneInv(r, w, [at EXCEPT ![p1] = w])'
  BY <1>1, Contexts DEF AloneInv
<1> QED
  BY <1>3, <1>4 DEF QueueStep, Q!Next

LEMMA RefuseStep ==
  ASSUME NEW r \in Nat, NEW w \in Nat, NEW at \in [Producers -> Nat],
         RingInv(r, w, at), AloneInv(r, w, at), alone = TRUE, alone' = TRUE,
         PushTest(p1)
  PROVE  QueueStep /\ AloneInv(r, w, at)'
<1>1. /\ pc[p1] = "test" /\ \A q \in Producers : q # p1 => pc'[q] = pc[q]
      /\ pc'[p1] = (IF RingFull(write_pos[p1]) THEN "idle" ELSE "store")
      /\ pc'[c1] = pc[c1]
      /\ event' = event /\ pushed' = pushed
      /\ entropy_buffer' = entropy_buffer /\ read_head' = read_head /\ write_head' = write_head
      /\ val' = val /\ took' = took /\ delivered' = delivered
  BY Contexts DEF PushTest, Goto, RingInv, TypeInv, ringVars, pushVars, pollVars
<1>2. Waiting' = Waiting
  BY <1>1 DEF Waiting
<1>3. AloneInv(r, w, at)'
  BY <1>1 DEF AloneInv
<1>4. CASE pc'[p1] = "store"
  <2>1. UNCHANGED Q!queueVars
    BY <1>1, <1>2, <1>4 DEF Q!queueVars
  <2> QED
    BY <1>3, <2>1 DEF QueueStep
<1>5. CASE pc'[p1] = "idle"
  <2>1. /\ write_pos[p1] = Slot(w) /\ read_head = Slot(r) /\ r <= w /\ w < r + RingSize
        /\ event[p1] >= 1
    BY <1>1, Contexts DEF AloneInv, RingInv, HeadsInv, BusyInv
  <2>2. Slot(w) = ((Slot(r) - 1) % RingSize)
    BY <1>1, <1>5, <2>1 DEF RingFull
  <2>3. PICK k \in Int : k = r - 1
    OBVIOUS
  <2>4. ((Slot(r) - 1) % RingSize) = Slot(k) /\ Slot(k + RingSize) = Slot(k)
    BY <2>3, SlotStep
  <2>5. PICK m \in Int : m = k + RingSize
    BY Contexts
  <2>6. Slot(w) = Slot(m)
    BY <2>2, <2>4, <2>5, Zenon
  <2>7. w < m + RingSize /\ m < w + RingSize
    BY <2>1, <2>3, <2>5, Contexts
  <2>8. w = m
    BY <2>6, <2>7, SlotsSame
  <2>9. Len(Waiting) = RingSize - 1
    BY <2>3, <2>5, <2>8, WaitsFromHeads, Contexts DEF WaitsFrom
  <2>10. Q!Refuse
    BY <1>1, <1>2, <1>5, <2>1, <2>9 DEF Q!Refuse, Q!Full, Q!NoEvent, NoEvent
  <2> QED
    BY <1>3, <2>10 DEF QueueStep, Q!Next
<1> QED
  BY <1>1, <1>4, <1>5

LEMMA StoreStep ==
  ASSUME NEW r \in Nat, NEW w \in Nat, NEW at \in [Producers -> Nat],
         RingInv(r, w, at), AloneInv(r, w, at), alone = TRUE, alone' = TRUE,
         PushStore(p1), RingInv(r, w, at)'
  PROVE  QueueStep /\ AloneInv(r, w, at)'
<1>1. /\ pc[p1] = "store" /\ pc'[p1] = "publish" /\ \A q \in Producers : q # p1 => pc'[q] = pc[q]
      /\ pc'[c1] = pc[c1]
      /\ event' = event /\ pushed' = pushed
      /\ val' = val /\ took' = took /\ delivered' = delivered
  BY Contexts DEF PushStore, Goto, RingInv, TypeInv, pushVars, pollVars
<1>2. /\ write_pos[p1] = Slot(w) /\ Slot(w) \in Slots /\ r <= w /\ w < r + RingSize - 1
  BY <1>1, SlotType, Contexts DEF AloneInv, RingInv, HeadsInv, BusyInv
<1>3. /\ entropy_buffer'[Slot(w)] = event[p1]
      /\ \A s \in Slots : s # Slot(w) => entropy_buffer'[s] = entropy_buffer[s]
  BY <1>2 DEF PushStore, RingInv, TypeInv
<1>4. ASSUME NEW k \in Int, r - 1 <= k, k < w
      PROVE  entropy_buffer'[Slot(k)] = entropy_buffer[Slot(k)]
  <2>1. w < k + RingSize
    BY <1>2, <1>4, Contexts
  <2>2. Slot(k) # Slot(w) /\ Slot(k) \in Slots
    BY <1>4, <2>1, SlotsDiffer, SlotType
  <2> QED
    BY <1>3, <2>2
<1>5. Waiting' = Waiting
  <2>1. WaitsFrom(r, w) /\ WaitsFrom(r, w)'
    BY WaitsFromHeads, WaitsFromHeadsNext
  <2>2. ASSUME NEW i \in 1..(w - r) PROVE Waiting'[i] = Waiting[i]
    <3>1. PICK k \in Int : k = r + (i - 1) /\ r - 1 <= k /\ k < w
      OBVIOUS
    <3> QED
      BY <1>4, <2>1, <3>1 DEF WaitsFrom
  <2> QED
    BY <2>1, <2>2 DEF WaitsFrom
<1>6. AloneInv(r, w, at)'
  <2>1. took[c1] => entropy_buffer'[Slot(r - 1)] = entropy_buffer[Slot(r - 1)]
    <3>1. r - 1 \in Int /\ r - 1 < w
      BY <1>2
    <3> QED
      BY <1>4, <3>1
  <2>2. pc[c1] = "exchange" /\ ~took[c1] => entropy_buffer'[Slot(r)] = entropy_buffer[Slot(r)]
    BY <1>4 DEF RingInv, PollInv
  <2> QED
    BY <1>1, <1>3, <2>1, <2>2 DEF AloneInv
<1>7. UNCHANGED Q!queueVars
  BY <1>1, <1>5 DEF Q!queueVars
<1> QED
  BY <1>6, <1>7 DEF QueueStep

LEMMA AcceptStep ==
  ASSUME NEW r \in Nat, NEW w \in Nat, NEW at \in [Producers -> Nat],
         RingInv(r, w, at), AloneInv(r, w, at), alone = TRUE, alone' = TRUE,
         PushPublish(p1), RingInv(r, w + 1, at)'
  PROVE  QueueStep /\ AloneInv(r, w + 1, at)'
<1>1. /\ pc[p1] = "publish" /\ pc'[p1] = "idle" /\ \A q \in Producers : q # p1 => pc'[q] = pc[q]
      /\ pc'[c1] = pc[c1]
      /\ event' = event /\ pushed' = pushed
      /\ entropy_buffer' = entropy_buffer /\ read_head' = read_head
      /\ val' = val /\ took' = took /\ delivered' = delivered
  BY Contexts DEF PushPublish, Goto, RingInv, TypeInv, pushVars, pollVars
<1>2. r <= w /\ w < r + RingSize - 1 /\ event[p1] >= 1 /\ entropy_buffer[Slot(w)] = event[p1]
  BY <1>1, Contexts DEF AloneInv, RingInv, HeadsInv, BusyInv
<1>3. AloneInv(r, w + 1, at)'
  BY <1>1 DEF AloneInv
<1>4. WaitsFrom(r, w) /\ WaitsFrom(r, w + 1)'
  BY WaitsFromHeads, WaitsFromHeadsNext
<1>5. PICK n \in Nat : n = w - r /\ n + 1 = (w + 1) - r /\ r + ((n + 1) - 1) = w /\ n # RingSize - 1
  BY <1>2, Contexts
<1>6. /\ Waiting \in [1..n -> Nat] /\ Waiting' \in [1..(n + 1) -> Nat]
      /\ \A i \in 1..n : Waiting'[i] = Waiting[i]
      /\ Waiting'[n + 1] = event[p1] /\ Len(Waiting) # RingSize - 1
  <2>1. ASSUME NEW i \in 1..n PROVE Waiting'[i] = Waiting[i]
    <3>1. i \in 1..(w - r) /\ i \in 1..((w + 1) - r)
      BY <1>5
    <3>2. Waiting[i] = entropy_buffer[Slot(r + (i - 1))]
      BY <1>4, <3>1 DEF WaitsFrom
    <3>3. Waiting'[i] = entropy_buffer'[Slot(r + (i - 1))]
      BY <1>4, <3>1 DEF WaitsFrom
    <3> QED
      BY <1>1, <3>2, <3>3
  <2>2. Waiting'[n + 1] = event[p1]
    <3>1. n + 1 \in 1..((w + 1) - r)
      BY <1>5
    <3>2. Waiting'[n + 1] = entropy_buffer'[Slot(r + ((n + 1) - 1))]
      BY <1>4, <3>1 DEF WaitsFrom
    <3> QED
      BY <1>1, <1>2, <1>5, <3>2
  <2>3. Waiting \in [1..n -> Nat] /\ Len(Waiting) # RingSize - 1
    BY <1>4, <1>5 DEF WaitsFrom
  <2>4. Waiting' \in [1..(n + 1) -> Nat]
    BY <1>4, <1>5 DEF WaitsFrom
  <2> QED
    BY <2>1, <2>2, <2>3, <2>4
<1>7. Waiting' = Append(Waiting, event[p1])
  BY <1>6, AppendIs
<1>8. Q!Accept
  BY <1>1, <1>2, <1>6, <1>7 DEF Q!Accept, Q!Full, Q!NoEvent, NoEvent
<1> QED
  BY <1>3, <1>8 DEF QueueStep, Q!Next

LEMMA PollStartStep ==
  ASSUME NEW r \in Nat, NEW w \in Nat, NEW at \in [Producers -> Nat],
         RingInv(r, w, at), AloneInv(r, w, at), alone = TRUE, alone' = TRUE,
         PollBegin(c1)
  PROVE  QueueStep /\ AloneInv(r, w, at)'
<1>1. /\ pc[c1] = "idle" /\ pc'[c1] = "test" /\ took'[c1] = FALSE /\ took[c1] = FALSE
      /\ \A q \in Producers : pc'[q] = pc[q]
      /\ event' = event /\ pushed' = pushed
      /\ entropy_buffer' = entropy_buffer /\ read_head' = read_head /\ write_head' = write_head
      /\ val' = val /\ delivered' = delivered
  BY Contexts DEF PollBegin, Goto, RingInv, TypeInv, PollInv, ringVars, pushVars
<1>2. Waiting' = Waiting
  BY <1>1 DEF Waiting
<1>3. AloneInv(r, w, at)'
  BY <1>1, Contexts DEF AloneInv
<1>4. UNCHANGED Q!queueVars
  BY <1>1, <1>2, Contexts DEF Q!queueVars
<1> QED
  BY <1>3, <1>4 DEF QueueStep

LEMMA LoseStep ==
  ASSUME NEW r \in Nat, NEW w \in Nat, NEW at \in [Producers -> Nat],
         RingInv(r, w, at), AloneInv(r, w, at), alone = TRUE, alone' = TRUE,
         PollTest(c1)
  PROVE  QueueStep /\ AloneInv(r, w, at)'
<1>1. /\ pc[c1] = "test"
      /\ \A q \in Producers : pc'[q] = pc[q]
      /\ \/ read_pos[c1] = write_head /\ pc'[c1] = "idle" /\ took'[c1] = FALSE
         \/ read_pos[c1] # write_head /\ pc'[c1] = "load" /\ took'[c1] = took[c1]
      /\ event' = event /\ pushed' = pushed
      /\ entropy_buffer' = entropy_buffer /\ read_head' = read_head /\ write_head' = write_head
      /\ val' = val /\ delivered' = delivered
      /\ took[c1] \in BOOLEAN
  BY Contexts DEF PollTest, Goto, RingInv, TypeInv, ringVars, pushVars
<1>2. Waiting' = Waiting
  BY <1>1 DEF Waiting
<1>3. AloneInv(r, w, at)'
  BY <1>1, Contexts DEF AloneInv
<1>4. CASE took'[c1] = took[c1]
  <2>1. UNCHANGED Q!queueVars
    BY <1>1, <1>2, <1>4, Contexts DEF Q!queueVars
  <2> QED
    BY <1>3, <2>1 DEF QueueStep
<1>5. CASE took'[c1] # took[c1]
  <2>1. took[c1] = TRUE /\ took'[c1] = FALSE /\ read_pos[c1] = write_head
    BY <1>1, <1>5
  <2>2. PICK k \in Int : k = r - 1
    OBVIOUS
  <2>3. /\ Slot(k) = Slot(w) /\ r <= w /\ w < r + RingSize
        /\ val[c1] = entropy_buffer[Slot(k)] /\ Live(entropy_buffer[Slot(k)])
    BY <1>1, <2>1, <2>2 DEF RingInv, HeadsInv, PollInv, LiveInv, AloneInv, Polling
  <2>4. Slot(k + RingSize) = Slot(k)
    BY SlotStep
  <2>5. PICK m \in Int : m = k + RingSize
    BY Contexts
  <2>6. Slot(m) = Slot(w)
    BY <2>3, <2>4, <2>5, Zenon
  <2>7. w < m + RingSize /\ m < w + RingSize
    BY <2>2, <2>3, <2>5, Contexts
  <2>8. w = m
    BY <2>6, <2>7, SlotsSame
  <2>9. Len(Waiting) = RingSize - 1
    BY <2>2, <2>5, <2>8, WaitsFromHeads, Contexts DEF WaitsFrom
  <2>10. val[c1] # 0
    BY <2>3 DEF Live, NoEvent
  <2>11. Q!Lose
    BY <1>1, <1>2, <2>1, <2>9, <2>10, Contexts DEF Q!Lose, Q!Full, Q!NoEvent, NoEvent
  <2> QED
    BY <1>3, <2>11 DEF QueueStep, Q!Next
<1> QED
  BY <1>4, <1>5

LEMMA LoadStep ==
  ASSUME NEW r \in Nat, NEW w \in Nat, NEW at \in [Producers -> Nat],
         RingInv(r, w, at), AloneInv(r, w, at), alone = TRUE, alone' = TRUE,
         PollLoad(c1)
  PROVE  QueueStep /\ AloneInv(r, w, at)'
<1>1. /\ pc[c1] = "load" /\ pc'[c1] = "exchange"
      /\ \A q \in Producers : pc'[q] = pc[q]
      /\ val'[c1] = entropy_buffer[read_pos[c1]]
      /\ read_pos[c1] = Slot(IF took[c1] THEN r - 1 ELSE r)
      /\ event' = event /\ pushed' = pushed
      /\ entropy_buffer' = entropy_buffer /\ read_head' = read_head /\ write_head' = write_head
      /\ took' = took /\ delivered' = delivered
  BY Contexts DEF PollLoad, Goto, RingInv, TypeInv, PollInv, Polling, ringVars, pushVars
<1>2. Waiting' = Waiting
  BY <1>1 DEF Waiting
<1>3. AloneInv(r, w, at)'
  BY <1>1, Contexts DEF AloneInv
<1>4. took[c1] => val'[c1] = val[c1]
  BY <1>1 DEF AloneInv
<1>5. UNCHANGED Q!queueVars
  BY <1>1, <1>2, <1>4, Contexts DEF Q!queueVars
<1> QED
  BY <1>3, <1>5 DEF QueueStep

LEMMA TakeStep ==
  ASSUME NEW r \in Nat, NEW w \in Nat, NEW at \in [Producers -> Nat],
         RingInv(r, w, at), AloneInv(r, w, at), alone = TRUE, alone' = TRUE,
         PollExchange(c1), ~took[c1], RingInv(r + 1, w, at)'
  PROVE  QueueStep /\ AloneInv(r + 1, w, at)'
<1>1. /\ pc[c1] = "exchange" /\ pc'[c1] = "test" /\ took'[c1] = TRUE /\ took[c1] = FALSE
      /\ \A q \in Producers : pc'[q] = pc[q]
      /\ event' = event /\ pushed' = pushed
      /\ entropy_buffer' = entropy_buffer
      /\ val' = val /\ delivered' = delivered
  <2>1. read_head = read_pos[c1]
    BY FirstRoundTakes DEF PollExchange, Polling
  <2> QED
    BY <2>1, Contexts DEF PollExchange, Goto, RingInv, TypeInv, pushVars
<1>2. val[c1] = entropy_buffer[Slot(r)] /\ (r + 1) - 1 = r /\ r < w
  BY <1>1 DEF AloneInv, RingInv, PollInv
<1>3. AloneInv(r + 1, w, at)'
  BY <1>1, <1>2, Contexts DEF AloneInv
<1>4. WaitsFrom(r, w) /\ WaitsFrom(r + 1, w)'
  BY WaitsFromHeads, WaitsFromHeadsNext
<1>5. PICK n \in Nat : n = w - (r + 1) /\ n + 1 = w - r
  BY <1>2
<1>6. /\ Waiting \in [1..(n + 1) -> Nat] /\ Waiting' \in [1..n -> Nat]
      /\ \A i \in 1..n : Waiting'[i] = Waiting[i + 1]
      /\ Waiting[1] = val[c1]
  <2>1. \A i \in 1..n : Waiting'[i] = Waiting[i + 1]
    <3> SUFFICES ASSUME NEW i \in 1..n PROVE Waiting'[i] = Waiting[i + 1]
      OBVIOUS
    <3>1. Waiting'[i] = entropy_buffer[Slot((r + 1) + (i - 1))]
      BY <1>1, <1>4, <1>5 DEF WaitsFrom
    <3>2. i + 1 \in 1..(w - r) /\ (r + 1) + (i - 1) = r + ((i + 1) - 1)
      BY <1>5
    <3>3. Waiting[i + 1] = entropy_buffer[Slot(r + ((i + 1) - 1))]
      BY <1>4, <3>2 DEF WaitsFrom
    <3> QED
      BY <3>1, <3>2, <3>3
  <2>2. Waiting[1] = val[c1]
    <3>1. 1 \in 1..(w - r) /\ r + (1 - 1) = r
      BY <1>5
    <3> QED
      BY <1>2, <1>4, <3>1 DEF WaitsFrom
  <2> QED
    BY <1>4, <1>5, <2>1, <2>2 DEF WaitsFrom
<1>7. Waiting' = Tail(Waiting) /\ Head(Waiting) = val[c1] /\ Waiting # <<>>
  BY <1>6, TailIs
<1>8. Q!Take
  BY <1>1, <1>7, Contexts DEF Q!Take, Q!NoEvent, NoEvent
<1> QED
  BY <1>3, <1>8 DEF QueueStep, Q!Next

LEMMA DeliverStep ==
  ASSUME NEW r \in Nat, NEW w \in Nat, NEW at \in [Producers -> Nat],
         RingInv(r, w, at), AloneInv(r, w, at), alone = TRUE, alone' = TRUE,
         PollExchange(c1), took[c1]
  PROVE  QueueStep /\ AloneInv(r, w, at)'
<1>1. /\ pc[c1] = "exchange" /\ pc'[c1] = "idle" /\ took'[c1] = FALSE /\ took[c1] = TRUE
      /\ \A q \in Producers : pc'[q] = pc[q]
      /\ delivered' = Append(delivered, val[c1])
      /\ event' = event /\ pushed' = pushed
      /\ entropy_buffer' = entropy_buffer /\ write_head' = write_head /\ read_head' = read_head
      /\ val' = val
  <2>1. read_head # read_pos[c1]
    BY FirstRoundTakes DEF PollExchange, Polling
  <2>2. took[c1] \in BOOLEAN
    BY Contexts DEF RingInv, TypeInv
  <2> QED
    BY <2>1, <2>2, Contexts DEF PollExchange, Goto, RingInv, TypeInv, pushVars
<1>2. Waiting' = Waiting
  BY <1>1 DEF Waiting
<1>3. AloneInv(r, w, at)'
  BY <1>1, Contexts DEF AloneInv
<1>4. val[c1] # 0
  BY <1>1 DEF RingInv, LiveInv, Live, NoEvent
<1>5. Q!Deliver
  BY <1>1, <1>2, <1>4, Contexts DEF Q!Deliver, Q!NoEvent, NoEvent
<1> QED
  BY <1>3, <1>5 DEF QueueStep, Q!Next

(* While there are two producers the queue of the mapping stays empty.     *)
LEMMA NotAloneStep ==
  ASSUME alone = FALSE, alone' = FALSE
  PROVE  QueueStep
<1>1. UNCHANGED Q!queueVars
  BY DEF Q!queueVars
<1> QED
  BY <1>1 DEF QueueStep

LEMMA QueueInvStep == QueueInv /\ [MCNext]_<<vars, alone>> => QueueInv' /\ QueueStep
<1> SUFFICES ASSUME QueueInv, [MCNext]_<<vars, alone>> PROVE QueueInv' /\ QueueStep
  OBVIOUS
<1>1. PICK r \in Nat, w \in Nat, at \in [Producers -> Nat] :
        RingInv(r, w, at) /\ (alone => AloneInv(r, w, at))
  BY DEF QueueInv
<1>2. alone \in BOOLEAN /\ alone' = alone /\ [Next]_vars
  BY DEF QueueInv, MCNext
<1>3. TypeInv'
  BY <1>1, <1>2, TypeStep DEF RingInv
<1>4. ASSUME NEW r2 \in Nat, NEW w2 \in Nat, NEW at2 \in [Producers -> Nat],
             RingInv(r2, w2, at2)', alone = TRUE => QueueStep /\ AloneInv(r2, w2, at2)'
      PROVE  QueueInv' /\ QueueStep
  <2>1. CASE alone = TRUE
    BY <1>2, <1>4, <2>1 DEF QueueInv
  <2>2. CASE alone = FALSE
    BY <1>2, <1>4, <2>2, NotAloneStep DEF QueueInv
  <2> QED
    BY <1>2, <2>1, <2>2
<1>5. ASSUME alone = TRUE, NEW p \in Producers, pc[p] # "idle" PROVE p = p1
  BY <1>1, <1>5 DEF AloneInv
<1>6. ASSUME MCNext, NEW p \in Producers, PushBegin(p) PROVE QueueInv' /\ QueueStep
  <2> DEFINE at2 == [at EXCEPT ![p] = w]
  <2>1. at2 \in [Producers -> Nat] /\ RingInv(r, w, at2)'
    BY <1>1, <1>3, <1>6, PushBeginStep
  <2>2. alone = TRUE => p = p1
    BY <1>1, <1>6 DEF MCNext, PushBegin, Goto, RingInv, TypeInv
  <2>3. alone = TRUE => QueueStep /\ AloneInv(r, w, at2)'
    BY <1>1, <1>2, <1>6, <2>1, <2>2, OfferStep
  <2> QED
    BY <1>4, <2>1, <2>3
<1>7. ASSUME NEW p \in Producers, PushTest(p) PROVE QueueInv' /\ QueueStep
  <2>1. RingInv(r, w, at)'
    BY <1>1, <1>3, <1>7, PushTestStep
  <2>2. alone = TRUE => p = p1
    BY <1>5, <1>7 DEF PushTest
  <2>3. alone = TRUE => QueueStep /\ AloneInv(r, w, at)'
    BY <1>1, <1>2, <1>7, <2>2, RefuseStep
  <2> QED
    BY <1>4, <2>1, <2>3
<1>8. ASSUME NEW p \in Producers, PushStore(p) PROVE QueueInv' /\ QueueStep
  <2>1. RingInv(r, w, at)'
    BY <1>1, <1>3, <1>8, PushStoreStep
  <2>2. alone = TRUE => p = p1
    BY <1>5, <1>8 DEF PushStore
  <2>3. alone = TRUE => QueueStep /\ AloneInv(r, w, at)'
    BY <1>1, <1>2, <1>8, <2>1, <2>2, StoreStep
  <2> QED
    BY <1>4, <2>1, <2>3
<1>9. ASSUME NEW p \in Producers, PushPublish(p) PROVE QueueInv' /\ QueueStep
  <2>1. PICK w2 \in Nat : w2 = (IF at[p] = w THEN w + 1 ELSE w)
    OBVIOUS
  <2>2. RingInv(r, w2, at)'
    BY <1>1, <1>3, <1>9, <2>1, PushPublishStep
  <2>3. alone = TRUE => p = p1 /\ w2 = w + 1
    BY <1>1, <1>5, <1>9, <2>1 DEF PushPublish, AloneInv
  <2>4. alone = TRUE => QueueStep /\ AloneInv(r, w2, at)'
    BY <1>1, <1>2, <1>9, <2>2, <2>3, AcceptStep
  <2> QED
    BY <1>4, <2>2, <2>4
<1>10. ASSUME PollBegin(c1) PROVE QueueInv' /\ QueueStep
  BY <1>1, <1>2, <1>3, <1>4, <1>10, PollBeginStep, PollStartStep
<1>11. ASSUME PollTest(c1) PROVE QueueInv' /\ QueueStep
  BY <1>1, <1>2, <1>3, <1>4, <1>11, PollTestStep, LoseStep
<1>12. ASSUME PollLoad(c1) PROVE QueueInv' /\ QueueStep
  BY <1>1, <1>2, <1>3, <1>4, <1>12, PollLoadStep, LoadStep
<1>13. ASSUME PollExchange(c1) PROVE QueueInv' /\ QueueStep
  <2>1. CASE took[c1]
    BY <1>1, <1>2, <1>3, <1>4, <1>13, <2>1, PollReturnsStep, DeliverStep
  <2>2. CASE ~took[c1]
    <3>1. PICK r2 \in Nat : r2 = r + 1
      OBVIOUS
    <3>2. RingInv(r2, w, at)'
      BY <1>1, <1>3, <1>13, <2>2, <3>1, PollTakesStep
    <3>3. alone = TRUE => QueueStep /\ AloneInv(r2, w, at)'
      BY <1>1, <1>2, <1>13, <2>2, <3>1, <3>2, TakeStep
    <3> QED
      BY <1>4, <3>2, <3>3
  <2> QED
    BY <2>1, <2>2
<1>14. CASE UNCHANGED <<vars, alone>>
  <2>1. RingInv(r, w, at)'
    BY <1>1, <1>14 DEF vars, ringVars, pushVars, pollVars, RingInv, TypeInv, HeadsInv, BusyInv, InOrder,
         PollInv, NumbersInv, OnceInv, LiveInv, InUse, Fresh, Live, Delivered
  <2>2. alone = TRUE => AloneInv(r, w, at)'
    BY <1>1, <1>14 DEF vars, ringVars, pushVars, pollVars, AloneInv
  <2>3. UNCHANGED Q!queueVars
    BY <1>14 DEF vars, ringVars, pushVars, pollVars, Q!queueVars, Waiting
  <2> QED
    BY <1>4, <2>1, <2>2, <2>3 DEF QueueStep
<1>15. CASE MCNext
  BY <1>6, <1>7, <1>8, <1>9, <1>10, <1>11, <1>12, <1>13, <1>15, Contexts DEF MCNext, Next, Push, Poll
<1> QED
  BY <1>14, <1>15

LEMMA InitRefines == MCInit => QueueInv /\ Q!Init
<1> SUFFICES ASSUME MCInit PROVE QueueInv /\ Q!Init
  OBVIOUS
<1>1. Init /\ alone \in BOOLEAN /\ IInv
  BY InitIInv DEF MCInit
<1>2. PICK r \in Nat, w \in Nat, at \in [Producers -> Nat] : RingInv(r, w, at)
  BY <1>1 DEF IInv
<1>3. AloneInv(r, w, at)
  BY <1>1, Contexts DEF AloneInv, Init
<1>4. Waiting = <<>>
  <2>1. ((0 - 0) % RingSize) = 0
    BY Contexts
  <2> QED
    BY <1>1, <2>1 DEF Init, Waiting
<1>5. pushed = 0 /\ pc[p1] = "idle" /\ took[c1] = FALSE /\ delivered = <<>>
  BY <1>1, Contexts DEF Init
<1>6. Q!Init
  <2>1. CASE alone = TRUE
    BY <1>4, <1>5, <2>1 DEF Q!Init, Q!NoEvent, NoEvent
  <2>2. CASE alone = FALSE
    BY <2>2 DEF Q!Init, Q!NoEvent, NoEvent
  <2> QED
    BY <1>1, <2>1, <2>2
<1> QED
  BY <1>1, <1>2, <1>3, <1>6 DEF QueueInv

(* A ring of any size, with one producer and one poll, is a bounded queue: *)
(* every step of push_event and poll_ebuf offers, accepts, refuses, takes, *)
(* delivers or loses an event as EventQueue allows it, or changes nothing. *)
THEOREM ImplementsQueueTheorem == MCSpec => ImplementsQueue
<1>1. QueueInv /\ [MCNext]_<<vars, alone>> => QueueInv' /\ [Q!Next]_(Q!queueVars)
  BY QueueInvStep DEF QueueStep
<1>2. MCInit => QueueInv /\ Q!Init
  BY InitRefines
<1>3. MCSpec => MCInit /\ [][MCNext]_<<vars, alone>>
  BY PTL DEF MCSpec
<1>4. MCInit /\ [][MCNext]_<<vars, alone>> => Q!Init /\ [][Q!Next]_(Q!queueVars)
  BY <1>1, <1>2, PTL
<1> QED
  BY <1>3, <1>4, PTL DEF ImplementsQueue, Q!Spec
=============================================================================
