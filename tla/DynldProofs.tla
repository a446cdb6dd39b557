---------------------------- MODULE DynldProofs ----------------------------
(***************************************************************************)
(* Safety of dynld_link for every set of threads and of libraries, however *)
(* many relocations of whatever types these have: no relocation is applied *)
(* twice, all are before a library is entered in the table, resolvers come *)
(* last, and the table has one writer.                                     *)
(***************************************************************************)
EXTENDS Dynld, FiniteSetTheorems, TLAPS

Ended == {"lock", "enter", "unlock", "linked"}

(* What the type of a relocation says of it in the tables of a library.    *)
Items(l, tbl) == IF tbl = "rel" THEN l.rel ELSE l.jmprel

Item(l, tbl, i) ==
  [table |-> tbl, index |-> i, resolver |-> IsResolver(Items(l, tbl)[i])]

Tables(l) == IF l.bind_now THEN {"rel", "jmprel"} ELSE {"rel"}

Again(tbl) == IF tbl = "rel" THEN "rel again" ELSE "jmprel again"

Later(pass) ==
  CASE pass = "rel" -> {"jmprel", "rel again", "jmprel again"} \union Ended
    [] pass = "jmprel" -> {"rel again", "jmprel again"} \union Ended
    [] pass = "rel again" -> {"jmprel again"} \union Ended
    [] OTHER -> Ended

(* Whether, in pass p at relocation n, a pass has come by relocation i.    *)
(* That a pass was left out, as it had nothing to do, makes no difference. *)
Visited(pass, i, p, n) == (p = pass /\ i < n) \/ p \in Later(pass)

(* Relocation i of a table is applied in one pass of the two.              *)
Reached(l, tbl, i, p, n) ==
  Visited(IF IsResolver(Items(l, tbl)[i]) THEN Again(tbl) ELSE tbl, i, p, n)

(* Some relocation of a table has to wait.                                 *)
Waits(l, tbl, n) == \E i \in 1..n : IsResolver(Items(l, tbl)[i])

AppliedIsReached(l, p, n, done) ==
  /\ \A x \in done : \E tbl \in Tables(l), i \in 1..Len(l.rel) : x = Item(l, tbl, i)
  /\ \A tbl \in Tables(l), i \in 1..Len(l.rel) :
       Item(l, tbl, i) \in done <=> Reached(l, tbl, i, p, n)

(* If relocations of a table wait, the thread knows.                       *)
WaitingIsKnown(l, p, n, hd, rd, jd) ==
  /\ p = "rel" /\ Waits(l, "rel", n - 1) => hd
  /\ p = "jmprel" /\ Waits(l, "jmprel", n - 1) => hd
  /\ p = "jmprel" /\ Waits(l, "rel", Len(l.rel)) => rd
  /\ p = "rel again" /\ l.bind_now /\ Waits(l, "jmprel", Len(l.rel)) => jd

Done(seq) == {seq[i] : i \in DOMAIN seq}

Entry == [table : {"rel", "jmprel"}, index : Nat, resolver : BOOLEAN]

ResolversLast(seq) ==
  \A i, j \in DOMAIN seq : seq[i].resolver /\ i < j => seq[j].resolver

(* The invariant of a thread that links l and is at relocation n of p.     *)
Progress(l, p, n, hd, rd, jd, seq) ==
  /\ l \in Libraries
  /\ p \in {"start", "failed"} \union Passes \union Ended
  /\ n \in Nat \ {0}
  /\ p \in Passes => n <= Len(l.rel) + 1
  /\ p = "start" => n = 1 /\ hd = FALSE
  /\ p \in Passes \union Ended => ~Refused(l)
  /\ hd \in BOOLEAN /\ rd \in BOOLEAN /\ jd \in BOOLEAN
  /\ p \in Passes => Table(p) \in Tables(l)
  /\ p # "failed" => AppliedIsReached(l, p, n, Done(seq)) /\ WaitingIsKnown(l, p, n, hd, rd, jd)
  /\ seq \in Seq(Entry)
  /\ IsFiniteSet(Done(seq)) /\ Cardinality(Done(seq)) = Len(seq)
  /\ ResolversLast(seq)

ProgressInv ==
  \A t \in Threads :
    Progress(library[t], pc[t], next[t], has_defered[t], rel_defered[t],
             jmprel_defered[t], applied[t])

(* A thread that writes to the table has set the lock, which says nothing  *)
(* of who did: a thread that finds the table full leaves it set.           *)
LockInv ==
  /\ lock \in BOOLEAN
  /\ \A t \in Threads : pc[t] \in {"enter", "unlock"} => lock
  /\ TableExclusive

TypeInv ==
  /\ library \in [Threads -> Libraries]
  /\ pc \in [Threads -> {"start", "failed"} \union Passes \union Ended]
  /\ next \in [Threads -> Nat]
  /\ has_defered \in [Threads -> BOOLEAN]
  /\ rel_defered \in [Threads -> BOOLEAN]
  /\ jmprel_defered \in [Threads -> BOOLEAN]
  /\ applied \in [Threads -> Seq(Entry)]

IInv == TypeInv /\ ProgressInv /\ LockInv

-----------------------------------------------------------------------------
LEMMA RelCount == \A l \in Libraries : Len(l.rel) \in Nat
BY DynldAssumption

LEMMA DoneOfAppend ==
  ASSUME NEW seq \in Seq(Entry), NEW x \in Entry
  PROVE  Done(Append(seq, x)) = Done(seq) \union {x}
<1>1. /\ DOMAIN Append(seq, x) = 1..(Len(seq) + 1)
      /\ DOMAIN seq = 1..Len(seq) /\ Len(seq) \in Nat
      /\ \A i \in 1..Len(seq) : Append(seq, x)[i] = seq[i]
      /\ Append(seq, x)[Len(seq) + 1] = x
  OBVIOUS
<1>2. \A i \in 1..(Len(seq) + 1) : i \in 1..Len(seq) \/ i = Len(seq) + 1
  BY <1>1
<1>3. Len(seq) + 1 \in 1..(Len(seq) + 1) /\ \A i \in 1..Len(seq) : i \in 1..(Len(seq) + 1)
  BY <1>1
<1> QED
  BY <1>1, <1>2, <1>3, Zenon DEF Done

(* What is known of a relocation that a pass comes to.                     *)
LEMMA ItemType ==
  ASSUME NEW l \in Libraries, NEW tbl \in Tables(l), NEW i \in 1..Len(l.rel)
  PROVE  Item(l, tbl, i) \in Entry /\ Items(l, tbl)[i] \in Relocation
<1>1. Items(l, tbl)[i] \in Relocation
  BY DynldAssumption DEF Items, Tables
<1>2. IsResolver(Items(l, tbl)[i]) \in BOOLEAN
  BY DEF IsResolver
<1>3. i \in Nat
  BY DynldAssumption
<1> QED
  BY <1>1, <1>2, <1>3 DEF Item, Entry, Tables

(* Items differ in their table or their index.                             *)
LEMMA ItemsDiffer ==
  ASSUME NEW l, NEW tbl, NEW i, NEW other, NEW j, Item(l, tbl, i) = Item(l, other, j)
  PROVE  tbl = other /\ i = j
BY DEF Item

-----------------------------------------------------------------------------
LEMMA LaterPasses ==
  ASSUME NEW p \in Passes
  PROVE  /\ p \in Later("rel") <=> p # "rel"
         /\ p \in Later("jmprel") <=> p \in {"rel again", "jmprel again"}
         /\ p \in Later("rel again") <=> p = "jmprel again"
         /\ p \notin Later("jmprel again")
BY DEF Passes, Later, Ended

(* A pass that comes to a relocation it applies has not applied it before, *)
(* and none that is not a resolver comes after one that is.                *)
LEMMA AppliesNew ==
  ASSUME NEW l \in Libraries, NEW p \in Passes, NEW n \in 1..Len(l.rel), NEW done,
         Table(p) \in Tables(l), AppliedIsReached(l, p, n, done),
         Applies(Items(l, Table(p))[n], p)
  PROVE  /\ Item(l, Table(p), n) \notin done
         /\ \A x \in done : x.resolver => Item(l, Table(p), n).resolver
<1> DEFINE tbl == Table(p)
           resolver == IsResolver(Items(l, tbl)[n])
<1>1. resolver <=> Defered(p)
  BY DEF Applies
<1>2. ~Reached(l, tbl, n, p, n)
  <2> HIDE DEF resolver
  <2>1. /\ Reached(l, tbl, n, p, n) <=> Visited(IF resolver THEN Again(tbl) ELSE tbl, n, p, n)
        /\ ~(n < n)
    BY DynldAssumption DEF Reached, resolver
  <2>2. CASE p = "rel"
    BY <1>1, <2>1, <2>2, LaterPasses DEF Visited, Again, Table, Defered
  <2>3. CASE p = "jmprel"
    BY <1>1, <2>1, <2>3, LaterPasses DEF Visited, Again, Table, Defered
  <2>4. CASE p \in {"rel again", "jmprel again"}
    BY <1>1, <2>1, <2>4, LaterPasses DEF Visited, Again, Table, Defered
  <2> QED
    BY <2>2, <2>3, <2>4 DEF Passes
<1>3. Item(l, tbl, n) \notin done
  BY <1>2 DEF AppliedIsReached
<1>4. ASSUME NEW x \in done, x.resolver, ~resolver
      PROVE  FALSE
  <2>1. PICK other \in Tables(l), i \in 1..Len(l.rel) : x = Item(l, other, i)
    BY DEF AppliedIsReached
  <2>2. IsResolver(Items(l, other)[i])
    BY <1>4, <2>1 DEF Item
  <2>3. Reached(l, other, i, p, n)
    BY <2>1 DEF AppliedIsReached
  <2>4. p \in {"rel", "jmprel"}
    BY <1>1, <1>4 DEF Defered, Passes
  <2> QED
    BY <2>2, <2>3, <2>4 DEF Reached, Visited, Later, Again, Ended
<1> QED
  BY <1>3, <1>4 DEF Item

(* What a pass has reached when it goes on to the next relocation.         *)
LEMMA ReachedNext ==
  ASSUME NEW l \in Libraries, NEW p \in Passes, NEW n \in 1..Len(l.rel),
         Table(p) \in Tables(l), NEW tbl \in Tables(l), NEW i \in 1..Len(l.rel)
  PROVE  Reached(l, tbl, i, p, n + 1) <=>
           \/ Reached(l, tbl, i, p, n)
           \/ tbl = Table(p) /\ i = n /\ Applies(Items(l, tbl)[i], p)
<1>1. n \in Nat /\ i \in Nat /\ tbl \in {"rel", "jmprel"}
  BY DynldAssumption DEF Tables
<1>2. i < n + 1 <=> i < n \/ i = n
  BY <1>1
<1> DEFINE resolver == IsResolver(Items(l, tbl)[i])
<1>3. Applies(Items(l, tbl)[i], p) <=> (resolver <=> Defered(p))
  BY DEF Applies
<1> HIDE DEF resolver
<1>4. \A m : Reached(l, tbl, i, p, m) <=> Visited(IF resolver THEN Again(tbl) ELSE tbl, i, p, m)
  BY DEF Reached, resolver
<1>5. CASE p = "rel"
  <2>1. CASE tbl = "rel"
    BY <1>1, <1>2, <1>3, <1>4, <1>5, <2>1, LaterPasses DEF Visited, Again, Table, Defered
  <2>2. CASE tbl = "jmprel"
    BY <1>1, <1>2, <1>3, <1>4, <1>5, <2>2, LaterPasses DEF Visited, Again, Table, Defered
  <2> QED
    BY <1>1, <2>1, <2>2
<1>6. CASE p = "jmprel"
  BY <1>1, <1>2, <1>3, <1>4, <1>6, LaterPasses DEF Visited, Again, Table, Defered
<1>7. CASE p \in {"rel again", "jmprel again"}
  BY <1>1, <1>2, <1>3, <1>4, <1>7, LaterPasses DEF Visited, Again, Table, Defered
<1> QED
  BY <1>5, <1>6, <1>7 DEF Passes
-----------------------------------------------------------------------------
(* A turn of the loop of DO_REL keeps the invariant of the thread.         *)
LEMMA RelocateProgress ==
  ASSUME NEW l, NEW p \in Passes, NEW n, NEW hd, NEW rd, NEW jd, NEW seq,
         Progress(l, p, n, hd, rd, jd, seq), n <= Len(l.rel)
  PROVE  LET r == Items(l, Table(p))[n]
         IN  Progress(l, p, n + 1, hd \/ ReturnsNull(r, p), rd, jd,
                      IF Applies(r, p) THEN Append(seq, Item(l, Table(p), n)) ELSE seq)
<1> DEFINE x == Item(l, Table(p), n)
           r == Items(l, Table(p))[n]
           grown == IF Applies(r, p) THEN Append(seq, x) ELSE seq
           deferred == hd \/ ReturnsNull(r, p)
<1>1. /\ l \in Libraries /\ n \in 1..Len(l.rel) /\ Len(l.rel) \in Nat
      /\ Table(p) \in Tables(l)
      /\ seq \in Seq(Entry) /\ IsFiniteSet(Done(seq)) /\ Cardinality(Done(seq)) = Len(seq)
      /\ ResolversLast(seq)
      /\ AppliedIsReached(l, p, n, Done(seq)) /\ WaitingIsKnown(l, p, n, hd, rd, jd)
  <2>1. p # "failed"
    BY DEF Passes
  <2>2. /\ l \in Libraries /\ n \in Nat \ {0} /\ Table(p) \in Tables(l)
        /\ seq \in Seq(Entry) /\ IsFiniteSet(Done(seq)) /\ Cardinality(Done(seq)) = Len(seq)
        /\ ResolversLast(seq)
        /\ AppliedIsReached(l, p, n, Done(seq)) /\ WaitingIsKnown(l, p, n, hd, rd, jd)
    BY <2>1 DEF Progress
  <2>3. Len(l.rel) \in Nat
    BY <2>2, RelCount
  <2>4. n \in 1..Len(l.rel)
    BY <2>2, <2>3
  <2> QED
    BY <2>2, <2>3, <2>4
<1>2. x \in Entry
  BY <1>1, ItemType
<1>3. grown \in Seq(Entry)
  BY <1>1, <1>2
<1>4. Done(grown) = IF Applies(r, p) THEN Done(seq) \union {x} ELSE Done(seq)
  BY <1>1, <1>2, DoneOfAppend
<1>5. Applies(r, p) => x \notin Done(seq) /\ \A y \in Done(seq) : y.resolver => x.resolver
  BY <1>1, AppliesNew
<1>6. IsFiniteSet(Done(grown)) /\ Cardinality(Done(grown)) = Len(grown)
  <2>1. CASE Applies(r, p)
    <3>1. Len(grown) = Len(seq) + 1
      BY <1>1, <2>1
    <3>2. Done(grown) = Done(seq) \union {x} /\ x \notin Done(seq)
      BY <1>4, <1>5, <2>1
    <3> HIDE DEF grown, x
    <3> QED
      BY <1>1, <3>1, <3>2, FS_AddElement
  <2>2. CASE ~Applies(r, p)
    BY <1>1, <2>2
  <2> QED
    BY <2>1, <2>2
<1>7. ResolversLast(grown)
  <2>1. CASE Applies(r, p)
    <3>1. /\ DOMAIN grown = 1..(Len(seq) + 1) /\ DOMAIN seq = 1..Len(seq)
          /\ Len(seq) \in Nat
          /\ \A i \in 1..Len(seq) : grown[i] = seq[i]
          /\ grown[Len(seq) + 1] = x
      BY <1>1, <1>2, <2>1
    <3>2. \A i \in 1..Len(seq) : seq[i].resolver => x.resolver
      BY <1>5, <2>1, <3>1 DEF Done
    <3> HIDE DEF grown
    <3> SUFFICES ASSUME NEW i \in 1..(Len(seq) + 1), NEW j \in 1..(Len(seq) + 1),
                        grown[i].resolver, i < j
                 PROVE  grown[j].resolver
      BY <3>1 DEF ResolversLast
    <3>3. i \in 1..Len(seq)
      BY <3>1
    <3>4. CASE j \in 1..Len(seq)
      BY <1>1, <3>1, <3>3, <3>4 DEF ResolversLast
    <3>5. CASE j = Len(seq) + 1
      BY <3>1, <3>2, <3>3, <3>5
    <3> QED
      BY <3>1, <3>4, <3>5
  <2>2. CASE ~Applies(r, p)
    BY <1>1, <2>2
  <2> QED
    BY <2>1, <2>2
<1>8. AppliedIsReached(l, p, n + 1, Done(grown))
  <2> HIDE DEF grown
  <2>1. \A y \in Done(grown) : \E tbl \in Tables(l), i \in 1..Len(l.rel) : y = Item(l, tbl, i)
    BY <1>1, <1>4 DEF AppliedIsReached
  <2>2. ASSUME NEW tbl \in Tables(l), NEW i \in 1..Len(l.rel)
        PROVE  Item(l, tbl, i) \in Done(grown) <=> Reached(l, tbl, i, p, n + 1)
    <3>1. Reached(l, tbl, i, p, n + 1) <=>
            \/ Reached(l, tbl, i, p, n)
            \/ tbl = Table(p) /\ i = n /\ Applies(Items(l, tbl)[i], p)
      BY <1>1, ReachedNext
    <3>2. Item(l, tbl, i) = x <=> tbl = Table(p) /\ i = n
      BY ItemsDiffer
    <3>3. Item(l, tbl, i) \in Done(seq) <=> Reached(l, tbl, i, p, n)
      BY <1>1 DEF AppliedIsReached
    <3> HIDE DEF x
    <3> QED
      BY <1>4, <3>1, <3>2, <3>3
  <2> QED
    BY <2>1, <2>2 DEF AppliedIsReached
<1>9. WaitingIsKnown(l, p, n + 1, deferred, rd, jd)
  <2>1. ASSUME p \in {"rel", "jmprel"}, Waits(l, p, (n + 1) - 1)
        PROVE  deferred
    <3>1. PICK i \in 1..n : IsResolver(Items(l, p)[i])
      BY <1>1, <2>1 DEF Waits
    <3>2. CASE i = n
      <4>1. Table(p) = p /\ ~Defered(p)
        BY <2>1 DEF Table, Defered
      <4>2. ~Applies(r, p)
        BY <3>1, <3>2, <4>1 DEF Applies
      <4> QED
        BY <4>2 DEF ReturnsNull
    <3>3. CASE i # n
      <4>1. i \in 1..(n - 1)
        BY <1>1, <3>3
      <4> QED
        BY <1>1, <2>1, <3>1, <4>1 DEF Waits, WaitingIsKnown
    <3> QED
      BY <3>2, <3>3
  <2> QED
    BY <1>1, <2>1 DEF WaitingIsKnown
<1>10. deferred \in BOOLEAN
  BY DEF Progress
<1>11. n + 1 \in Nat \ {0} /\ n + 1 <= Len(l.rel) + 1
  BY <1>1
<1> HIDE DEF grown, deferred
<1>12. Progress(l, p, n + 1, deferred, rd, jd, grown)
  BY <1>3, <1>6, <1>7, <1>8, <1>9, <1>10, <1>11 DEF Progress, Passes
<1> QED
  BY <1>12 DEF grown, deferred
(* The pass that follows p has reached what p had at its end: a pass that  *)
(* is left out would have applied nothing.                                 *)
PassAfter(l, p, hd, rd, jd) ==
  LET relAgain == IF p = "rel" THEN hd ELSE rd
      jmprelAgain == l.bind_now /\ (IF p = "jmprel" THEN hd ELSE jd)
  IN  IF p = "rel" /\ l.bind_now THEN "jmprel"
      ELSE IF p \in {"rel", "jmprel"} /\ relAgain THEN "rel again"
      ELSE IF p # "jmprel again" /\ jmprelAgain THEN "jmprel again"
      ELSE "lock"

LEMMA ReachedAtEnd ==
  ASSUME NEW l \in Libraries, NEW p \in Passes, NEW hd \in BOOLEAN, NEW rd \in BOOLEAN,
         NEW jd \in BOOLEAN, NEW n, n = Len(l.rel) + 1,
         WaitingIsKnown(l, p, n, hd, rd, jd),
         Table(p) \in Tables(l), NEW tbl \in Tables(l), NEW i \in 1..Len(l.rel)
  PROVE  Reached(l, tbl, i, p, n) <=> Reached(l, tbl, i, PassAfter(l, p, hd, rd, jd), 1)
<1> DEFINE q == PassAfter(l, p, hd, rd, jd)
           resolver == IsResolver(Items(l, tbl)[i])
           pass == IF resolver THEN Again(tbl) ELSE tbl
<1>1. /\ i < n /\ ~(i < 1) /\ Len(l.rel) \in Nat /\ n - 1 = Len(l.rel)
  <2>1. Len(l.rel) \in Nat
    BY RelCount
  <2> QED
    BY <2>1
<1>2. Reached(l, tbl, i, p, n) <=> p = pass \/ p \in Later(pass)
  BY <1>1 DEF Reached, Visited
<1>3. Reached(l, tbl, i, q, 1) <=> q \in Later(pass)
  BY <1>1 DEF Reached, Visited
<1>4. tbl = "rel" \/ (tbl = "jmprel" /\ l.bind_now)
  BY DEF Tables
<1>5. resolver => Waits(l, tbl, Len(l.rel))
  BY DEF Waits
<1> HIDE DEF resolver
<1>6. CASE p = "rel"
  <2>1. CASE l.bind_now
    <3>1. q = "jmprel"
      BY <1>6, <2>1 DEF PassAfter
    <3> QED
      BY <1>2, <1>3, <1>4, <1>6, <3>1, LaterPasses DEF Again, Passes
  <2>2. CASE ~l.bind_now
    <3>1. q = IF hd THEN "rel again" ELSE "lock"
      BY <1>6, <2>2 DEF PassAfter
    <3>2. tbl = "rel"
      BY <1>4, <2>2
    <3>3. resolver => hd
      BY <1>1, <1>5, <1>6, <3>2 DEF WaitingIsKnown
    <3> QED
      BY <1>2, <1>3, <1>6, <3>1, <3>2, <3>3, LaterPasses DEF Again, Passes, Later, Ended
  <2> QED
    BY <2>1, <2>2
<1>7. CASE p = "jmprel"
  <2>1. q = IF rd THEN "rel again" ELSE IF hd THEN "jmprel again" ELSE "lock"
    BY <1>7 DEF PassAfter, Table, Tables
  <2>2. (resolver /\ tbl = "rel" => rd) /\ (resolver /\ tbl = "jmprel" => hd)
    BY <1>1, <1>5, <1>7 DEF WaitingIsKnown
  <2> QED
    BY <1>2, <1>3, <1>4, <1>7, <2>1, <2>2, LaterPasses DEF Again, Passes, Later, Ended
<1>8. CASE p = "rel again"
  <2>1. q = IF l.bind_now /\ jd THEN "jmprel again" ELSE "lock"
    BY <1>8 DEF PassAfter
  <2>2. resolver /\ tbl = "jmprel" => l.bind_now /\ jd
    BY <1>4, <1>5, <1>8 DEF WaitingIsKnown
  <2> QED
    BY <1>2, <1>3, <1>4, <1>8, <2>1, <2>2, LaterPasses DEF Again, Passes, Later, Ended
<1>9. CASE p = "jmprel again"
  <2>1. q = "lock"
    BY <1>9 DEF PassAfter
  <2> QED
    BY <1>2, <1>3, <1>4, <1>9, <2>1, LaterPasses DEF Again, Passes, Later, Ended
<1> QED
  BY <1>6, <1>7, <1>8, <1>9 DEF Passes

(* The end of a pass keeps the invariant of the thread.                    *)
LEMMA PassEndsProgress ==
  ASSUME NEW l, NEW p \in Passes, NEW n, NEW hd, NEW rd, NEW jd, NEW seq,
         Progress(l, p, n, hd, rd, jd, seq), n > Len(l.rel)
  PROVE  Progress(l, PassAfter(l, p, hd, rd, jd), 1, FALSE,
                  IF Table(p) = "rel" THEN hd ELSE rd,
                  IF Table(p) = "rel" THEN jd ELSE hd, seq)
<1> DEFINE q == PassAfter(l, p, hd, rd, jd)
           rel == IF Table(p) = "rel" THEN hd ELSE rd
           jmprel == IF Table(p) = "rel" THEN jd ELSE hd
<1>1. /\ l \in Libraries /\ n \in Nat \ {0} /\ n <= Len(l.rel) + 1
      /\ hd \in BOOLEAN /\ rd \in BOOLEAN /\ jd \in BOOLEAN
      /\ Table(p) \in Tables(l) /\ ~Refused(l)
      /\ AppliedIsReached(l, p, n, Done(seq)) /\ WaitingIsKnown(l, p, n, hd, rd, jd)
  <2>1. p # "failed"
    BY DEF Passes
  <2> QED
    BY <2>1 DEF Progress
<1>2. Len(l.rel) \in Nat
  BY <1>1, RelCount
<1>3. n = Len(l.rel) + 1
  BY <1>1, <1>2
<1>4. q \in {"jmprel", "rel again", "jmprel again", "lock"}
  BY DEF PassAfter
<1>5. AppliedIsReached(l, q, 1, Done(seq))
  <2>1. ASSUME NEW tbl \in Tables(l), NEW i \in 1..Len(l.rel)
        PROVE  Reached(l, tbl, i, p, n) <=> Reached(l, tbl, i, q, 1)
    BY <1>1, <1>3, ReachedAtEnd
  <2> HIDE DEF q
  <2> QED
    BY <1>1, <2>1 DEF AppliedIsReached
<1>6. WaitingIsKnown(l, q, 1, FALSE, rel, jmprel)
  <2>1. \A tbl : ~Waits(l, tbl, 1 - 1)
    BY DEF Waits
  <2>2. n - 1 = Len(l.rel)
    BY <1>2, <1>3
  <2>3. q = "jmprel" /\ Waits(l, "rel", Len(l.rel)) => rel
    <3>1. q = "jmprel" => p = "rel" /\ Table(p) = "rel"
      BY DEF PassAfter, Table
    <3> QED
      BY <1>1, <2>2, <3>1 DEF WaitingIsKnown
  <2>4. q = "rel again" /\ l.bind_now /\ Waits(l, "jmprel", Len(l.rel)) => jmprel
    <3>1. q = "rel again" /\ l.bind_now => p = "jmprel" /\ Table(p) = "jmprel"
      BY DEF PassAfter, Table
    <3> QED
      BY <1>1, <2>2, <3>1 DEF WaitingIsKnown
  <2> HIDE DEF q, rel, jmprel
  <2> QED
    BY <2>1, <2>3, <2>4 DEF WaitingIsKnown
<1>7. q \in Passes => Table(q) \in Tables(l)
  BY <1>1 DEF PassAfter, Table, Tables, Passes
<1>8. rel \in BOOLEAN /\ jmprel \in BOOLEAN
  BY <1>1
<1> HIDE DEF q, rel, jmprel
<1>9. q \in Passes \union Ended /\ q # "start"
  BY <1>4 DEF Passes, Ended
<1>10. 1 <= Len(l.rel) + 1 /\ 1 \in Nat \ {0}
  BY <1>2
<1>11. /\ seq \in Seq(Entry)
       /\ IsFiniteSet(Done(seq)) /\ Cardinality(Done(seq)) = Len(seq)
       /\ ResolversLast(seq)
  BY DEF Progress
<1>12. Progress(l, q, 1, FALSE, rel, jmprel, seq)
  BY <1>1, <1>5, <1>6, <1>7, <1>8, <1>9, <1>10, <1>11 DEF Progress
<1> QED
  BY <1>12 DEF q, rel, jmprel

(* Before the first pass nothing has been applied, and without relocations *)
(* nothing has to be.                                                      *)
LEMMA StartProgress ==
  ASSUME NEW l, NEW n, NEW hd, NEW rd, NEW jd, NEW seq, NEW q,
         Progress(l, "start", n, hd, rd, jd, seq), ~Refused(l),
         q = "rel" \/ (q = "lock" /\ l.rel = <<>>)
  PROVE  Progress(l, q, n, hd, rd, jd, seq)
<1>1. l \in Libraries /\ n = 1 /\ hd = FALSE /\ AppliedIsReached(l, "start", 1, Done(seq))
  BY DEF Progress
<1>2. Len(l.rel) \in Nat
  BY <1>1, RelCount
<1>3. AppliedIsReached(l, q, 1, Done(seq))
  <2>1. CASE q = "rel"
    <3>1. ASSUME NEW tbl \in Tables(l), NEW i \in 1..Len(l.rel)
          PROVE  ~Reached(l, tbl, i, "start", 1) /\ ~Reached(l, tbl, i, "rel", 1)
      <4>1. "start" # tbl /\ "start" # Again(tbl) /\ ~(i < 1)
        BY <1>2 DEF Tables, Again
      <4>2. \A pass : "start" \notin Later(pass) /\ "rel" \notin Later(pass)
        BY DEF Later, Ended
      <4> QED
        BY <4>1, <4>2 DEF Reached, Visited
    <3> QED
      BY <1>1, <2>1, <3>1 DEF AppliedIsReached
  <2>2. CASE q = "lock" /\ l.rel = <<>>
    <3>1. 1..Len(l.rel) = {}
      BY <2>2
    <3> QED
      BY <1>1, <3>1 DEF AppliedIsReached
  <2> QED
    BY <2>1, <2>2
<1>4. WaitingIsKnown(l, q, 1, hd, rd, jd)
  <2>1. \A tbl : ~Waits(l, tbl, 1 - 1)
    BY DEF Waits
  <2> QED
    BY <2>1 DEF WaitingIsKnown
<1>5. q \in Passes \union Ended /\ q # "start"
  BY DEF Passes, Ended
<1>6. q \in Passes => Table(q) \in Tables(l)
  BY DEF Passes, Table, Tables
<1>7. 1 <= Len(l.rel) + 1
  BY <1>2
<1> QED
  BY <1>1, <1>3, <1>4, <1>5, <1>6, <1>7 DEF Progress

(* What was applied stays so while the library is entered in the table.    *)
LEMMA EndedProgress ==
  ASSUME NEW l, NEW p, NEW n, NEW hd, NEW rd, NEW jd, NEW seq, NEW q,
         Progress(l, p, n, hd, rd, jd, seq),
         q = "failed" \/ (p \in Ended /\ q \in Ended)
  PROVE  Progress(l, q, n, hd, rd, jd, seq)
<1>1. CASE q = "failed"
  BY <1>1 DEF Progress, Passes, Ended
<1>2. CASE p \in Ended /\ q \in Ended
  <2>1. /\ p \notin Passes /\ p # "failed" /\ q \notin Passes /\ q # "failed" /\ q # "start"
    BY <1>2 DEF Passes, Ended
  <2>2. AppliedIsReached(l, q, n, Done(seq))
    <3>1. \A tbl, i : Reached(l, tbl, i, p, n) /\ Reached(l, tbl, i, q, n)
      BY <1>2 DEF Reached, Visited, Later
    <3>2. AppliedIsReached(l, p, n, Done(seq))
      BY <2>1 DEF Progress
    <3> QED
      BY <3>1, <3>2 DEF AppliedIsReached
  <2>3. WaitingIsKnown(l, q, n, hd, rd, jd)
    BY <2>1 DEF WaitingIsKnown, Passes
  <2> QED
    BY <1>2, <2>1, <2>2, <2>3 DEF Progress
<1> QED
  BY <1>1, <1>2

-----------------------------------------------------------------------------
LEMMA InitIInv == Init => IInv
<1> SUFFICES ASSUME Init PROVE IInv
  OBVIOUS
<1>1. /\ Done(<<>>) = {} /\ ResolversLast(<<>>) /\ <<>> \in Seq(Entry) /\ Len(<<>>) = 0
  BY DEF Done, ResolversLast
<1>2. TypeInv
  BY <1>1 DEF Init, TypeInv
<1>3. ProgressInv
  <2>1. ASSUME NEW l \in Libraries
        PROVE  Progress(l, "start", 1, FALSE, FALSE, FALSE, <<>>)
    <3>1. \A tbl \in Tables(l) : \A i \in 1..Len(l.rel) : ~Reached(l, tbl, i, "start", 1)
      BY DEF Reached, Visited, Later, Again, Tables, Ended
    <3>2. AppliedIsReached(l, "start", 1, {}) /\ WaitingIsKnown(l, "start", 1, FALSE, FALSE, FALSE)
      BY <3>1 DEF AppliedIsReached, WaitingIsKnown
    <3>3. IsFiniteSet(Done(<<>>)) /\ Cardinality(Done(<<>>)) = Len(<<>>)
      BY <1>1, FS_EmptySet
    <3>4. AppliedIsReached(l, "start", 1, Done(<<>>))
      BY <1>1, <3>2
    <3>5. "start" \notin Passes \union Ended
      BY DEF Passes, Ended
    <3>6. 1 \in Nat \ {0} /\ FALSE \in BOOLEAN
      OBVIOUS
    <3> QED
      BY <1>1, <3>2, <3>3, <3>4, <3>5, <3>6, Zenon DEF Progress
  <2> QED
    BY <2>1 DEF Init, ProgressInv
<1>4. LockInv
  BY DEF Init, LockInv, TableExclusive
<1> QED
  BY <1>2, <1>3, <1>4 DEF IInv

(* A step of one thread is none of another's.                              *)
LEMMA OthersStay ==
  ASSUME TypeInv, NEW t \in Threads, Step(t), NEW s \in Threads, s # t
  PROVE  /\ library'[s] = library[s] /\ pc'[s] = pc[s] /\ next'[s] = next[s]
         /\ has_defered'[s] = has_defered[s] /\ rel_defered'[s] = rel_defered[s]
         /\ jmprel_defered'[s] = jmprel_defered[s] /\ applied'[s] = applied[s]
BY DEF TypeInv, Step, Set, table,
       Start, Relocate, RelocateFails, PassEnds, Lock, Enter, Unlock

(* A step of a thread keeps its own part of the invariant.                 *)
LEMMA OwnProgress ==
  ASSUME TypeInv, ProgressInv, NEW t \in Threads, Step(t)
  PROVE  Progress(library'[t], pc'[t], next'[t], has_defered'[t], rel_defered'[t],
                  jmprel_defered'[t], applied'[t])
<1> DEFINE l == library[t]
           p == pc[t]
           n == next[t]
           hd == has_defered[t]
           rd == rel_defered[t]
           jd == jmprel_defered[t]
           seq == applied[t]
<1>1. Progress(l, p, n, hd, rd, jd, seq)
  BY DEF ProgressInv
<1>2. CASE Start(t)
  <2> DEFINE q == IF Refused(l) THEN "failed" ELSE IF l.no_relocate THEN "lock" ELSE "rel"
  <2>1. p = "start" /\ pc' = [pc EXCEPT ![t] = q]
        /\ UNCHANGED <<library, next, has_defered, rel_defered, jmprel_defered, applied>>
    BY <1>2 DEF Start, Set
  <2>2. Progress(l, q, n, hd, rd, jd, seq)
    <3>1. CASE Refused(l)
      BY <1>1, <3>1, EndedProgress
    <3>2. CASE ~Refused(l)
      <4>1. q = "rel" \/ (q = "lock" /\ l.rel = <<>>)
        BY <3>2 DEF Refused
      <4> HIDE DEF q, l, p, n, hd, rd, jd, seq
      <4> QED
        BY <1>1, <2>1, <3>2, <4>1, StartProgress
    <3> QED
      BY <3>1, <3>2
  <2> QED
    BY <2>1, <2>2 DEF TypeInv
<1>3. CASE Relocate(t)
  <2> DEFINE r == Items(l, Table(p))[n]
             grown == IF Applies(r, p) THEN Append(seq, Item(l, Table(p), n)) ELSE seq
             deferred == hd \/ ReturnsNull(r, p)
  <2>1. /\ p \in Passes /\ n <= Len(l.rel)
        /\ applied' = [applied EXCEPT ![t] = grown]
        /\ has_defered' = [has_defered EXCEPT ![t] = deferred]
        /\ next' = [next EXCEPT ![t] = n + 1]
        /\ UNCHANGED <<library, pc, rel_defered, jmprel_defered>>
    BY <1>3 DEF Relocate, Relocations, relcount, Set, Items, Item
  <2>2. Progress(l, p, n + 1, deferred, rd, jd, grown)
    BY <1>1, <2>1, RelocateProgress
  <2> QED
    BY <2>1, <2>2 DEF TypeInv
<1>4. CASE RelocateFails(t)
  <2>1. /\ pc' = [pc EXCEPT ![t] = "failed"]
        /\ UNCHANGED <<library, next, has_defered, rel_defered, jmprel_defered, applied>>
    BY <1>4 DEF RelocateFails, Set
  <2>2. Progress(l, "failed", n, hd, rd, jd, seq)
    BY <1>1, EndedProgress
  <2> QED
    BY <2>1, <2>2 DEF TypeInv
<1>5. CASE PassEnds(t)
  <2> DEFINE q == PassAfter(l, p, hd, rd, jd)
             rel == IF Table(p) = "rel" THEN hd ELSE rd
             jmprel == IF Table(p) = "rel" THEN jd ELSE hd
  <2>1. /\ p \in Passes /\ n > Len(l.rel)
        /\ pc' = [pc EXCEPT ![t] = q]
        /\ next' = [next EXCEPT ![t] = 1]
        /\ has_defered' = [has_defered EXCEPT ![t] = FALSE]
        /\ UNCHANGED <<library, applied>>
    BY <1>5 DEF PassEnds, Following, PassAfter, relcount, Set
  <2>2. /\ rel_defered'[t] = rel /\ jmprel_defered'[t] = jmprel
    BY <1>5 DEF PassEnds, Set, TypeInv
  <2>3. Progress(l, q, 1, FALSE, rel, jmprel, seq)
    BY <1>1, <2>1, PassEndsProgress
  <2> HIDE DEF q, rel, jmprel
  <2> QED
    BY <2>1, <2>2, <2>3 DEF TypeInv
<1>6. ASSUME NEW q, p \in Ended, q \in Ended \union {"failed"}, pc' = [pc EXCEPT ![t] = q],
             UNCHANGED <<library, next, has_defered, rel_defered, jmprel_defered, applied>>
      PROVE  Progress(library'[t], pc'[t], next'[t], has_defered'[t], rel_defered'[t],
                      jmprel_defered'[t], applied'[t])
  <2>1. Progress(l, q, n, hd, rd, jd, seq)
    BY <1>1, <1>6, EndedProgress
  <2> QED
    BY <1>6, <2>1 DEF TypeInv
<1>7. CASE Lock(t)
  <2> DEFINE q == IF offset = MaxEntries THEN "failed" ELSE "enter"
  <2>1. /\ p = "lock" /\ pc' = [pc EXCEPT ![t] = q]
        /\ UNCHANGED <<library, next, has_defered, rel_defered, jmprel_defered, applied>>
    BY <1>7 DEF Lock, Set
  <2>2. p \in Ended /\ q \in Ended \union {"failed"}
    BY <2>1 DEF Ended
  <2> HIDE DEF p, q
  <2> QED
    BY <1>6, <2>1, <2>2
<1>8. CASE Enter(t)
  BY <1>6, <1>8 DEF Enter, Set, Ended
<1>9. CASE Unlock(t)
  BY <1>6, <1>9 DEF Unlock, Set, Ended
<1> QED
  BY <1>2, <1>3, <1>4, <1>5, <1>7, <1>8, <1>9 DEF Step

LEMMA NextIInv == IInv /\ [Next]_vars => IInv'
<1> SUFFICES ASSUME IInv, [Next]_vars PROVE IInv'
  OBVIOUS
<1>1. CASE UNCHANGED vars
  BY <1>1 DEF vars, IInv, TypeInv, ProgressInv, LockInv, TableExclusive
<1>2. ASSUME NEW t \in Threads, Step(t)
      PROVE  IInv'
  <2>1. ProgressInv'
    <3>1. ASSUME NEW s \in Threads, s # t
          PROVE  Progress(library'[s], pc'[s], next'[s], has_defered'[s], rel_defered'[s],
                          jmprel_defered'[s], applied'[s])
      <4>1. Progress(library[s], pc[s], next[s], has_defered[s], rel_defered[s],
                     jmprel_defered[s], applied[s])
        BY DEF IInv, ProgressInv
      <4> QED
        BY <1>2, <3>1, <4>1, OthersStay DEF IInv
    <3>2. Progress(library'[t], pc'[t], next'[t], has_defered'[t], rel_defered'[t],
                   jmprel_defered'[t], applied'[t])
      BY <1>2, OwnProgress DEF IInv
    <3> QED
      BY <3>1, <3>2 DEF ProgressInv
  <2>2. TypeInv'
    <3>1. \A s \in Threads :
            /\ library'[s] \in Libraries
            /\ pc'[s] \in {"start", "failed"} \union Passes \union Ended
            /\ next'[s] \in Nat /\ has_defered'[s] \in BOOLEAN
            /\ rel_defered'[s] \in BOOLEAN /\ jmprel_defered'[s] \in BOOLEAN
            /\ applied'[s] \in Seq(Entry)
      BY <2>1 DEF ProgressInv, Progress
    <3>2. /\ library' = [s \in Threads |-> library'[s]]
          /\ pc' = [s \in Threads |-> pc'[s]] /\ next' = [s \in Threads |-> next'[s]]
          /\ has_defered' = [s \in Threads |-> has_defered'[s]]
          /\ rel_defered' = [s \in Threads |-> rel_defered'[s]]
          /\ jmprel_defered' = [s \in Threads |-> jmprel_defered'[s]]
          /\ applied' = [s \in Threads |-> applied'[s]]
      BY <1>2 DEF IInv, TypeInv, Step, Set, table,
                  Start, Relocate, RelocateFails, PassEnds, Lock, Enter, Unlock
    <3> QED
      BY <3>1, <3>2 DEF TypeInv
  <2>3. LockInv'
    <3>1. ASSUME NEW q, Set(pc, t, q), q \notin {"enter", "unlock"}, UNCHANGED lock
          PROVE  LockInv'
      BY <3>1 DEF IInv, TypeInv, LockInv, TableExclusive, Set
    <3>2. CASE Start(t) \/ Relocate(t) \/ RelocateFails(t) \/ PassEnds(t)
      <4>1. CASE Start(t)
        BY <3>1, <4>1, Zenon DEF Start, table
      <4>2. CASE Relocate(t)
        BY <4>2 DEF Relocate, IInv, LockInv, TableExclusive, table
      <4>3. CASE RelocateFails(t)
        BY <3>1, <4>3 DEF RelocateFails, table
      <4>4. CASE PassEnds(t)
        <5>1. Following(t) \notin {"enter", "unlock"}
          BY DEF Following
        <5> QED
          BY <3>1, <4>4, <5>1 DEF PassEnds, table
      <4> QED
        BY <3>2, <4>1, <4>2, <4>3, <4>4
    <3>3. CASE Lock(t)
      BY <3>3 DEF IInv, TypeInv, LockInv, TableExclusive, Set, Lock
    <3>4. CASE Enter(t)
      BY <3>4 DEF IInv, TypeInv, LockInv, TableExclusive, Set, Enter
    <3>5. CASE Unlock(t)
      BY <3>5 DEF IInv, TypeInv, LockInv, TableExclusive, Set, Unlock
    <3> QED
      BY <1>2, <3>2, <3>3, <3>4, <3>5 DEF Step
  <2> QED
    BY <2>1, <2>2, <2>3 DEF IInv
<1> QED
  BY <1>1, <1>2 DEF Next

(* The invariant holds in every reachable state.                           *)
THEOREM IInvHolds == Spec => []IInv
BY InitIInv, NextIInv, PTL DEF Spec

(* No relocation is applied twice in any of the passes, and a library that *)
(* is entered in the table has had all of them.                            *)
THEOREM RelocatedOnceTheorem == Spec => []RelocatedOnce
<1>1. IInv => RelocatedOnce
  <2> SUFFICES ASSUME IInv, NEW t \in Threads
               PROVE  /\ Cardinality(AppliedSet(t)) = Len(applied[t])
                      /\ pc[t] \in Ended => AppliedSet(t) = Due(t)
    BY DEF RelocatedOnce, Ended
  <2> DEFINE l == library[t]
  <2>1. Progress(l, pc[t], next[t], has_defered[t], rel_defered[t], jmprel_defered[t], applied[t])
    BY DEF IInv, ProgressInv
  <2>2. AppliedSet(t) = Done(applied[t])
    BY DEF AppliedSet, Done
  <2>3. ASSUME pc[t] \in Ended PROVE Done(applied[t]) = Due(t)
    <3>1. ~Refused(l) /\ AppliedIsReached(l, pc[t], next[t], Done(applied[t]))
      BY <2>1, <2>3 DEF Progress, Ended
    <3>2. \A tbl, i : Reached(l, tbl, i, pc[t], next[t])
      BY <2>3 DEF Reached, Visited, Later
    <3>3. \A x : x \in Done(applied[t]) <=>
                   \E tbl \in Tables(l), i \in 1..Len(l.rel) : x = Item(l, tbl, i)
      BY <3>1, <3>2 DEF AppliedIsReached
    <3>4. \A x : x \in Due(t) <=>
                   \E tbl \in Tables(l), i \in 1..Len(l.rel) : x = Item(l, tbl, i)
      <4>1. l.no_relocate => 1..Len(l.rel) = {}
        BY <3>1 DEF Refused
      <4> QED
        BY <4>1 DEF Due, relcount, Tables, Item, Items
    <3> QED
      BY <3>3, <3>4
  <2> QED
    BY <2>1, <2>2, <2>3 DEF Progress
<1> QED
  BY <1>1, IInvHolds, PTL

(* When a resolver of a library is run, every relocation of the library    *)
(* that is none has been applied.                                          *)
THEOREM ResolversRunLastTheorem == Spec => []ResolversRunLast
<1>1. IInv => ResolversRunLast
  BY DEF IInv, ProgressInv, Progress, ResolversLast, ResolversRunLast
<1> QED
  BY <1>1, IInvHolds, PTL

(* Of any number of threads one at a time writes to the table of libraries.*)
THEOREM TableExclusiveTheorem == Spec => []TableExclusive
<1>1. IInv => TableExclusive
  BY DEF IInv, LockInv
<1> QED
  BY <1>1, IInvHolds, PTL
=============================================================================
