----------------------------- MODULE BootProofs -----------------------------
(***************************************************************************)
(* The boot memory map and the kernel's heap in it, for any machine that   *)
(* keeps the boot loader's promises and has the room the prekernel relies  *)
(* on: the map handed over is true, and no block of the kernel's heap      *)
(* touches what the prekernel has allocated.                               *)
(* Then the page tables, for any of the boot loader's: the kernel's copy   *)
(* of them, what it adds to the copy, and the image of the kernel that is  *)
(* loaded through them.                                                    *)
(***************************************************************************)
EXTENDS Boot, KernelImage, FiniteSetTheorems, SequenceTheorems, WellFoundedInduction, TLAPS

-----------------------------------------------------------------------------
(* The kernel's bump heap, for every memory map, every set of sizes and    *)
(* every set of alignments.                                                *)

(* The heap is the entry init_heap chose, and no block starts below it. *)
HeapIs(i) ==
  /\ IsLargest(i)
  /\ bump_heap_limit = HhdmOffset + memory_map[i].base + memory_map[i].length
  /\ HhdmOffset + memory_map[i].base <= bump_heap_ptr
  /\ \A k \in DOMAIN blocks : HhdmOffset + memory_map[i].base <= blocks[k].start

(* The pointer may pass the limit when a request fails, but only up to the *)
(* limit rounded up to the widest alignment.                               *)
PtrBounded ==
  \E b \in Alignments : Widest(b) /\ bump_heap_ptr <= AlignUp(bump_heap_limit, b)

(* Blocks lie below the pointer and below the limit, in the order in which *)
(* they were handed out.                                                   *)
BlocksOrdered ==
  /\ \A k \in DOMAIN blocks : /\ End(blocks[k]) <= bump_heap_ptr
                              /\ End(blocks[k]) <= bump_heap_limit
  /\ \A k, l \in DOMAIN blocks : k < l => End(blocks[k]) <= blocks[l].start

(* The map is one, whoever wrote it.                                       *)
MapRead == memory_map \in Seq(Entry)

IInv ==
  /\ MapRead
  /\ bump_heap_ptr \in Nat
  /\ bump_heap_limit \in Nat
  /\ phase \in {"boot", "running", "halted"}
  /\ blocks \in Seq(Block)
  /\ phase # "running" => blocks = <<>> /\ bump_heap_limit = 0
  /\ phase = "running" => \E i \in DOMAIN memory_map : HeapIs(i)
  /\ PtrBounded
  /\ BlocksOrdered

-----------------------------------------------------------------------------
(* Rounding up an address yields an address at or above it, by less than   *)
(* the alignment: aligned_alloc's pointer never moves back.                *)
LEMMA AlignUpBounds ==
  ASSUME NEW x \in Nat, NEW a \in Nat \ {0}
  PROVE  /\ AlignUp(x, a) \in Nat
         /\ x <= AlignUp(x, a)
         /\ AlignUp(x, a) < x + a
  BY DEF AlignUp

(* Rounding up never passes a multiple of the alignment that was not below *)
(* the address already.                                                    *)
LEMMA AlignUpBelowMultiple ==
  ASSUME NEW x \in Nat, NEW a \in Nat \ {0}, NEW m \in Nat, x <= a * m
  PROVE  AlignUp(x, a) <= a * m
<1> DEFINE q == (x + a - 1) \div a
<1>1. q \in Nat /\ q * a <= x + a - 1
  OBVIOUS
<1>2. q * a < a * (m + 1)
  BY <1>1
<1>3. q <= m
  <2>1. SUFFICES ASSUME q >= m + 1 PROVE FALSE
    BY <1>1
  <2>2. q * a >= (m + 1) * a
    BY <2>1, <1>1
  <2> QED BY <2>2, <1>1, <1>2
<1>4. q * a <= m * a
  BY <1>1, <1>3
<1> QED BY <1>1, <1>4 DEF AlignUp

(* The entries of the map and the blocks hold natural numbers. *)
LEMMA EntryNat ==
  ASSUME MapRead, NEW i \in DOMAIN memory_map
  PROVE  /\ memory_map[i].base \in Nat
         /\ memory_map[i].length \in Nat
         /\ HhdmOffset \in Nat
<1>1. memory_map[i] \in Entry
  BY DEF MapRead
<1> QED BY <1>1, MemMapsAssumption DEF Entry

LEMMA BlockNat ==
  ASSUME blocks \in Seq(Block), NEW k \in DOMAIN blocks
  PROVE  /\ blocks[k].start \in Nat
         /\ blocks[k].size \in Nat
         /\ blocks[k].align \in Alignments
         /\ End(blocks[k]) \in Nat
<1>1. blocks[k] \in Block
  OBVIOUS
<1> QED BY <1>1, SizesAssumption DEF Block, End

-----------------------------------------------------------------------------
LEMMA InitIInv == Init => IInv
<1> SUFFICES ASSUME Init PROVE IInv
  OBVIOUS
<1> USE DEF Init
<1>1. PtrBounded
  <2>1. PICK b \in Alignments : Widest(b)
    BY WidestAssumption DEF Widest
  <2>2. AlignUp(0, b) >= 0
    BY SizesAssumption, AlignUpBounds
  <2> QED BY <2>1, <2>2 DEF PtrBounded
<1>2. BlocksOrdered
  BY DEF BlocksOrdered
<1>3. MapRead
  BY MemMapsAssumption DEF MapRead
<1> QED BY <1>1, <1>2, <1>3 DEF IInv

(* init_heap: the pointer starts at the base of the chosen entry. *)
LEMMA InitHeapIInv ==
  ASSUME IInv, InitHeap
  PROVE  IInv'
<1> USE DEF IInv
<1>1. PICK i \in DOMAIN memory_map :
        /\ IsLargest(i)
        /\ bump_heap_ptr' = HhdmOffset + memory_map[i].base
        /\ bump_heap_limit' = HhdmOffset + memory_map[i].base + memory_map[i].length
  BY DEF InitHeap
<1>2. /\ memory_map[i].base \in Nat
      /\ memory_map[i].length \in Nat
      /\ HhdmOffset \in Nat
  BY EntryNat
<1>3. /\ blocks = <<>> /\ blocks' = blocks /\ memory_map' = memory_map /\ phase' = "running"
      /\ MapRead'
  BY DEF InitHeap, MapRead
<1>4. HeapIs(i)'
  BY <1>1, <1>2, <1>3 DEF HeapIs, IsLargest
<1>5. PtrBounded'
  <2>1. PICK b \in Alignments : Widest(b)
    BY WidestAssumption DEF Widest
  <2>2. bump_heap_limit' <= AlignUp(bump_heap_limit', b)
    <3>1. b \in Nat \ {0} /\ bump_heap_limit' \in Nat
      BY <1>1, <1>2, SizesAssumption
    <3> QED BY <3>1, AlignUpBounds
  <2>3. bump_heap_ptr' <= AlignUp(bump_heap_limit', b)
    <3>1. b \in Nat \ {0} /\ bump_heap_limit' \in Nat
      BY <1>1, <1>2, SizesAssumption
    <3>2. AlignUp(bump_heap_limit', b) \in Nat
      BY <3>1, AlignUpBounds
    <3> QED BY <1>1, <1>2, <2>2, <3>2
  <2> QED BY <2>1, <2>3 DEF PtrBounded
<1>6. BlocksOrdered'
  BY <1>3 DEF BlocksOrdered
<1> QED BY <1>1, <1>2, <1>3, <1>4, <1>5, <1>6

(* aligned_alloc, malloc and calloc. *)
LEMMA AllocForIInv ==
  ASSUME IInv, NEW want \in 0..SizeMax, NEW a \in Alignments, NEW size \in Nat,
         want = size, AllocFor(want, a, size)
  PROVE  IInv'
<1> DEFINE r == AlignUp(bump_heap_ptr, a)
<1> USE DEF IInv
<1>1. a \in Nat \ {0} /\ SizeMax \in Nat /\ want \in Nat /\ r \in Nat /\ bump_heap_ptr <= r
  BY SizesAssumption, AlignUpBounds
<1>2. /\ memory_map' = memory_map /\ MapRead'
      /\ bump_heap_limit' = bump_heap_limit
      /\ phase = "running" /\ phase' = phase
  BY DEF AllocFor, MapRead
<1>3. PICK b \in Alignments : Widest(b) /\ bump_heap_ptr <= AlignUp(bump_heap_limit, b)
  BY DEF PtrBounded
<1>4. r <= AlignUp(bump_heap_limit, b) /\ bump_heap_limit <= AlignUp(bump_heap_limit, b)
  <2>1. PICK k \in 1..b : b = a * k
    BY <1>3 DEF Widest
  <2> DEFINE m == (bump_heap_limit + b - 1) \div b
  <2>2. b \in Nat \ {0} /\ m \in Nat
    BY SizesAssumption
  <2>3. AlignUp(bump_heap_limit, b) = a * (k * m)
    <3>1. AlignUp(bump_heap_limit, b) = m * b
      BY DEF AlignUp
    <3> HIDE DEF m
    <3>2. m * (a * k) = a * (k * m)
      BY <1>1, <2>1, <2>2
    <3> QED BY <3>1, <3>2, <2>1
  <2>4. k * m \in Nat
    BY <2>1, <2>2
  <2> HIDE DEF m
  <2>5. r <= a * (k * m)
    BY <1>1, <1>3, <2>3, <2>4, AlignUpBelowMultiple
  <2> QED BY <2>2, <2>3, <2>5, AlignUpBounds
<1>5. PICK i \in DOMAIN memory_map : HeapIs(i)
  BY <1>2
<1>6. /\ memory_map[i].base \in Nat
      /\ memory_map[i].length \in Nat
      /\ HhdmOffset \in Nat
  BY EntryNat
<1>7. CASE Fits(r, size)
  <2> DEFINE new == [start |-> r, size |-> want, align |-> a]
  <2> HIDE DEF r
  <2>1. bump_heap_ptr' = r + size /\ blocks' = Append(blocks, new)
    BY <1>7 DEF AllocFor, r
  <2>2. r + size <= bump_heap_limit
    BY <1>1, <1>7 DEF Fits
  <2>3. blocks' \in Seq(Block)
    BY <2>1, <1>1 DEF Block
  <2>4. /\ Len(blocks') = Len(blocks) + 1
        /\ DOMAIN blocks' = 1..(Len(blocks) + 1)
        /\ \A k \in DOMAIN blocks : blocks'[k] = blocks[k]
        /\ blocks'[Len(blocks) + 1] = new
        /\ DOMAIN blocks = 1..Len(blocks)
    BY <2>1
  <2>5. HeapIs(i)'
    BY <1>1, <1>2, <1>5, <1>6, <2>1, <2>4, SMTT(30) DEF HeapIs, IsLargest
  <2>6. PtrBounded'
    <3>1. b \in Nat \ {0} /\ AlignUp(bump_heap_limit, b) \in Nat
      BY <1>3, SizesAssumption, AlignUpBounds
    <3>2. bump_heap_ptr' <= AlignUp(bump_heap_limit, b)
      BY <1>1, <1>4, <2>1, <2>2, <3>1
    <3> QED BY <1>2, <1>3, <3>2 DEF PtrBounded
  <2>7. BlocksOrdered'
    <3>1. \A k \in DOMAIN blocks : /\ End(blocks[k]) <= r
                                  /\ End(blocks[k]) <= bump_heap_limit
                                  /\ End(blocks[k]) \in Nat
      <4>1. \A k \in DOMAIN blocks : End(blocks[k]) \in Nat
        BY BlockNat
      <4> QED BY <1>1, <4>1 DEF BlocksOrdered
    <3>2. ASSUME NEW k \in DOMAIN blocks'
          PROVE  End(blocks'[k]) <= r + size
      <4>1. CASE k \in DOMAIN blocks
        <5>1. blocks'[k] = blocks[k] /\ End(blocks[k]) <= r /\ End(blocks[k]) \in Nat
          BY <3>1, <2>4, <4>1
        <5>2. End(blocks'[k]) = End(blocks[k])
          BY <5>1 DEF End
        <5>3. r \in Nat
          BY <1>1
        <5> QED BY <5>1, <5>2, <5>3
      <4>2. CASE k = Len(blocks) + 1
        <5>1. End(blocks'[k]) = r + size
          BY <2>4, <4>2 DEF End
        <5> QED BY <1>1, <5>1
      <4> QED BY <2>4, <4>1, <4>2
    <3>3. \A k \in DOMAIN blocks' : End(blocks'[k]) \in Nat
      BY <1>1, <3>1, <2>4 DEF End
    <3>4. ASSUME NEW k \in DOMAIN blocks', NEW l \in DOMAIN blocks', k < l
          PROVE  End(blocks'[k]) <= blocks'[l].start
      <4>1. CASE l \in DOMAIN blocks
        BY <2>4, <3>4, <4>1 DEF BlocksOrdered
      <4>2. CASE l = Len(blocks) + 1
        BY <2>4, <3>1, <3>4, <4>2
      <4> QED BY <2>4, <4>1, <4>2
    <3> QED BY <1>1, <1>2, <2>1, <2>2, <3>2, <3>3, <3>4 DEF BlocksOrdered
  <2> QED BY <1>1, <1>2, <2>1, <2>3, <2>5, <2>6, <2>7
<1>8. CASE ~ Fits(r, size)
  <2>1. bump_heap_ptr' = r /\ blocks' = blocks
    BY <1>8 DEF AllocFor
  <2> HIDE DEF r
  <2>2. HeapIs(i)'
    BY <1>1, <1>2, <1>5, <1>6, <2>1 DEF HeapIs, IsLargest
  <2>3. PtrBounded'
    BY <1>2, <1>3, <1>4, <2>1 DEF PtrBounded
  <2>4. BlocksOrdered'
    <3>1. \A k \in DOMAIN blocks : End(blocks[k]) \in Nat
      BY BlockNat
    <3> QED BY <1>1, <1>2, <2>1, <3>1 DEF BlocksOrdered
  <2> QED BY <1>1, <1>2, <2>1, <2>2, <2>3, <2>4
<1> QED BY <1>7, <1>8

LEMMA NextIInv == IInv /\ [Next]_vars => IInv'
<1> SUFFICES ASSUME IInv, [Next]_vars PROVE IInv'
  OBVIOUS
<1>1. CASE InitHeap
  BY <1>1, InitHeapIInv
<1>2. CASE InitHeapHalts
  BY <1>2 DEF InitHeapHalts, IInv, MapRead, HeapIs, IsLargest, PtrBounded, BlocksOrdered
<1>3. ASSUME NEW a \in Alignments, NEW s \in Sizes, AlignedAlloc(a, s)
      PROVE  IInv'
  BY <1>3, SizesAssumption, AllocForIInv DEF AlignedAlloc
<1>4. ASSUME NEW s \in Sizes, Malloc(s)
      PROVE  IInv'
  BY <1>4, SizesAssumption, AllocForIInv DEF Malloc, AlignedAlloc
<1>5. ASSUME NEW n \in Sizes, NEW s \in Sizes, Calloc(n, s)
      PROVE  IInv'
  <2>1. n \in Nat \ {0} /\ s \in Nat /\ SizeMax \in Nat /\ SizeMax \div n >= s
    BY <1>5, SizesAssumption DEF Calloc, CallocAccepts
  <2>2. n * s \in Nat /\ n * s <= SizeMax
    BY <2>1
  <2>3. (n * s) % (SizeMax + 1) = n * s
    BY <2>1, <2>2
  <2>4. AllocFor(n * s, MaxAlign, n * s)
    BY <1>5, <2>3 DEF Calloc
  <2> QED BY <2>1, <2>2, <2>4, SizesAssumption, AllocForIInv
<1>6. CASE UNCHANGED vars
  BY <1>6 DEF vars, IInv, MapRead, HeapIs, IsLargest, PtrBounded, BlocksOrdered
<1> QED BY <1>1, <1>2, <1>3, <1>4, <1>5, <1>6 DEF Next

THEOREM IInvHolds == Spec => []IInv
<1> QED BY InitIInv, NextIInv, PTL DEF Spec

-----------------------------------------------------------------------------
LEMMA IInvDisjoint == IInv => BlocksDisjoint
<1> SUFFICES ASSUME IInv, NEW k \in DOMAIN blocks, NEW l \in DOMAIN blocks, k # l
             PROVE  \/ End(blocks[k]) <= blocks[l].start
                    \/ End(blocks[l]) <= blocks[k].start
  BY DEF BlocksDisjoint
<1>1. k \in Int /\ l \in Int
  BY DEF IInv
<1>2. CASE k < l
  BY <1>2 DEF IInv, BlocksOrdered
<1>3. CASE l < k
  BY <1>3 DEF IInv, BlocksOrdered
<1> QED BY <1>1, <1>2, <1>3

(* No byte belongs to two blocks: aligned_alloc never hands memory out twice. *)
THEOREM DisjointTheorem == Spec => []BlocksDisjoint
BY IInvDisjoint, IInvHolds, PTL

(* Every block lies, with all the bytes promised, inside the usable entry    *)
(* init_heap chose: the kernel never allocates memory the map does not give. *)
THEOREM InHeapTheorem == Spec => []BlocksInHeap
<1>1. IInv => BlocksInHeap
  <2> SUFFICES ASSUME IInv, blocks # <<>>
               PROVE  BlocksInHeap
    BY DEF BlocksInHeap
  <2>1. PICK i \in DOMAIN memory_map : HeapIs(i)
    BY DEF IInv
  <2>2. \A k \in DOMAIN blocks : End(blocks[k]) <= bump_heap_limit
    BY DEF IInv, BlocksOrdered
  <2> QED BY <2>1, <2>2 DEF BlocksInHeap, HeapIs
<1> QED BY <1>1, IInvHolds, PTL

(* Type correctness. The pointer stays a size_t although failed requests may *)
(* push it past the limit: it never passes the limit rounded up to the       *)
(* widest alignment, so the rounding of the next request cannot wrap.        *)
THEOREM TypeTheorem == Spec => []TypeOK
<1>1. IInv /\ memory_map \in MemMaps => TypeOK
  <2> SUFFICES ASSUME IInv, memory_map \in MemMaps PROVE TypeOK
    OBVIOUS
  <2> USE DEF IInv
  <2>1. PICK b \in Alignments : Widest(b) /\ bump_heap_ptr <= AlignUp(bump_heap_limit, b)
    BY DEF PtrBounded
  <2>2. b \in Nat \ {0} /\ SizeMax \in Nat
    BY SizesAssumption
  <2>3. /\ AlignUp(bump_heap_limit, b) \in Nat
        /\ AlignUp(bump_heap_limit, b) < bump_heap_limit + b
    BY <2>2, AlignUpBounds
  <2>4. bump_heap_limit <= SizeMax /\ bump_heap_ptr <= SizeMax
    <3>1. CASE phase = "running"
      <4>1. PICK i \in DOMAIN memory_map : HeapIs(i)
        BY <3>1
      <4>2. bump_heap_limit + b <= SizeMax
        BY <4>1, NoWrapAssumption DEF HeapIs
      <4> QED BY <2>1, <2>2, <2>3, <4>2
    <3>2. CASE phase # "running"
      <4>1. AlignUp(0, b) <= b * 0
        BY <2>2, AlignUpBelowMultiple
      <4> QED BY <2>1, <2>2, <2>3, <3>2, <4>1
    <3> QED BY <3>1, <3>2
  <2> QED BY <2>2, <2>4 DEF TypeOK
<1>2. memory_map \in MemMaps /\ [Next]_vars => (memory_map \in MemMaps)'
  BY DEF Next, InitHeap, InitHeapHalts, AlignedAlloc, Malloc, Calloc, AllocFor, vars
<1>3. Spec => [](memory_map \in MemMaps)
  <2>1. Init => memory_map \in MemMaps
    BY DEF Init
  <2> QED BY <1>2, <2>1, PTL DEF Spec
<1> QED BY <1>1, <1>3, IInvHolds, PTL

-----------------------------------------------------------------------------
(* The boot memory map, and the heap in it.                                *)

(* The map in which entry k has become two, of u units and of the rest.    *)
SplitMap(map, k, u) ==
  [i \in 1..(Len(map) + 1) |->
     IF i < k THEN map[i]
     ELSE IF i = k THEN [base |-> map[k].base, length |-> u, type |-> "prekernel"]
     ELSE IF i = k + 1 THEN [base |-> map[k].base + u, type |-> "usable",
                             length |-> map[k].length - u]
     ELSE map[i - 1]]

(* The prekernel works in entry k of the boot loader's map.                *)
WorksIn(k) ==
  /\ k \in LargestUsable(firmware)
  /\ alloc_area_start = firmware[k].base
  /\ alloc_pos \in Nat

(* Where the allocator stands against the u units that entry k has given.  *)
Within(k, u) ==
  LET end == firmware[k].base + u
  IN  /\ step = "elf" => RoundUp(alloc_pos, PAGE) = end /\ u + HACK <= firmware[k].length
      /\ step = "reserve" => alloc_pos <= end + HACK /\ u + HACK <= firmware[k].length
      /\ step = "kernel" => alloc_pos <= end

Early == step \in {"alloc", "halted", "name", "map"}

MapInv ==
  /\ firmware \in FirmwareMaps
  /\ step \in {"alloc", "halted", "name", "map", "elf", "reserve", "kernel"}
  /\ Early => entries = <<>>
  /\ step \in {"name", "map"} =>
       \E k \in DOMAIN firmware :
         /\ WorksIn(k)
         /\ step = "name" => alloc_pos = firmware[k].base
         /\ step = "map" => \E size \in NameSizes : alloc_pos = firmware[k].base + size
  /\ ~Early =>
       \E k \in DOMAIN firmware : \E u \in 0..firmware[k].length :
         /\ WorksIn(k) /\ Within(k, u)
         /\ entries = SplitMap(firmware, k, u)

-----------------------------------------------------------------------------
LEMMA RoundUpBounds ==
  ASSUME NEW x \in Nat
  PROVE  RoundUp(x, PAGE) \in Nat /\ x <= RoundUp(x, PAGE)
<1>1. PAGE \in Nat \ {0}
  BY BootAssumption
<1> QED
  BY <1>1 DEF RoundUp

LEMMA FirmwareEntries ==
  ASSUME NEW map \in FirmwareMaps
  PROVE  /\ Len(map) \in Nat /\ DOMAIN map = 1..Len(map)
         /\ \A i \in DOMAIN map :
              /\ map[i] \in FirmwareEntry
              /\ map[i].base \in Nat /\ map[i].length \in Nat
              /\ 0 < map[i].length /\ map[i].length < Width
              /\ map[i].type \in {"usable", "reserved"}
<1>1. map \in Seq(FirmwareEntry) /\ Width \in Nat
  BY FirmwareAssumption, BootAssumption
<1>2. \A i \in DOMAIN map : map[i] \in FirmwareEntry
  BY <1>1
<1> QED
  BY <1>1, <1>2 DEF FirmwareEntry

(* Usable memory begins where no other entry does, so the comparison of    *)
(* bases finds the one entry the allocator works in.                       *)
LEMMA BaseIsUnique ==
  ASSUME NEW map \in FirmwareMaps, NEW k \in LargestUsable(map)
  PROVE  /\ k \in DOMAIN map /\ map[k].type = "usable"
         /\ (CHOOSE i \in DOMAIN map : map[i].base = map[k].base) = k
<1>1. k \in DOMAIN map /\ map[k].type = "usable"
  BY DEF LargestUsable
<1>2. ASSUME NEW i \in DOMAIN map, map[i].base = map[k].base
      PROVE  i = k
  <2>1. i # k => Apart(map[k], map[i])
    BY <1>1, FirmwareAssumption
  <2> QED
    BY <1>1, <1>2, <2>1, FirmwareEntries DEF Apart
<1> QED
  BY <1>1, <1>2

(* A length that is no negative number does not wrap.                      *)
LEMMA NoWrap ==
  ASSUME NEW x \in Nat, x < Width
  PROVE  x % Width = x
BY BootAssumption

(* pkmain's loop makes the split map when the entry is long enough.        *)
LEMMA SplitIsSplitMap ==
  ASSUME NEW map \in FirmwareMaps, NEW k \in LargestUsable(map), NEW u \in 0..map[k].length
  PROVE  Split(map, map[k].base, u) = SplitMap(map, k, u)
<1>1. /\ k \in DOMAIN map
      /\ (CHOOSE i \in DOMAIN map : map[i].base = map[k].base) = k
  BY BaseIsUnique
<1>2. /\ map[k].length \in Nat /\ map[k].length < Width /\ Width \in Nat
      /\ Len(map) \in Nat /\ DOMAIN map = 1..Len(map)
  BY <1>1, FirmwareEntries, BootAssumption
<1> DEFINE rest == map[k].length - u
<1>3. rest % Width = rest
  <2>1. rest \in Nat /\ rest < Width
    BY <1>2
  <2> QED
    BY <2>1, NoWrap
<1> DEFINE c == CHOOSE i \in DOMAIN map : map[i].base = map[k].base
<1>4. Split(map, map[k].base, u)
        = [i \in 1..(Len(map) + 1) |->
             CASE i < c -> map[i]
               [] i = c -> [base |-> map[k].base, length |-> u, type |-> "prekernel"]
               [] i = c + 1 -> [base |-> map[k].base + u, type |-> "usable",
                                length |-> (map[c].length - u) % Width]
               [] OTHER -> map[i - 1]]
  BY Zenon DEF Split
<1> HIDE DEF c
<1>5. k \in Nat /\ c = k
  BY <1>1, <1>2 DEF c
<1> HIDE DEF rest
<1>6. ASSUME NEW i \in 1..(Len(map) + 1)
      PROVE  Split(map, map[k].base, u)[i] = SplitMap(map, k, u)[i]
  <2>1. CASE i < k
    BY <1>2, <1>4, <1>5, <2>1 DEF SplitMap
  <2>2. CASE i = k
    BY <1>2, <1>4, <1>5, <2>2 DEF SplitMap
  <2>3. CASE i = k + 1
    <3>1. (map[c].length - u) % Width = map[k].length - u
      BY <1>3, <1>5 DEF rest
    <3>2. Split(map, map[k].base, u)[k + 1]
            = [base |-> map[k].base + u, type |-> "usable", length |-> (map[c].length - u) % Width]
      BY <1>2, <1>4, <1>5, <2>3
    <3>3. SplitMap(map, k, u)[k + 1]
            = [base |-> map[k].base + u, type |-> "usable", length |-> map[k].length - u]
      BY <1>2, <1>5, <2>3 DEF SplitMap
    <3> QED
      BY <2>3, <3>1, <3>2, <3>3, Zenon
  <2>4. CASE i > k + 1
    BY <1>2, <1>4, <1>5, <2>4 DEF SplitMap
  <2> QED
    BY <1>2, <1>5, <2>1, <2>2, <2>3, <2>4
<1> QED
  BY <1>4, <1>6, Zenon DEF SplitMap

(* call_kmain's reservation moves the boundary, and nothing else.          *)
LEMMA ReserveIsSplitMap ==
  ASSUME NEW map \in FirmwareMaps, NEW k \in LargestUsable(map), NEW u \in Nat,
         u + HACK <= map[k].length
  PROVE  Reserve(SplitMap(map, k, u), k) = SplitMap(map, k, u + HACK)
<1>1. k \in DOMAIN map
  BY BaseIsUnique
<1>2. /\ map[k].length \in Nat /\ map[k].length < Width /\ Width \in Nat /\ HACK \in Nat
      /\ map[k].base \in Nat /\ Len(map) \in Nat /\ k \in 1..Len(map)
  BY <1>1, FirmwareEntries, BootAssumption
<1> DEFINE rest == map[k].length - (u + HACK)
<1>3. (map[k].length - u - HACK) % Width = rest
  <2>1. rest \in Nat /\ rest < Width /\ map[k].length - u - HACK = rest
    BY <1>2
  <2> QED
    BY <2>1, NoWrap
<1> DEFINE s == SplitMap(map, k, u)
           t == SplitMap(map, k, u + HACK)
<1>4. /\ DOMAIN s = 1..(Len(map) + 1) /\ DOMAIN t = 1..(Len(map) + 1)
      /\ k \in DOMAIN s /\ k + 1 \in DOMAIN s /\ k # k + 1
  BY <1>2 DEF SplitMap
<1>5. /\ s[k] = [base |-> map[k].base, length |-> u, type |-> "prekernel"]
      /\ s[k + 1] = [base |-> map[k].base + u, type |-> "usable", length |-> map[k].length - u]
      /\ t[k] = [base |-> map[k].base, length |-> u + HACK, type |-> "prekernel"]
      /\ t[k + 1] = [base |-> map[k].base + (u + HACK), type |-> "usable",
                     length |-> rest]
      /\ \A i \in DOMAIN s \ {k, k + 1} : t[i] = s[i]
  BY <1>2 DEF SplitMap
<1> HIDE DEF s, t, rest
<1>6. Reserve(s, k)[k] = t[k]
  BY <1>4, <1>5 DEF Reserve
<1>7. Reserve(s, k)[k + 1] = t[k + 1]
  <2>1. map[k].base + u + HACK = map[k].base + (u + HACK)
    BY <1>2
  <2> DEFINE r == s[k + 1]
             first == r.base + HACK
             last == (r.length - HACK) % Width
             moved == [r EXCEPT !.base = first, !.length = last]
  <2>2. Reserve(s, k)[k + 1] = moved
    BY <1>4 DEF Reserve
  <2>3. r.base = map[k].base + u /\ r.length = map[k].length - u
    BY <1>5
  <2>4. r = [base |-> map[k].base + u, type |-> "usable", length |-> map[k].length - u]
    BY <1>5
  <2>5. first = map[k].base + (u + HACK) /\ last = rest
    BY <1>3, <2>1, <2>3
  <2> HIDE DEF r, first, last
  <2>6. moved = [base |-> first, type |-> "usable", length |-> last]
    <3>1. r \in [base : {r.base}, type : {"usable"}, length : {r.length}]
      BY <2>3, <2>4
    <3>2. moved \in [base : {first}, type : {"usable"}, length : {last}]
      BY <3>1
    <3> HIDE DEF moved
    <3> QED
      BY <3>2
  <2> HIDE DEF moved
  <2> QED
    BY <1>5, <2>2, <2>5, <2>6, Zenon
<1>8. \A i \in DOMAIN s \ {k, k + 1} : Reserve(s, k)[i] = t[i]
  BY <1>4, <1>5 DEF Reserve
<1>9. DOMAIN Reserve(s, k) = DOMAIN t /\ Reserve(s, k) = [i \in DOMAIN t |-> Reserve(s, k)[i]]
  BY <1>4 DEF Reserve
<1>10. t = [i \in DOMAIN t |-> t[i]]
  BY DEF t, SplitMap
<1>11. Reserve(s, k) = t
  BY <1>4, <1>6, <1>7, <1>8, <1>9, <1>10
<1> QED
  BY <1>11 DEF s, t

-----------------------------------------------------------------------------
(* The entry of the boot loader's map that entry i of the split map is of. *)
Source(k, i) == IF i <= k THEN i ELSE i - 1

(* Every entry of the split map lies in the entry it is of, and what       *)
(* somebody may use was usable.                                            *)
LEMMA SplitMapEntry ==
  ASSUME NEW map \in FirmwareMaps, NEW k \in LargestUsable(map), NEW u \in 0..map[k].length,
         NEW i \in DOMAIN SplitMap(map, k, u)
  PROVE  LET e == SplitMap(map, k, u)[i]
             d == map[Source(k, i)]
         IN  /\ Source(k, i) \in DOMAIN map
             /\ e.base \in Nat /\ e.length \in Nat
             /\ d.base <= e.base /\ e.base + e.length <= d.base + d.length
             /\ e.type \in {"usable", "prekernel"} => d.type = "usable"
             /\ e.type \in {"usable", "reserved", "prekernel"}
             /\ i \notin {k, k + 1} => e = d
             /\ i = k => e.base = map[k].base /\ e.length = u /\ e.type = "prekernel"
             /\ i = k + 1 => /\ e.base = map[k].base + u /\ e.length = map[k].length - u
                             /\ e.type = "usable"
<1> DEFINE s == SplitMap(map, k, u)
           e == s[i]
           d == map[Source(k, i)]
<1>1. k \in DOMAIN map /\ map[k].type = "usable"
  BY BaseIsUnique
<1>2. /\ Len(map) \in Nat /\ DOMAIN map = 1..Len(map) /\ k \in 1..Len(map)
      /\ i \in 1..(Len(map) + 1)
      /\ map[k].base \in Nat /\ map[k].length \in Nat
  BY <1>1, FirmwareEntries DEF SplitMap
<1>3. CASE i = k
  <2>1. e = [base |-> map[k].base, length |-> u, type |-> "prekernel"] /\ d = map[k]
    BY <1>2, <1>3 DEF SplitMap, Source
  <2> QED
    BY <1>1, <1>2, <1>3, <2>1 DEF Source
<1>4. CASE i = k + 1
  <2>1. /\ e = [base |-> map[k].base + u, type |-> "usable", length |-> map[k].length - u]
        /\ Source(k, i) = k
    BY <1>2, <1>4 DEF SplitMap, Source
  <2> QED
    BY <1>1, <1>2, <1>4, <2>1
<1>5. CASE i < k \/ i > k + 1
  <2>1. Source(k, i) \in DOMAIN map /\ e = d
    BY <1>2, <1>5 DEF SplitMap, Source
  <2>2. d.base \in Nat /\ d.length \in Nat /\ d.type \in {"usable", "reserved"}
    BY <2>1, FirmwareEntries
  <2> QED
    BY <1>2, <1>5, <2>1, <2>2
<1> QED
  BY <1>2, <1>3, <1>4, <1>5

LEMMA CellsApart ==
  ASSUME NEW d, NEW e, d.base \in Nat, d.length \in Nat, e.base \in Nat, e.length \in Nat,
         Apart(d, e) \/ Apart(e, d)
  PROVE  Cells(d) \intersect Cells(e) = {}
BY DEF Apart, Cells

(* What somebody may use overlaps no other entry.                          *)
LEMMA SplitMapApart ==
  ASSUME NEW map \in FirmwareMaps, NEW k \in LargestUsable(map), NEW u \in 0..map[k].length,
         NEW i \in DOMAIN SplitMap(map, k, u), NEW j \in DOMAIN SplitMap(map, k, u), i # j,
         SplitMap(map, k, u)[i].type \in {"usable", "prekernel"}
  PROVE  Cells(SplitMap(map, k, u)[i]) \intersect Cells(SplitMap(map, k, u)[j]) = {}
<1> DEFINE d == SplitMap(map, k, u)[i]
           e == SplitMap(map, k, u)[j]
<1>1. /\ k \in DOMAIN map /\ Len(map) \in Nat /\ k \in 1..Len(map)
      /\ i \in 1..(Len(map) + 1) /\ j \in 1..(Len(map) + 1)
      /\ map[k].base \in Nat /\ map[k].length \in Nat
  BY BaseIsUnique, FirmwareEntries DEF SplitMap
<1>2. d.base \in Nat /\ d.length \in Nat /\ e.base \in Nat /\ e.length \in Nat
  BY SplitMapEntry
<1>3. CASE Source(k, i) = Source(k, j)
  <2>1. (i = k /\ j = k + 1) \/ (i = k + 1 /\ j = k)
    BY <1>1, <1>3 DEF Source
  <2>2. CASE i = k /\ j = k + 1
    <3>1. d.base = map[k].base /\ d.length = u /\ e.base = map[k].base + u
      BY <2>2, SplitMapEntry
    <3>2. Apart(d, e)
      BY <1>1, <3>1 DEF Apart
    <3> QED
      BY <1>2, <3>2, CellsApart
  <2>3. CASE i = k + 1 /\ j = k
    <3>1. e.base = map[k].base /\ e.length = u /\ d.base = map[k].base + u
      BY <2>3, SplitMapEntry
    <3>2. Apart(d, e)
      BY <1>1, <3>1 DEF Apart
    <3> QED
      BY <1>2, <3>2, CellsApart
  <2> QED
    BY <2>1, <2>2, <2>3
<1>4. CASE Source(k, i) # Source(k, j)
  <2> DEFINE f == map[Source(k, i)]
             g == map[Source(k, j)]
  <2>1. /\ Source(k, i) \in DOMAIN map /\ f.type = "usable"
        /\ f.base <= d.base /\ d.base + d.length <= f.base + f.length
    BY SplitMapEntry
  <2>2. /\ Source(k, j) \in DOMAIN map
        /\ g.base <= e.base /\ e.base + e.length <= g.base + g.length
    BY SplitMapEntry
  <2>3. f.base \in Nat /\ f.length \in Nat /\ g.base \in Nat /\ g.length \in Nat
    BY <2>1, <2>2, FirmwareEntries
  <2>4. Apart(f, g)
    BY <1>4, <2>1, <2>2, FirmwareAssumption
  <2> HIDE DEF d, e, f, g
  <2>5. Apart(d, e)
    BY <1>2, <2>1, <2>2, <2>3, <2>4 DEF Apart
  <2> QED
    BY <1>2, <2>5, CellsApart DEF d, e
<1> QED
  BY <1>3, <1>4

(* The split map covers what the boot loader's map covers.                 *)
LEMMA SplitMapCovers ==
  ASSUME NEW map \in FirmwareMaps, NEW k \in LargestUsable(map), NEW u \in 0..map[k].length
  PROVE  LET s == SplitMap(map, k, u)
         IN  UNION {Cells(s[i]) : i \in DOMAIN s} = UNION {Cells(map[i]) : i \in DOMAIN map}
<1> DEFINE s == SplitMap(map, k, u)
<1>1. /\ k \in DOMAIN map /\ Len(map) \in Nat /\ k \in 1..Len(map) /\ DOMAIN map = 1..Len(map)
      /\ DOMAIN s = 1..(Len(map) + 1)
      /\ map[k].base \in Nat /\ map[k].length \in Nat
  BY BaseIsUnique, FirmwareEntries DEF SplitMap
<1>2. ASSUME NEW i \in DOMAIN s, NEW x \in Cells(s[i])
      PROVE  \E j \in DOMAIN map : x \in Cells(map[j])
  <2> DEFINE e == s[i]
             j == Source(k, i)
             d == map[j]
  <2>1. /\ j \in DOMAIN map /\ e.base \in Nat /\ e.length \in Nat
        /\ d.base <= e.base /\ e.base + e.length <= d.base + d.length
    BY SplitMapEntry
  <2>2. d.base \in Nat /\ d.length \in Nat
    BY <2>1, FirmwareEntries
  <2>3. x \in Cells(e)
    BY <1>2
  <2> HIDE DEF e, d, j
  <2>4. x \in Cells(d)
    BY <2>1, <2>2, <2>3 DEF Cells
  <2> QED
    BY <2>1, <2>4 DEF d
<1>3. ASSUME NEW j \in DOMAIN map, NEW x \in Cells(map[j])
      PROVE  \E i \in DOMAIN s : x \in Cells(s[i])
  <2>1. CASE j < k
    <3>1. j \in DOMAIN s /\ s[j] = map[j]
      BY <1>1, <2>1 DEF SplitMap
    <3> QED
      BY <1>3, <3>1
  <2>2. CASE j > k
    <3>1. j + 1 \in DOMAIN s /\ s[j + 1] = map[j]
      BY <1>1, <2>2 DEF SplitMap
    <3> QED
      BY <1>3, <3>1
  <2>3. CASE j = k /\ x < map[k].base + u
    <3>1. k \in DOMAIN s /\ s[k].base = map[k].base /\ s[k].length = u
      BY <1>1 DEF SplitMap
    <3>2. x \in Cells(s[k])
      BY <1>1, <1>3, <2>3, <3>1 DEF Cells
    <3> QED
      BY <3>1, <3>2
  <2>4. CASE j = k /\ ~(x < map[k].base + u)
    <3>1. /\ k + 1 \in DOMAIN s
          /\ s[k + 1].base = map[k].base + u /\ s[k + 1].length = map[k].length - u
      BY <1>1 DEF SplitMap
    <3>2. x \in Cells(s[k + 1])
      BY <1>1, <1>3, <2>4, <3>1, SMTT(30) DEF Cells
    <3> QED
      BY <3>1, <3>2
  <2> QED
    BY <1>1, <2>1, <2>2, <2>3, <2>4
<1> HIDE DEF s
<1>4. UNION {Cells(s[i]) : i \in DOMAIN s} = UNION {Cells(map[i]) : i \in DOMAIN map}
  BY <1>2, <1>3
<1> QED
  BY <1>4 DEF s

(* What the split map calls usable was usable, and begins after the part   *)
(* of entry k that is used.                                                *)
LEMMA SplitMapUsable ==
  ASSUME NEW map \in FirmwareMaps, NEW k \in LargestUsable(map), NEW u \in 0..map[k].length,
         NEW i \in DOMAIN SplitMap(map, k, u), NEW x \in Cells(SplitMap(map, k, u)[i]),
         SplitMap(map, k, u)[i].type = "usable"
  PROVE  x \in UsableCells(map) /\ ~(map[k].base <= x /\ x < map[k].base + u)
<1> DEFINE e == SplitMap(map, k, u)[i]
           j == Source(k, i)
           d == map[j]
<1>1. /\ j \in DOMAIN map /\ e.base \in Nat /\ e.length \in Nat /\ d.type = "usable"
      /\ d.base <= e.base /\ e.base + e.length <= d.base + d.length
  BY SplitMapEntry
<1>2. d.base \in Nat /\ d.length \in Nat
  BY <1>1, FirmwareEntries
<1>3. /\ k \in DOMAIN map /\ k \in Nat /\ i \in Nat /\ map[k].type = "usable"
      /\ map[k].base \in Nat /\ map[k].length \in Nat
  BY BaseIsUnique, FirmwareEntries DEF SplitMap
<1>4. x \in UsableCells(map)
  <2> HIDE DEF e, d, j
  <2>1. x \in Cells(d)
    BY <1>1, <1>2 DEF Cells, e
  <2> QED
    BY <1>1, <2>1 DEF UsableCells, d
<1>5. x \in Int /\ e.base <= x /\ x < e.base + e.length
  BY <1>1 DEF Cells
<1>6. CASE i = k
  BY <1>6, SplitMapEntry
<1>7. CASE i = k + 1
  <2>1. e.base = map[k].base + u
    BY <1>7, SplitMapEntry
  <2> HIDE DEF e
  <2> QED
    BY <1>3, <1>4, <1>5, <2>1
<1>8. CASE i \notin {k, k + 1}
  <2>1. e = d /\ j # k
    BY <1>3, <1>8, SplitMapEntry DEF Source
  <2>2. Apart(map[k], d)
    BY <1>1, <1>3, <2>1, FirmwareAssumption
  <2> HIDE DEF e, d
  <2> QED
    BY <1>2, <1>3, <1>4, <1>5, <2>1, <2>2 DEF Apart
<1> QED
  BY <1>6, <1>7, <1>8

-----------------------------------------------------------------------------
LEMMA InitMapInv == PrekernelInit => MapInv
BY DEF PrekernelInit, MapInv, Early

(* What is to be shown of a step that leaves a map for the kernel.         *)
LEMMA LaterMapInv ==
  ASSUME NEW k \in DOMAIN firmware, NEW u \in 0..firmware[k].length,
         firmware \in FirmwareMaps, firmware' = firmware,
         step' \in {"elf", "reserve", "kernel"},
         WorksIn(k)', Within(k, u)', entries' = SplitMap(firmware, k, u)
  PROVE  MapInv'
BY DEF MapInv, Early

(* find_and_init_alloc, and its halt.                                      *)
LEMMA FindMapInv ==
  ASSUME MapInv, FindAndInitAlloc \/ NoMemoryToAlloc
  PROVE  MapInv'
<1>1. CASE FindAndInitAlloc
  <2>1. PICK k \in LargestUsable(firmware) :
          alloc_area_start' = firmware[k].base /\ alloc_pos' = firmware[k].base
    BY <1>1 DEF FindAndInitAlloc
  <2>2. /\ step' = "name" /\ firmware' = firmware /\ entries' = entries /\ entries = <<>>
        /\ firmware \in FirmwareMaps
    BY <1>1 DEF FindAndInitAlloc, MapInv, Early
  <2>3. k \in DOMAIN firmware /\ firmware[k].base \in Nat
    BY <2>2, BaseIsUnique, FirmwareEntries
  <2>4. WorksIn(k)'
    BY <2>1, <2>2, <2>3 DEF WorksIn
  <2> QED
    BY <2>1, <2>2, <2>3, <2>4 DEF MapInv, Early
<1>2. CASE NoMemoryToAlloc
  BY <1>2 DEF NoMemoryToAlloc, Halt, MapInv, Early
<1> QED
  BY <1>1, <1>2

(* The copy of the name.                                                   *)
LEMMA CopyMapInv ==
  ASSUME MapInv, CopyName
  PROVE  MapInv'
<1>1. PICK k \in DOMAIN firmware : WorksIn(k) /\ alloc_pos = firmware[k].base
  BY DEF MapInv, CopyName
<1>2. PICK size \in NameSizes : alloc_pos' = alloc_pos + size
  BY DEF CopyName
<1>3. /\ step' = "map" /\ firmware' = firmware /\ entries' = entries /\ entries = <<>>
      /\ alloc_area_start' = alloc_area_start /\ firmware \in FirmwareMaps
  BY DEF CopyName, MapInv, Early
<1>4. WorksIn(k)'
  BY <1>1, <1>2, <1>3, BootAssumption DEF WorksIn
<1> QED
  BY <1>1, <1>2, <1>3, <1>4 DEF MapInv, Early

(* The map is made after all that it must cover but the image.             *)
LEMMA MakeMapInv ==
  ASSUME MapInv, MakeMap
  PROVE  MapInv'
<1>1. PICK k \in DOMAIN firmware, size \in NameSizes :
        WorksIn(k) /\ alloc_pos = firmware[k].base + size
  BY DEF MapInv, MakeMap
<1>2. PICK base, pos, u :
        /\ base = firmware[k].base
        /\ pos = alloc_pos + ENTRY_SIZE * (Len(firmware) + 1)
        /\ u = RoundUp(pos, PAGE) - base
  OBVIOUS
<1>3. /\ step' = "elf" /\ firmware' = firmware /\ firmware \in FirmwareMaps
      /\ alloc_area_start' = alloc_area_start /\ alloc_area_start = base
      /\ alloc_pos' = pos /\ entries' = Split(firmware, base, u)
  BY <1>1, <1>2 DEF MakeMap, MapInv, WorksIn
<1>4. /\ k \in LargestUsable(firmware) /\ alloc_pos \in Nat
      /\ base \in Nat /\ firmware[k].length \in Nat /\ Len(firmware) \in Nat
  BY <1>1, <1>2, <1>3, FirmwareEntries DEF WorksIn
<1>5. pos \in Nat /\ base <= pos
  <2> DEFINE array == ENTRY_SIZE * (Len(firmware) + 1)
  <2>1. array \in Nat
    BY <1>4, BootAssumption
  <2>2. size \in Nat
    BY BootAssumption
  <2> HIDE DEF array
  <2>3. pos = alloc_pos + array /\ alloc_pos = base + size
    BY <1>1, <1>2 DEF array
  <2> QED
    BY <1>4, <2>1, <2>2, <2>3
<1>6. u = UsedAt(base, size, Len(firmware))
  BY <1>1, <1>2 DEF UsedAt
<1>7. u + HACK <= firmware[k].length
  BY <1>2, <1>3, <1>4, <1>6, RoomAssumption
<1>8. u \in 0..firmware[k].length
  <2>1. RoundUp(pos, PAGE) \in Nat /\ pos <= RoundUp(pos, PAGE) /\ HACK \in Nat
    BY <1>5, RoundUpBounds, BootAssumption
  <2>2. u \in Nat
    BY <1>2, <1>4, <1>5, <2>1
  <2>3. u <= firmware[k].length
    BY <1>4, <1>7, <2>1, <2>2
  <2> QED
    BY <1>4, <2>2, <2>3
<1>9. entries' = SplitMap(firmware, k, u)
  BY <1>2, <1>3, <1>4, <1>8, SplitIsSplitMap
<1>10. RoundUp(pos, PAGE) = base + u
  <2>1. RoundUp(pos, PAGE) \in Nat
    BY <1>5, RoundUpBounds
  <2> QED
    BY <1>2, <1>4, <2>1
<1>11. WorksIn(k)' /\ Within(k, u)'
  BY <1>2, <1>3, <1>4, <1>5, <1>7, <1>10 DEF WorksIn, Within
<1> QED
  BY <1>1, <1>2, <1>3, <1>8, <1>9, <1>11, LaterMapInv

(* The image is allocated behind the used part, within the reservation.    *)
LEMMA MapElfInv ==
  ASSUME MapInv, MapElf
  PROVE  MapInv'
<1>1. PICK k, u :
        /\ k \in DOMAIN firmware /\ u \in 0..firmware[k].length
        /\ WorksIn(k) /\ Within(k, u) /\ entries = SplitMap(firmware, k, u)
  BY DEF MapInv, MapElf, Early
<1>2. PICK size \in ImageSizes : alloc_pos' = RoundUp(alloc_pos, PAGE) + RoundUp(size, PAGE)
  BY DEF MapElf
<1>3. /\ step = "elf" /\ step' = "reserve" /\ firmware' = firmware /\ entries' = entries
      /\ alloc_area_start' = alloc_area_start /\ firmware \in FirmwareMaps
  BY DEF MapElf, MapInv
<1>4. /\ RoundUp(alloc_pos, PAGE) = firmware[k].base + u /\ u + HACK <= firmware[k].length
      /\ alloc_pos \in Nat
  BY <1>1, <1>3 DEF Within, WorksIn
<1>5. RoundUp(alloc_pos, PAGE) \in Nat
  BY <1>4, RoundUpBounds
<1>6. RoundUp(size, PAGE) \in Nat /\ RoundUp(size, PAGE) <= HACK /\ HACK \in Nat
  BY BootAssumption, RoundUpBounds, RoomAssumption
<1>7. firmware[k].base \in Nat /\ firmware[k].length \in Nat
  BY <1>1, <1>3, FirmwareEntries
<1>8. WorksIn(k)' /\ Within(k, u)'
  BY <1>1, <1>2, <1>3, <1>4, <1>5, <1>6, <1>7 DEF WorksIn, Within
<1> QED
  BY <1>1, <1>3, <1>8, LaterMapInv

(* The reservation takes in the image.                                     *)
LEMMA ReserveMapInv ==
  ASSUME MapInv, ReserveForKernel
  PROVE  MapInv'
<1>1. PICK k, u :
        /\ k \in DOMAIN firmware /\ u \in 0..firmware[k].length
        /\ WorksIn(k) /\ Within(k, u) /\ entries = SplitMap(firmware, k, u)
  BY DEF MapInv, ReserveForKernel, Early
<1>2. PICK i \in DOMAIN entries :
        entries[i].type = "prekernel" /\ entries' = Reserve(entries, i)
  BY DEF ReserveForKernel
<1>3. /\ step = "reserve" /\ step' = "kernel" /\ firmware' = firmware
      /\ alloc_area_start' = alloc_area_start /\ alloc_pos' = alloc_pos
      /\ firmware \in FirmwareMaps
  BY DEF ReserveForKernel, MapInv
<1>4. /\ k \in LargestUsable(firmware) /\ alloc_pos \in Nat
      /\ alloc_pos <= firmware[k].base + u + HACK /\ u + HACK <= firmware[k].length
  BY <1>1, <1>3 DEF Within, WorksIn
<1>5. firmware[k].base \in Nat /\ firmware[k].length \in Nat /\ HACK \in Nat /\ u \in Nat
  BY <1>1, <1>3, FirmwareEntries, BootAssumption
<1>6. i = k
  <2>1. i = k + 1 => entries[i].type = "usable"
    BY <1>1, <1>3, <1>4, SplitMapEntry
  <2>2. i \notin {k, k + 1} => entries[i].type \in {"usable", "reserved"}
    BY <1>1, <1>3, <1>4, SplitMapEntry, FirmwareEntries
  <2> QED
    BY <1>2, <2>1, <2>2
<1>7. entries' = SplitMap(firmware, k, u + HACK)
  BY <1>1, <1>2, <1>3, <1>4, <1>5, <1>6, ReserveIsSplitMap
<1>8. u + HACK \in 0..firmware[k].length
  BY <1>4, <1>5
<1>9. WorksIn(k)' /\ Within(k, u + HACK)'
  BY <1>1, <1>3, <1>4, <1>5 DEF WorksIn, Within
<1> QED
  BY <1>1, <1>3, <1>7, <1>8, <1>9, LaterMapInv

LEMMA NextMapInv == MapInv /\ [PrekernelNext]_prekernel => MapInv'
<1> SUFFICES ASSUME MapInv, [PrekernelNext]_prekernel PROVE MapInv'
  OBVIOUS
<1>1. CASE UNCHANGED prekernel
  BY <1>1 DEF prekernel, MapInv, Early, WorksIn, Within
<1> QED
  BY <1>1, FindMapInv, CopyMapInv, MakeMapInv, MapElfInv, ReserveMapInv DEF PrekernelNext

LEMMA MapInvIsTrue == MapInv => MapIsTrue
<1> SUFFICES ASSUME MapInv PROVE MapIsTrue
  OBVIOUS
<1>1. CASE Early
  BY <1>1 DEF MapInv, MapIsTrue, Early
<1>2. CASE ~Early
  <2>1. PICK k, u :
          /\ k \in DOMAIN firmware /\ u \in 0..firmware[k].length
          /\ WorksIn(k) /\ Within(k, u) /\ entries = SplitMap(firmware, k, u)
    BY <1>2 DEF MapInv
  <2>2. /\ firmware \in FirmwareMaps /\ k \in LargestUsable(firmware)
        /\ alloc_area_start = firmware[k].base /\ alloc_pos \in Nat
    BY <2>1 DEF MapInv, WorksIn
  <2>3. ASSUME NEW i \in DOMAIN entries, NEW j \in DOMAIN entries, i # j,
               entries[i].type \in {"usable", "prekernel"}
        PROVE  Cells(entries[i]) \intersect Cells(entries[j]) = {}
    BY <2>1, <2>2, <2>3, SplitMapApart
  <2>4. UNION {Cells(entries[i]) : i \in DOMAIN entries}
          = UNION {Cells(firmware[i]) : i \in DOMAIN firmware}
    BY <2>1, <2>2, SplitMapCovers
  <2>5. ASSUME step = "kernel", NEW x \in UsableCells(entries)
        PROVE  x \in UsableCells(firmware) /\ x \notin Allocated
    <3>1. PICK i \in DOMAIN entries : entries[i].type = "usable" /\ x \in Cells(entries[i])
      BY <2>5 DEF UsableCells
    <3>2. x \in UsableCells(firmware) /\ ~(firmware[k].base <= x /\ x < firmware[k].base + u)
      BY <2>1, <2>2, <3>1, SplitMapUsable
    <3>3. /\ alloc_pos <= firmware[k].base + u
          /\ firmware[k].base \in Nat /\ firmware[k].length \in Nat
      BY <2>1, <2>2, <2>5, FirmwareEntries DEF Within
    <3> QED
      BY <2>1, <2>2, <3>2, <3>3 DEF Allocated
  <2> QED
    BY <2>3, <2>4, <2>5 DEF MapIsTrue
<1> QED
  BY <1>1, <1>2

(* What the prekernel tells the kernel of the machine is true: nothing it  *)
(* may use overlaps anything else, nothing is lost, and nothing that is in *)
(* use is called usable.                                                   *)
THEOREM MapIsTrueTheorem == PrekernelSpec => []MapIsTrue
<1>1. PrekernelSpec => []MapInv
  BY InitMapInv, NextMapInv, PTL DEF PrekernelSpec
<1> QED
  BY <1>1, MapInvIsTrue, PTL

-----------------------------------------------------------------------------
(* Until it is called the kernel does nothing; from then on its map is the *)
(* prekernel's.                                                            *)
BootInv ==
  /\ MapInv /\ IInv
  /\ step # "kernel" => phase = "boot"
  /\ step = "kernel" => memory_map = Read(entries)

(* The entries handed over.                                                *)
LEMMA HandedEntries ==
  ASSUME MapInv, step = "kernel"
  PROVE  /\ \E n \in Nat : DOMAIN entries = 1..n
         /\ \A i \in DOMAIN entries :
              entries[i] \in [base : Nat, length : Nat, type : {"usable", "prekernel", "reserved"}]
<1>1. PICK k, u :
        /\ k \in DOMAIN firmware /\ u \in 0..firmware[k].length
        /\ WorksIn(k) /\ entries = SplitMap(firmware, k, u)
  BY DEF MapInv, Early
<1>2. firmware \in FirmwareMaps /\ k \in LargestUsable(firmware)
  BY <1>1 DEF MapInv, WorksIn
<1>3. /\ Len(firmware) \in Nat /\ k \in 1..Len(firmware)
      /\ DOMAIN entries = 1..(Len(firmware) + 1)
  BY <1>1, <1>2, FirmwareEntries DEF SplitMap
<1>4. ASSUME NEW i \in DOMAIN entries
      PROVE  entries[i] \in [base : Nat, length : Nat, type : {"usable", "prekernel", "reserved"}]
  <2> DEFINE e == entries[i]
  <2>1. e.base \in Nat /\ e.length \in Nat
    BY <1>1, <1>2, SplitMapEntry
  <2>2. CASE i \in {k, k + 1}
    BY <1>1, <1>3, <2>1, <2>2 DEF SplitMap
  <2>3. CASE i \notin {k, k + 1}
    <3>1. Source(k, i) \in DOMAIN firmware /\ e = firmware[Source(k, i)]
      BY <1>1, <1>2, <1>3, <2>3, SplitMapEntry
    <3>2. e \in FirmwareEntry
      BY <1>2, <3>1, FirmwareEntries
    <3> QED
      BY <2>1, <3>2 DEF FirmwareEntry
  <2> QED
    BY <2>2, <2>3
<1> QED
  BY <1>3, <1>4

(* The kernel reads them as entries of its own map.                        *)
LEMMA ReadEntries ==
  ASSUME MapInv, step = "kernel", NEW i \in DOMAIN entries
  PROVE  /\ Read(entries)[i] \in Entry
         /\ Read(entries)[i].base = entries[i].base
         /\ Read(entries)[i].length = entries[i].length
         /\ Read(entries)[i].type = Usable => entries[i].type = "usable"
<1> DEFINE e == entries[i]
           type == IF e.type = "usable" THEN Usable ELSE "other"
<1>1. e \in [base : Nat, length : Nat, type : {"usable", "prekernel", "reserved"}]
  BY HandedEntries
<1>2. Read(entries)[i] = [e EXCEPT !.type = type]
  BY DEF Read
<1>3. type \in {Usable, "other"} /\ (type = Usable => e.type = "usable")
  BY DEF Usable
<1> HIDE DEF e, type
<1>4. /\ [e EXCEPT !.type = type] \in Entry /\ [e EXCEPT !.type = type].type = type
      /\ [e EXCEPT !.type = type].base = e.base /\ [e EXCEPT !.type = type].length = e.length
  BY <1>1, <1>3 DEF Entry
<1> QED
  BY <1>2, <1>3, <1>4 DEF e

LEMMA ReadIsMap == MapInv /\ step = "kernel" => Read(entries) \in Seq(Entry)
<1> SUFFICES ASSUME MapInv, step = "kernel" PROVE Read(entries) \in Seq(Entry)
  OBVIOUS
<1>1. PICK n \in Nat : DOMAIN entries = 1..n
  BY HandedEntries
<1>2. Read(entries) = [i \in 1..n |-> Read(entries)[i]]
  BY <1>1 DEF Read
<1>3. \A i \in 1..n : Read(entries)[i] \in Entry
  BY <1>1, ReadEntries
<1> HIDE DEF Read
<1> QED
  BY <1>2, <1>3

LEMMA ReadIsMapAfter == (MapInv /\ step = "kernel" => Read(entries) \in Seq(Entry))'
BY ReadIsMap, PTL

LEMMA InitBootInv == BootInit => BootInv
<1> SUFFICES ASSUME BootInit PROVE BootInv
  OBVIOUS
<1>1. MapInv /\ IInv
  BY InitMapInv, InitIInv DEF BootInit
<1>2. step = "alloc" /\ phase = "boot"
  BY DEF BootInit, PrekernelInit, Init
<1> QED
  BY <1>1, <1>2 DEF BootInv

(* The composition takes steps of the prekernel and of the kernel only,    *)
(* but that the kernel is given its map as the prekernel ends.             *)
LEMMA BootSteps ==
  ASSUME [BootNext]_<<vars, prekernel>>
  PROVE  /\ [PrekernelNext]_prekernel
         /\ \/ UNCHANGED <<vars, prekernel>>
            \/ UNCHANGED vars /\ step # "kernel" /\ step' # "kernel"
            \/ CallKmain
            \/ step = "kernel" /\ Next /\ UNCHANGED prekernel
<1>1. CASE UNCHANGED <<vars, prekernel>>
  BY <1>1
<1>2. CASE LoadKernel
  BY <1>2 DEF LoadKernel, PrekernelNext, FindAndInitAlloc, NoMemoryToAlloc, Halt, CopyName,
              MakeMap, MapElf
<1>3. CASE CallKmain
  BY <1>3 DEF CallKmain, PrekernelNext
<1>4. CASE Kernel
  BY <1>4 DEF Kernel
<1> QED
  BY <1>1, <1>2, <1>3, <1>4 DEF BootNext

LEMMA NextBootInv == BootInv /\ [BootNext]_<<vars, prekernel>> => BootInv'
<1> SUFFICES ASSUME BootInv, [BootNext]_<<vars, prekernel>> PROVE BootInv'
  OBVIOUS
<1>1. MapInv'
  BY BootSteps, NextMapInv DEF BootInv
<1>2. CASE UNCHANGED <<vars, prekernel>>
  <2>1. IInv'
    BY <1>2, NextIInv DEF BootInv
  <2> QED
    BY <1>1, <1>2, <2>1 DEF BootInv, vars, prekernel
<1>3. CASE UNCHANGED vars /\ step # "kernel" /\ step' # "kernel"
  <2>1. IInv'
    BY <1>3, NextIInv DEF BootInv
  <2> QED
    BY <1>1, <1>3, <2>1 DEF BootInv, vars
<1>4. CASE CallKmain
  <2>1. /\ step # "kernel" /\ step' = "kernel" /\ memory_map' = Read(entries)'
        /\ bump_heap_ptr' = bump_heap_ptr /\ bump_heap_limit' = bump_heap_limit
        /\ phase' = phase /\ blocks' = blocks /\ phase = "boot"
    BY <1>4 DEF CallKmain, ReserveForKernel, BootInv, Read
  <2>2. MapRead'
    <3>1. Read(entries)' \in Seq(Entry)
      BY <1>1, <2>1, ReadIsMapAfter
    <3> QED
      BY <2>1, <3>1 DEF MapRead
  <2>3. IInv'
    BY <2>1, <2>2 DEF BootInv, IInv, PtrBounded, BlocksOrdered
  <2> QED
    BY <1>1, <2>1, <2>3 DEF BootInv
<1>5. CASE step = "kernel" /\ Next /\ UNCHANGED prekernel
  <2>1. IInv'
    BY <1>5, NextIInv DEF BootInv
  <2>2. memory_map' = memory_map
    BY <1>5 DEF Next, InitHeap, InitHeapHalts, AlignedAlloc, Malloc, Calloc, AllocFor
  <2>3. step' = step /\ entries' = entries
    BY <1>5 DEF prekernel
  <2> QED
    BY <1>1, <1>5, <2>1, <2>2, <2>3 DEF BootInv, Read
<1> QED
  BY <1>2, <1>3, <1>4, <1>5, BootSteps

(* The invariant of the composition holds in every reachable state.        *)
THEOREM BootInvHolds == BootSpec => []BootInv
BY InitBootInv, NextBootInv, PTL DEF BootSpec

(* The memory map stays true while the kernel runs.                        *)
THEOREM BootMapIsTrueTheorem == BootSpec => []MapIsTrue
<1>1. BootInv => MapIsTrue
  BY MapInvIsTrue DEF BootInv
<1> QED
  BY <1>1, BootInvHolds, PTL

(* No byte belongs to two blocks of the heap, which the map of the         *)
(* prekernel gives.                                                        *)
THEOREM BootDisjointTheorem == BootSpec => []BlocksDisjoint
<1>1. BootInv => BlocksDisjoint
  BY IInvDisjoint DEF BootInv
<1> QED
  BY <1>1, BootInvHolds, PTL

(* No block of the kernel's heap touches what the prekernel has allocated, *)
(* or memory the boot loader did not call usable.                          *)
THEOREM BlocksAreFreeTheorem == BootSpec => []BlocksAreFree
<1>1. ASSUME BootInv, NEW k \in DOMAIN blocks,
             NEW a \in blocks[k].start..(End(blocks[k]) - 1)
      PROVE  a - HhdmOffset \in UsableCells(firmware) /\ a - HhdmOffset \notin Allocated
  <2>1. phase = "running" /\ step = "kernel" /\ memory_map = Read(entries)
    BY <1>1 DEF BootInv, IInv
  <2>2. PICK i \in DOMAIN memory_map : HeapIs(i)
    BY <1>1, <2>1 DEF BootInv, IInv
  <2>3. /\ memory_map[i].base \in Nat /\ memory_map[i].length \in Nat
        /\ HhdmOffset \in Nat
    BY <1>1, EntryNat DEF BootInv, IInv
  <2>4. /\ HhdmOffset + memory_map[i].base <= blocks[k].start
        /\ End(blocks[k]) <= HhdmOffset + memory_map[i].base + memory_map[i].length
        /\ blocks[k].start \in Nat /\ End(blocks[k]) \in Nat
    BY <1>1, <2>2, BlockNat DEF BootInv, IInv, HeapIs, BlocksOrdered
  <2>5. i \in DOMAIN entries /\ entries[i].type = "usable"
        /\ memory_map[i].base = entries[i].base /\ memory_map[i].length = entries[i].length
    <3>1. i \in DOMAIN entries /\ memory_map[i].type = Usable
      BY <2>1, <2>2 DEF Read, HeapIs, IsLargest
    <3> QED
      BY <1>1, <2>1, <3>1, ReadEntries DEF BootInv
  <2>6. a - HhdmOffset \in Cells(entries[i])
    BY <1>1, <2>3, <2>4, <2>5 DEF Cells
  <2>7. a - HhdmOffset \in UsableCells(entries)
    BY <2>5, <2>6 DEF UsableCells
  <2>8. MapIsTrue
    BY <1>1, MapInvIsTrue DEF BootInv
  <2> QED
    BY <2>1, <2>7, <2>8 DEF MapIsTrue
<1>2. BootInv => BlocksAreFree
  BY <1>1 DEF BlocksAreFree
<1> QED
  BY <1>2, BootInvHolds, PTL

-----------------------------------------------------------------------------
(* Induction and recursion over the numbers, by sets and functions.        *)
LEMMA NatSets ==
  ASSUME NEW S, S \subseteq Nat, 0 \in S, \A n \in S : n + 1 \in S
  PROVE  S = Nat
<1> DEFINE T == Nat \ S
           R == OpToRel(<, Nat)
<1>1. SUFFICES ASSUME T # {} PROVE FALSE
  OBVIOUS
<1>2. \E x \in T : \A y \in T : ~(<<y, x>> \in R)
  <2> HIDE DEF T, R
  <2>1. IsWellFoundedOn(R, Nat)
    BY NatLessThanWellFounded DEF R
  <2>2. T \subseteq Nat
    BY DEF T
  <2> QED
    BY <1>1, <2>1, <2>2, WFMin
<1>3. PICK x \in T : \A y \in T : ~(<<y, x>> \in R)
  BY <1>2
<1>4. x \in Nat /\ x # 0 /\ x - 1 \in Nat /\ (x - 1) + 1 = x
  OBVIOUS
<1>5. x - 1 \in T
  BY <1>4
<1>6. <<x - 1, x>> \in R
  BY <1>4 DEF OpToRel
<1> QED
  BY <1>3, <1>5, <1>6

(* Recursion over the numbers, the step given as a function. *)
StepsOn(S) == [Nat \X S -> S]
Recursion(S, c, g) ==
  \E f \in [Nat -> S] : f[0] = c /\ \A n \in Nat : f[n + 1] = g[<<n, f[n]>>]

LEMMA PrimRec ==
  ASSUME NEW S, NEW c, NEW g, c \in S, g \in StepsOn(S)
  PROVE  Recursion(S, c, g)
<1> DEFINE Upto(n, f) == f[0] = c /\ \A k \in 0..n : k # n => f[k + 1] = g[<<k, f[k]>>]
           Good == {n \in Nat : \E f \in [Nat -> S] : Upto(n, f)}
           Same == {n \in Nat : \A m \in Nat : n <= m => \A f, h \in [Nat -> S] :
                       Upto(n, f) /\ Upto(m, h) => f[n] = h[n]}
<1> USE DEF StepsOn
<1>1. Good = Nat
  <2>1. 0 \in Good
    <3>1. [n \in Nat |-> c] \in [Nat -> S] /\ Upto(0, [n \in Nat |-> c])
      OBVIOUS
    <3> QED
      BY <3>1
  <2>2. ASSUME NEW n \in Good PROVE n + 1 \in Good
    <3>1. PICK f \in [Nat -> S] : Upto(n, f)
      OBVIOUS
    <3> DEFINE h == [f EXCEPT ![n + 1] = g[<<n, f[n]>>]]
    <3>2. h \in [Nat -> S]
      OBVIOUS
    <3>3. Upto(n + 1, h)
      <4>1. h[0] = c
        BY <3>1
      <4>2. ASSUME NEW k \in 0..(n + 1), k # n + 1 PROVE h[k + 1] = g[<<k, h[k]>>]
        <5>1. h[k] = f[k]
          BY <4>2
        <5>2. CASE k = n
          BY <5>1, <5>2
        <5>3. CASE k # n
          <6>1. k \in 0..n /\ k + 1 # n + 1
            BY <4>2, <5>3
          <6> QED
            BY <3>1, <5>1, <5>3, <6>1
        <5> QED
          BY <5>2, <5>3
      <4> QED
        BY <4>1, <4>2
    <3> HIDE DEF h, Upto
    <3>4. \E e \in [Nat -> S] : Upto(n + 1, e)
      BY <3>2, <3>3
    <3> QED
      BY <3>4
  <2> HIDE DEF Good
  <2>3. Good \subseteq Nat
    BY DEF Good
  <2> QED
    BY <2>1, <2>2, <2>3, NatSets
<1>2. Same = Nat
  <2>1. 0 \in Same
    OBVIOUS
  <2>2. ASSUME NEW n \in Same PROVE n + 1 \in Same
    <3>1. SUFFICES ASSUME NEW m \in Nat, n + 1 <= m, NEW f \in [Nat -> S], NEW h \in [Nat -> S],
                          Upto(n + 1, f), Upto(m, h)
                   PROVE  f[n + 1] = h[n + 1]
      OBVIOUS
    <3>2. Upto(n, f) /\ n <= m
      BY <3>1
    <3>3. f[n] = h[n]
      BY <3>1, <3>2
    <3>4. f[n + 1] = g[<<n, f[n]>>] /\ h[n + 1] = g[<<n, h[n]>>]
      BY <3>1
    <3> QED
      BY <3>3, <3>4
  <2> HIDE DEF Same
  <2>3. Same \subseteq Nat
    BY DEF Same
  <2> QED
    BY <2>1, <2>2, <2>3, NatSets
<1> DEFINE pick == [n \in Nat |-> CHOOSE f \in [Nat -> S] : Upto(n, f)]
           whole == [n \in Nat |-> pick[n][n]]
<1>3. \A n \in Nat : pick[n] \in [Nat -> S] /\ Upto(n, pick[n])
  BY <1>1
<1>4. whole \in [Nat -> S] /\ whole[0] = c
  BY <1>3
<1>5. ASSUME NEW n \in Nat PROVE whole[n + 1] = g[<<n, whole[n]>>]
  <2> HIDE DEF pick
  <2>1. /\ n + 1 \in Nat /\ n <= n + 1 /\ n \in 0..(n + 1) /\ n # n + 1
        /\ whole[n] = pick[n][n] /\ whole[n + 1] = pick[n + 1][n + 1]
    OBVIOUS
  <2>2. pick[n + 1][n + 1] = g[<<n, pick[n + 1][n]>>]
    BY <1>3, <2>1
  <2>3. n \in Same
    BY <1>2
  <2>4. pick[n][n] = pick[n + 1][n]
    <3> HIDE DEF Upto
    <3> QED
      BY <1>3, <2>1, <2>3
  <2> QED
    BY <2>1, <2>2, <2>4
<1> HIDE DEF whole
<1> QED
  BY <1>4, <1>5 DEF Recursion

-----------------------------------------------------------------------------
(* The definition of Span defines one.                                     *)
LEMMA SpanIs == Span = [level \in Nat |-> IF level <= 1 THEN 1 ELSE FAN * Span[level - 1]]
<1> DEFINE P == Nat \ {0}
           g == [p \in Nat \X P |-> IF p[1] = 0 THEN 1 ELSE FAN * p[2]]
<1>1. g \in [Nat \X P -> P]
  <2>1. ASSUME NEW p \in Nat \X P PROVE (IF p[1] = 0 THEN 1 ELSE FAN * p[2]) \in P
    <3>1. FAN \in P /\ p[2] \in P
      BY PagingAssumption
    <3>2. \A a, b \in P : a * b \in P
      OBVIOUS
    <3> QED
      BY <3>1, <3>2
  <2> HIDE DEF P
  <2> QED
    BY <2>1
<1>2. PICK f \in [Nat -> P] : f[0] = 1 /\ \A n \in Nat : f[n + 1] = g[<<n, f[n]>>]
  <2>1. PICK c \in P : c = 1
    OBVIOUS
  <2> HIDE DEF P, g
  <2>2. g \in StepsOn(P)
    BY <1>1 DEF StepsOn
  <2>3. Recursion(P, c, g)
    BY <2>2, PrimRec, Zenon
  <2> QED
    BY <2>1, <2>3 DEF Recursion
<1>3. f = [level \in Nat |-> IF level <= 1 THEN 1 ELSE FAN * f[level - 1]]
  <2>1. ASSUME NEW level \in Nat
        PROVE  f[level] = IF level <= 1 THEN 1 ELSE FAN * f[level - 1]
    <3>1. CASE level = 0
      BY <1>2, <3>1
    <3>2. CASE level # 0
      <4>1. level - 1 \in Nat /\ (level - 1) + 1 = level /\ f[level - 1] \in P
        BY <3>2
      <4>2. f[level] = IF level - 1 = 0 THEN 1 ELSE FAN * f[level - 1]
        BY <1>2, <4>1
      <4> QED
        BY <3>2, <4>2
    <3> QED
      BY <3>1, <3>2
  <2> QED
    BY <2>1
<1> QED
  BY <1>3 DEF Span

(* The number of pages is one, at least, at each level.                    *)
LEMMA SpanType == Span \in [Nat -> Nat \ {0}]
<1> DEFINE P == Nat \ {0}
<1>1. \A n \in Nat : Span[n] \in P
  <2> DEFINE Good == {n \in Nat : Span[n] \in P}
  <2>1. 0 \in Good
    BY SpanIs
  <2>2. ASSUME NEW n \in Good PROVE n + 1 \in Good
    <3>1. n + 1 \in Nat /\ (n + 1) - 1 = n /\ Span[n] \in P /\ FAN \in P
      BY PagingAssumption
    <3>2. Span[n + 1] = IF n + 1 <= 1 THEN 1 ELSE FAN * Span[n]
      BY SpanIs, <3>1
    <3>3. \A a, b \in P : a * b \in P
      OBVIOUS
    <3>4. FAN * Span[n] \in P
      BY <3>1, <3>3
    <3> QED
      BY <3>2, <3>4
  <2> HIDE DEF Good
  <2>3. Good = Nat
    <3>1. Good \subseteq Nat
      BY DEF Good
    <3> QED
      BY <2>1, <2>2, <3>1, NatSets
  <2> QED
    BY <2>3 DEF Good
<1> QED
  BY SpanIs, <1>1

LEMMA IndexInTable ==
  ASSUME NEW page \in Nat, NEW level \in Nat
  PROVE  Index(page, level) \in 0..(FAN - 1)
<1>1. Span[level] \in Nat \ {0} /\ FAN \in Nat \ {0}
  BY SpanType, PagingAssumption
<1>2. \A a \in Nat, b \in Nat \ {0} : a \div b \in Nat /\ a % b \in 0..(b - 1)
  OBVIOUS
<1> QED
  BY <1>1, <1>2 DEF Index

-----------------------------------------------------------------------------
(* The tables, by number.                                                  *)
Numbers == 0..(NewTable - 1)
Indices == 0..(FAN - 1)

TablesType ==
  /\ NewTable \in Nat
  /\ tables \in [Numbers -> [Indices -> EntryT]]

LEMMA CountOf ==
  ASSUME NEW n \in Nat
  PROVE  Cardinality(0..(n - 1)) = n
  BY FS_Interval

LEMMA Extended ==
  ASSUME TablesType, NEW content \in [Indices -> EntryT]
  PROVE  /\ WithTable(content) \in [0..NewTable -> [Indices -> EntryT]]
         /\ WithTable(content)[NewTable] = content
         /\ \A t \in Numbers : WithTable(content)[t] = tables[t]
<1> DEFINE n == NewTable
           ts == WithTable(content)
<1>1. n \in Nat /\ DOMAIN tables = 0..(n - 1)
  BY DEF TablesType, Numbers
<1>2. DOMAIN ts = 0..n
  <2>1. DOMAIN ts = (0..(n - 1)) \union {n}
    BY <1>1 DEF WithTable
  <2> HIDE DEF n
  <2> QED
    BY <1>1, <2>1
<1>3. ts[n] = content /\ \A t \in Numbers : ts[t] = tables[t]
  BY <1>1 DEF WithTable, Numbers
<1>4. ts = [t \in DOMAIN ts |-> ts[t]]
  BY DEF WithTable
<1>5. \A t \in 0..n : t = n \/ t \in Numbers
  BY <1>1 DEF Numbers
<1>6. \A t \in 0..n : ts[t] \in [Indices -> EntryT]
  BY <1>3, <1>5 DEF TablesType
<1> QED
  BY <1>2, <1>3, <1>4, <1>6

(* One entry of the n tables ts is set. *)
TheTables(n, ts) == n \in Nat /\ ts \in [0..(n - 1) -> [Indices -> EntryT]]
Write(n, t, i, e) == t \in 0..(n - 1) /\ i \in Indices /\ e \in EntryT
Written(n, ts, t, i, e) ==
  /\ TablesType' /\ NewTable' = n /\ Numbers' = 0..(n - 1) /\ tables'[t][i] = e
  /\ \A u \in 0..(n - 1) : u # t => tables'[u] = ts[u]
  /\ \A j \in Indices : j # i => tables'[t][j] = ts[t][j]

LEMMA Updated ==
  ASSUME NEW n, NEW ts, NEW t, NEW i, NEW e, TheTables(n, ts), Write(n, t, i, e),
         tables' = [ts EXCEPT ![t][i] = e]
  PROVE  Written(n, ts, t, i, e)
<1> USE DEF TheTables, Write
<1>1. tables' \in [0..(n - 1) -> [Indices -> EntryT]]
  OBVIOUS
<1>2. NewTable' = n
  <2>1. DOMAIN tables' = 0..(n - 1) /\ NewTable' = Cardinality(DOMAIN tables')
    BY <1>1 DEF NewTable
  <2> QED
    BY <2>1, CountOf
<1>3. TablesType'
  BY <1>1, <1>2 DEF TablesType, Numbers, Indices
<1>4. Numbers' = 0..(n - 1)
  BY <1>2 DEF Numbers
<1>5. tables'[t][i] = e
  OBVIOUS
<1>6. \A u \in 0..(n - 1) : u # t => tables'[u] = ts[u]
  OBVIOUS
<1>7. \A j \in Indices : j # i => tables'[t][j] = ts[t][j]
  OBVIOUS
<1> QED
  BY <1>2, <1>3, <1>4, <1>5, <1>6, <1>7 DEF Written

LEMMA SetFlagsType ==
  ASSUME NEW e \in EntryT, NEW flags, NEW b \in BOOLEAN
  PROVE  LET f == SetFlags(e, flags, b) IN
         f \in EntryT /\ f.present = e.present /\ f.ps = e.ps /\ f.addr = e.addr
  BY DEF SetFlags, EntryT

LEMMA MoreTypes ==
  /\ Absent \in EntryT /\ Absent.present = FALSE /\ FAN \in Nat /\ 0 \in Indices
  /\ Empty \in [Indices -> EntryT] /\ \A i \in Indices : Empty[i] = Absent
  /\ Garbage \in [Indices -> EntryT]
<1>1. Absent \in EntryT /\ Absent.present = FALSE
  BY DEF Absent, EntryT
<1>2. [Absent EXCEPT !.present = TRUE, !.addr = 0] \in EntryT
  BY DEF Absent, EntryT
<1> QED
  BY <1>1, <1>2, PagingAssumption DEF Empty, Garbage, Indices

-----------------------------------------------------------------------------
(* What clone_page_table_level has still to write of a table is whatever    *)
(* the memory held; the rest is settled.                                   *)
Settled(t, i) == \A k \in 1..Len(stack) : stack[k].new = t => i < stack[k].idx

(* Each table is of one level. The boot loader's are those below root and  *)
(* refer to each other; ours refer to later ones, no two to the same.      *)
BootTree(root, depth) ==
  \A t \in 0..(root - 1), i \in Indices : IsLink(tables[t][i], depth[t]) =>
    tables[t][i].addr \in 0..(root - 1) /\ depth[tables[t][i].addr] = depth[t] - 1

OwnTree(root, depth) ==
  \A t \in root..(NewTable - 1), i \in Indices :
    Settled(t, i) /\ IsLink(tables[t][i], depth[t]) =>
      /\ tables[t][i].addr \in (root + 1)..(NewTable - 1)
      /\ depth[tables[t][i].addr] = depth[t] - 1

OnceOnly(root, depth) ==
  \A t, u \in root..(NewTable - 1), i, j \in Indices :
    /\ Settled(t, i) /\ IsLink(tables[t][i], depth[t])
    /\ Settled(u, j) /\ IsLink(tables[u][j], depth[u])
    /\ tables[t][i].addr = tables[u][j].addr
    => t = u /\ i = j

Tree(root, depth) ==
  /\ root \in 0..NewTable /\ depth \in [Numbers -> 1..LEVELS]
  /\ BootTree(root, depth) /\ OwnTree(root, depth) /\ OnceOnly(root, depth)

(* A step that leaves the boot loader's tables alone, and of ours, whatever*)
(* else it changes, settles no link but one to a new table.                *)
LEMMA TreeStep ==
  ASSUME TablesType, TablesType', NEW root, NEW depth, Tree(root, depth),
         NEW d, d \in [Numbers' -> 1..LEVELS], NewTable <= NewTable',
         \A t \in Numbers : d[t] = depth[t],
         \A t \in 0..(root - 1) : tables'[t] = tables[t],
         NEW T, NEW I,
         \A t \in root..(NewTable' - 1), i \in Indices :
           Settled(t, i)' /\ IsLink(tables'[t][i], d[t]) =>
             \/ /\ t \in Numbers /\ Settled(t, i) /\ IsLink(tables[t][i], depth[t])
                /\ tables'[t][i].addr = tables[t][i].addr
             \/ /\ t = T /\ i = I /\ NewTable' = NewTable + 1 /\ root < NewTable
                /\ tables'[t][i].addr = NewTable /\ d[NewTable] = d[t] - 1
  PROVE  Tree(root, d)'
<1> DEFINE n == NewTable
           m == NewTable'
<1>1. /\ n \in Nat /\ m \in Nat /\ n <= m /\ root \in 0..n
      /\ Numbers = 0..(n - 1) /\ Numbers' = 0..(m - 1)
  BY DEF TablesType, Tree, Numbers
<1>2. BootTree(root, d)'
  <2>1. SUFFICES ASSUME NEW t \in 0..(root - 1), NEW i \in Indices, IsLink(tables'[t][i], d[t])
                 PROVE  /\ tables'[t][i].addr \in 0..(root - 1)
                        /\ d[tables'[t][i].addr] = d[t] - 1
    BY DEF BootTree, Indices
  <2>2. t \in Numbers /\ \A x \in 0..(root - 1) : x \in Numbers
    BY <1>1
  <2>3. tables'[t] = tables[t] /\ d[t] = depth[t]
    BY <2>2
  <2>4. tables[t][i].addr \in 0..(root - 1) /\ depth[tables[t][i].addr] = depth[t] - 1
    BY <2>1, <2>3 DEF Tree, BootTree
  <2> QED
    BY <2>2, <2>3, <2>4
<1>3. OwnTree(root, d)'
  <2>1. SUFFICES ASSUME NEW t \in root..(m - 1), NEW i \in Indices,
                        Settled(t, i)', IsLink(tables'[t][i], d[t])
                 PROVE  /\ tables'[t][i].addr \in (root + 1)..(m - 1)
                        /\ d[tables'[t][i].addr] = d[t] - 1
    BY DEF OwnTree, Indices
  <2>2. CASE /\ t \in Numbers /\ Settled(t, i) /\ IsLink(tables[t][i], depth[t])
             /\ tables'[t][i].addr = tables[t][i].addr
    <3>1. t \in root..(n - 1)
      BY <1>1, <2>2
    <3>2. /\ tables[t][i].addr \in (root + 1)..(n - 1)
          /\ depth[tables[t][i].addr] = depth[t] - 1
      BY <2>2, <3>1 DEF Tree, OwnTree
    <3> DEFINE x == tables[t][i].addr
    <3>3. x \in Numbers /\ x \in (root + 1)..(m - 1)
      BY <1>1, <3>2
    <3>4. d[x] = depth[x] /\ d[t] = depth[t]
      BY <2>2, <3>3
    <3>5. d[x] = d[t] - 1
      BY <3>2, <3>4
    <3> QED
      BY <2>2, <3>3, <3>5
  <2>3. CASE /\ t = T /\ i = I /\ NewTable' = NewTable + 1 /\ root < NewTable
             /\ tables'[t][i].addr = NewTable /\ d[NewTable] = d[t] - 1
    BY <1>1, <2>3
  <2> QED
    BY <2>1, <2>2, <2>3
<1>4. OnceOnly(root, d)'
  <2>1. SUFFICES ASSUME NEW t \in root..(m - 1), NEW i \in Indices,
                        NEW u \in root..(m - 1), NEW j \in Indices,
                        Settled(t, i)', IsLink(tables'[t][i], d[t]),
                        Settled(u, j)', IsLink(tables'[u][j], d[u]),
                        tables'[t][i].addr = tables'[u][j].addr
                 PROVE  t = u /\ i = j
    BY DEF OnceOnly, Indices
  <2> DEFINE Old(x, y) == /\ x \in Numbers /\ Settled(x, y) /\ IsLink(tables[x][y], depth[x])
                          /\ tables'[x][y].addr = tables[x][y].addr
             New(x, y) == x = T /\ y = I /\ tables'[x][y].addr = NewTable
  <2>2. (Old(t, i) \/ New(t, i)) /\ (Old(u, j) \/ New(u, j))
    BY <2>1
  <2>3. \A x \in root..(m - 1), y \in Indices : Old(x, y) =>
          x \in root..(n - 1) /\ tables'[x][y].addr # n
    <3>1. SUFFICES ASSUME NEW x \in root..(m - 1), NEW y \in Indices, Old(x, y)
                   PROVE  x \in root..(n - 1) /\ tables'[x][y].addr # n
      OBVIOUS
    <3>2. x \in root..(n - 1)
      BY <1>1, <3>1
    <3>3. tables[x][y].addr \in (root + 1)..(n - 1)
      BY <3>1, <3>2 DEF Tree, OwnTree
    <3> QED
      BY <1>1, <3>1, <3>2, <3>3
  <2>4. CASE Old(t, i) /\ Old(u, j)
    <3>1. t \in root..(n - 1) /\ u \in root..(n - 1)
      BY <2>3, <2>4
    <3> QED
      BY <2>1, <2>4, <3>1 DEF Tree, OnceOnly
  <2>5. CASE New(t, i) /\ New(u, j)
    BY <2>5
  <2>6. ~(Old(t, i) /\ New(u, j)) /\ ~(New(t, i) /\ Old(u, j))
    <3> HIDE DEF Old
    <3> QED
      BY <2>1, <2>3
  <2> QED
    BY <2>2, <2>4, <2>5, <2>6
<1>5. root \in 0..m
  BY <1>1
<1> QED
  BY <1>2, <1>3, <1>4, <1>5 DEF Tree

(* One that settles no link at all. *)
WasSettled(depth, t, i) ==
  /\ t \in Numbers /\ Settled(t, i) /\ IsLink(tables[t][i], depth[t])
  /\ tables'[t][i].addr = tables[t][i].addr

Kept(root, depth, d) ==
  /\ d \in [Numbers' -> 1..LEVELS] /\ NewTable <= NewTable'
  /\ \A t \in Numbers : d[t] = depth[t]
  /\ \A t \in 0..(root - 1) : tables'[t] = tables[t]
  /\ \A t \in root..(NewTable' - 1), i \in Indices :
       Settled(t, i)' /\ IsLink(tables'[t][i], d[t]) => WasSettled(depth, t, i)

LEMMA TreeKept ==
  ASSUME TablesType, TablesType', NEW root, NEW depth, Tree(root, depth),
         NEW d, Kept(root, depth, d)
  PROVE  Tree(root, d)'
<1> DEFINE T == 0
           I == 0
<1> HIDE DEF T, I
<1> QED
  BY TreeStep DEF Kept, WasSettled

(* One that settles the link I of T to a new table. *)
Grown(root, depth, d, T, I) ==
  /\ d \in [Numbers' -> 1..LEVELS] /\ NewTable' = NewTable + 1 /\ root < NewTable
  /\ \A t \in Numbers : d[t] = depth[t]
  /\ \A t \in 0..(root - 1) : tables'[t] = tables[t]
  /\ tables'[T][I].addr = NewTable /\ d[NewTable] = d[T] - 1
  /\ \A t \in root..(NewTable' - 1), i \in Indices :
       Settled(t, i)' /\ IsLink(tables'[t][i], d[t]) => WasSettled(depth, t, i) \/ (t = T /\ i = I)

LEMMA TreeGrown ==
  ASSUME TablesType, TablesType', NEW root, NEW depth, Tree(root, depth),
         NEW d, NEW T, NEW I, Grown(root, depth, d, T, I)
  PROVE  Tree(root, d)'
<1>1. NewTable <= NewTable'
  BY DEF Grown, TablesType
<1>2. ASSUME NEW t \in root..(NewTable' - 1), NEW i \in Indices,
             Settled(t, i)', IsLink(tables'[t][i], d[t])
      PROVE  \/ /\ t \in Numbers /\ Settled(t, i) /\ IsLink(tables[t][i], depth[t])
                /\ tables'[t][i].addr = tables[t][i].addr
             \/ /\ t = T /\ i = I /\ NewTable' = NewTable + 1 /\ root < NewTable
                /\ tables'[t][i].addr = NewTable /\ d[NewTable] = d[t] - 1
  BY <1>2 DEF Grown, WasSettled
<1>3. /\ d \in [Numbers' -> 1..LEVELS] /\ \A t \in Numbers : d[t] = depth[t]
      /\ \A t \in 0..(root - 1) : tables'[t] = tables[t]
  BY DEF Grown
<1> QED
  BY <1>1, <1>2, <1>3, TreeStep

-----------------------------------------------------------------------------
FrameT == [orig : Nat, new : Nat, level : 1..LEVELS, idx : 0..FAN]
CallT == [request : Requests, cur_level : 1..LEVELS, page_table : Nat]

(* The calls of clone_page_table_level each copy a table of the boot       *)
(* loader's to one of ours of the same level, no two to the same.          *)
Frames(root, depth) ==
  /\ stack \in Seq(FrameT)
  /\ \A k \in 1..Len(stack) :
       /\ stack[k].orig \in 0..(root - 1) /\ stack[k].new \in root..(NewTable - 1)
       /\ depth[stack[k].orig] = stack[k].level /\ depth[stack[k].new] = stack[k].level
       /\ \A m \in 1..Len(stack) : stack[k].new = stack[m].new => k = m

(* The outermost of them to the root, where cr3 is afterwards; and         *)
(* add_to_hhdm is at a table of ours of the level it thinks it is at.      *)
AtStage(root, depth) ==
  /\ stage \in {"boot", "clone", "idle", "add", "halted"}
  /\ stage = "boot" => root = NewTable /\ cr3 = 0 /\ 0 < NewTable /\ depth[0] = LEVELS
  /\ stage = "clone" <=> stack # <<>>
  /\ stage = "clone" => stack[Len(stack)].new = root /\ depth[root] = LEVELS /\ cr3 = 0
  /\ Running => cr3 = root /\ root < NewTable /\ depth[root] = LEVELS
  /\ stage = "add" =>
       /\ call \in CallT /\ call.page_table \in root..(NewTable - 1)
       /\ depth[call.page_table] = call.cur_level
       /\ request.granularity < call.cur_level

Holds(root, depth) == Tree(root, depth) /\ Frames(root, depth) /\ AtStage(root, depth)

PagingInv == TablesType /\ \E root, depth : Holds(root, depth)

(* A table more, of the level l. *)
DepthT(n) == [0..(n - 1) -> 1..LEVELS]
Deeper(n, depth, l, d) ==
  d \in [0..n -> 1..LEVELS] /\ d[n] = l /\ \A t \in 0..(n - 1) : d[t] = depth[t]

LEMMA OneDeeper ==
  ASSUME NEW n \in Nat, NEW depth \in DepthT(n), NEW l \in 1..LEVELS
  PROVE  \E d : Deeper(n, depth, l, d)
<1> DEFINE d == [t \in 0..n |-> IF t = n THEN l ELSE depth[t]]
<1>1. \A t \in 0..n : (IF t = n THEN l ELSE depth[t]) \in 1..LEVELS
  <2>1. \A t \in 0..n : t # n => t \in 0..(n - 1)
    OBVIOUS
  <2> QED
    BY <2>1 DEF DepthT
<1>2. d \in [0..n -> 1..LEVELS] /\ d[n] = l /\ \A t \in 0..(n - 1) : d[t] = depth[t]
  BY <1>1
<1> HIDE DEF d
<1>3. Deeper(n, depth, l, d)
  BY <1>2 DEF Deeper
<1> QED
  BY <1>3

LEMMA StartCloneStep ==
  ASSUME TablesType, NEW root, NEW depth, Holds(root, depth), StartClone,
         NEW d, Deeper(root, depth, LEVELS, d)
  PROVE  TablesType' /\ NewTable' = root + 1 /\ Holds(root, d)'
<1>1. /\ root \in Nat /\ NewTable = root /\ cr3 = 0 /\ 0 < root /\ depth[0] = LEVELS
      /\ stack = <<>> /\ Numbers = 0..(root - 1) /\ depth \in [0..(root - 1) -> 1..LEVELS]
  BY DEF StartClone, Holds, AtStage, TablesType, Tree, Numbers
<1>2. LEVELS \in 1..LEVELS /\ FAN \in Nat
  BY PagingAssumption
<1>3. /\ tables' = WithTable(Garbage) /\ stage' = "clone" /\ cr3' = 0
      /\ stack' = <<[orig |-> 0, new |-> root, level |-> LEVELS, idx |-> 0]>>
  BY <1>1 DEF StartClone
<1>4. /\ tables' \in [0..root -> [Indices -> EntryT]]
      /\ \A t \in Numbers : tables'[t] = tables[t]
  BY <1>1, <1>3, MoreTypes, Extended
<1>5. NewTable' = root + 1
  <2>1. DOMAIN tables' = 0..((root + 1) - 1) /\ root + 1 \in Nat
    BY <1>1, <1>4
  <2> QED
    BY <2>1, CountOf DEF NewTable
<1>6. TablesType' /\ Numbers' = 0..root
  BY <1>1, <1>4, <1>5 DEF TablesType, Numbers, Indices
<1>8. /\ d \in [0..root -> 1..LEVELS] /\ d[root] = LEVELS
      /\ \A t \in 0..(root - 1) : d[t] = depth[t]
  BY DEF Deeper
<1>9. Tree(root, d)'
  <2>1. ASSUME NEW t \in root..(NewTable' - 1), NEW i \in Indices PROVE ~Settled(t, i)'
    <3>1. t = root /\ 0 <= i
      BY <1>1, <1>5, <2>1, PagingAssumption DEF Indices
    <3>2. 1 \in 1..Len(stack') /\ stack'[1].new = root /\ stack'[1].idx = 0
      BY <1>3
    <3>3. ~(i < 0)
      BY <3>1, PagingAssumption DEF Indices
    <3> QED
      BY <3>1, <3>2, <3>3 DEF Settled
  <2>2. NewTable <= NewTable' /\ \A t \in 0..(root - 1) : t \in Numbers
    BY <1>1, <1>5
  <2>3. d \in [Numbers' -> 1..LEVELS] /\ \A t \in Numbers : d[t] = depth[t]
    BY <1>1, <1>6, <1>8
  <2>4. \A t \in 0..(root - 1) : tables'[t] = tables[t]
    BY <1>4, <2>2
  <2>5. Tree(root, depth)
    BY DEF Holds
  <2>6. Kept(root, depth, d)
    BY <2>1, <2>2, <2>3, <2>4 DEF Kept
  <2> QED
    BY <1>6, <2>5, <2>6, TreeKept
<1>10. Frames(root, d)' /\ stack' # <<>> /\ stack'[Len(stack')].new = root /\ d[root] = LEVELS
  <2>1. /\ Len(stack') = 1 /\ stack' \in Seq(FrameT)
        /\ stack'[1] = [orig |-> 0, new |-> root, level |-> LEVELS, idx |-> 0]
    BY <1>1, <1>2, <1>3 DEF FrameT
  <2>2. 0 \in 0..(root - 1) /\ root \in root..(NewTable' - 1) /\ d[0] = LEVELS
    BY <1>1, <1>5, <1>8
  <2>3. \A k \in 1..Len(stack') : k = 1
    BY <2>1
  <2>4. Frames(root, d)'
    BY <1>8, <2>1, <2>2, <2>3 DEF Frames
  <2> QED
    BY <1>3, <1>8, <2>1, <2>4
<1>11. AtStage(root, d)'
  BY <1>3, <1>10 DEF AtStage, Running
<1> QED
  BY <1>5, <1>6, <1>9, <1>10, <1>11 DEF Holds

-----------------------------------------------------------------------------
LEMMA AdvancedFacts ==
  ASSUME stack \in Seq(FrameT), stack # <<>>, Frame.idx < FAN
  PROVE  /\ Frame = stack[1] /\ Frame \in FrameT /\ Len(stack) \in Nat \ {0}
         /\ Advanced \in Seq(FrameT) /\ Len(Advanced) = Len(stack)
         /\ Advanced[1] = [stack[1] EXCEPT !.idx = @ + 1]
         /\ \A k \in 2..Len(stack) : Advanced[k] = stack[k]
<1>1. /\ Frame = stack[1] /\ Frame \in FrameT /\ Len(stack) \in Nat \ {0}
      /\ Tail(stack) \in Seq(FrameT) /\ Len(Tail(stack)) = Len(stack) - 1
      /\ \A k \in 1..(Len(stack) - 1) : Tail(stack)[k] = stack[k + 1]
  BY DEF Frame
<1> DEFINE f == [Frame EXCEPT !.idx = @ + 1]
<1>2. f \in FrameT
  <2>1. Frame.idx + 1 \in 0..FAN
    BY <1>1, PagingAssumption DEF FrameT
  <2> QED
    BY <1>1, <2>1 DEF FrameT
<1> HIDE DEF f
<1>3. <<f>> \in Seq(FrameT) /\ Len(<<f>>) = 1 /\ <<f>>[1] = f
  BY <1>2
<1>4. /\ <<f>> \o Tail(stack) \in Seq(FrameT) /\ Len(<<f>> \o Tail(stack)) = Len(stack)
      /\ (<<f>> \o Tail(stack))[1] = f
      /\ \A k \in 2..Len(stack) : (<<f>> \o Tail(stack))[k] = stack[k]
  BY <1>1, <1>3
<1>5. Advanced = <<f>> \o Tail(stack) /\ f = [stack[1] EXCEPT !.idx = @ + 1]
  BY <1>1 DEF Advanced, f
<1> QED
  BY <1>1, <1>4, <1>5

LEMMA FieldsOf ==
  ASSUME NEW f \in FrameT
  PROVE  LET g == [f EXCEPT !.idx = @ + 1] IN
         /\ g.orig = f.orig /\ g.new = f.new /\ g.level = f.level /\ g.idx = f.idx + 1
         /\ f.level \in 1..LEVELS /\ f.idx \in 0..FAN
  BY DEF FrameT

LEMMA AdvancedKeeps ==
  ASSUME stack \in Seq(FrameT), stack # <<>>, Frame.idx < FAN
  PROVE  \A k \in 1..Len(stack) :
           /\ Advanced[k].orig = stack[k].orig /\ Advanced[k].new = stack[k].new
           /\ Advanced[k].level = stack[k].level
<1>1. /\ Len(stack) \in Nat \ {0} /\ stack[1] \in FrameT
      /\ Advanced[1] = [stack[1] EXCEPT !.idx = @ + 1]
      /\ \A k \in 2..Len(stack) : Advanced[k] = stack[k]
  BY AdvancedFacts
<1>2. TAKE k \in 1..Len(stack)
<1>3. CASE k = 1
  BY <1>1, <1>3, FieldsOf
<1>4. CASE k # 1
  BY <1>1, <1>4
<1> QED
  BY <1>3, <1>4

(* After the step only the entry at hand is settled. *)
LEMMA AdvancedSettles ==
  ASSUME NEW root, NEW depth, Frames(root, depth), stack # <<>>, Frame.idx < FAN,
         NEW s, s = Advanced, NEW t, NEW i \in Indices,
         \A k \in 1..Len(s) : s[k].new = t => i < s[k].idx
  PROVE  Settled(t, i) \/ (t = Frame.new /\ i = Frame.idx)
<1>1. stack \in Seq(FrameT)
  BY DEF Frames
<1>2. /\ Frame = stack[1] /\ Frame \in FrameT /\ Len(stack) \in Nat \ {0} /\ Len(s) = Len(stack)
      /\ s[1] = [stack[1] EXCEPT !.idx = @ + 1] /\ \A k \in 2..Len(stack) : s[k] = stack[k]
  BY <1>1, AdvancedFacts
<1>3. s[1].new = Frame.new /\ s[1].idx = Frame.idx + 1 /\ Frame.idx \in 0..FAN
  BY <1>2, FieldsOf
<1>4. SUFFICES ASSUME ~(t = Frame.new /\ i = Frame.idx), NEW k \in 1..Len(stack), stack[k].new = t
               PROVE  i < stack[k].idx
  BY DEF Settled
<1>5. CASE k = 1
  <2>1. 1 \in 1..Len(s)
    BY <1>2
  <2>2. i < Frame.idx + 1 /\ i # Frame.idx
    BY <1>2, <1>3, <1>4, <1>5, <2>1
  <2>3. i \in Int /\ Frame.idx \in Int
    BY <1>3, PagingAssumption DEF Indices
  <2> QED
    BY <1>2, <1>5, <2>2, <2>3
<1>6. CASE k # 1
  BY <1>2, <1>4, <1>6
<1> QED
  BY <1>5, <1>6

LEMMA FrameFacts ==
  ASSUME TablesType, NEW root, NEW depth, Holds(root, depth), stack # <<>>, Frame.idx < FAN
  PROVE  /\ Frame.idx \in Indices /\ Frame.orig \in 0..(root - 1) /\ Frame.orig \in Numbers
         /\ Frame.new \in root..(NewTable - 1) /\ Frame.new \in Numbers
         /\ depth[Frame.orig] = Frame.level /\ depth[Frame.new] = Frame.level
         /\ Frame.level \in 1..LEVELS
         /\ OrigEntry \in EntryT /\ Recurses = IsLink(OrigEntry, Frame.level)
         /\ root \in Nat /\ root < NewTable
<1>1. stack \in Seq(FrameT) /\ root \in 0..NewTable /\ NewTable \in Nat
  BY DEF Holds, Frames, Tree, TablesType
<1>2. Frame = stack[1] /\ Frame \in FrameT /\ 1 \in 1..Len(stack)
  BY <1>1, AdvancedFacts
<1>3. /\ Frame.orig \in 0..(root - 1) /\ Frame.new \in root..(NewTable - 1)
      /\ depth[Frame.orig] = Frame.level /\ depth[Frame.new] = Frame.level
  BY <1>2 DEF Holds, Frames
<1>4. Frame.idx \in Indices /\ Frame.level \in 1..LEVELS
  BY <1>2, PagingAssumption DEF FrameT, Indices
<1>5. Frame.orig \in Numbers /\ Frame.new \in Numbers /\ root \in Nat /\ root < NewTable
  BY <1>1, <1>3 DEF Numbers
<1>6. OrigEntry \in EntryT
  BY <1>4, <1>5 DEF OrigEntry, TablesType
<1> QED
  BY <1>3, <1>4, <1>5, <1>6 DEF Recurses

LEMMA CloneEntryStep ==
  ASSUME TablesType, NEW root, NEW depth, Holds(root, depth), CloneEntry
  PROVE  TablesType' /\ NewTable' = NewTable /\ Holds(root, depth)'
<1>1. /\ stage = "clone" /\ stack # <<>> /\ Frame.idx < FAN /\ ~Recurses
      /\ tables' = [tables EXCEPT ![Frame.new][Frame.idx] = OrigEntry]
      /\ stack' = Advanced /\ UNCHANGED <<cr3, stage, call, added>>
  BY DEF CloneEntry
<1>2. /\ Frame.idx \in Indices /\ Frame.orig \in 0..(root - 1)
      /\ Frame.new \in root..(NewTable - 1) /\ Frame.new \in Numbers
      /\ depth[Frame.new] = Frame.level /\ OrigEntry \in EntryT
      /\ ~IsLink(OrigEntry, Frame.level) /\ root \in Nat /\ root < NewTable
  BY <1>1, FrameFacts
<1>3. NewTable \in Nat /\ tables \in [0..(NewTable - 1) -> [Indices -> EntryT]]
  BY DEF TablesType, Numbers
<1>4. /\ TablesType' /\ NewTable' = NewTable /\ tables'[Frame.new][Frame.idx] = OrigEntry
      /\ \A u \in Numbers : u # Frame.new => tables'[u] = tables[u]
      /\ \A j \in Indices : j # Frame.idx => tables'[Frame.new][j] = tables[Frame.new][j]
      /\ Numbers' = Numbers
  <2>1. TheTables(NewTable, tables) /\ Write(NewTable, Frame.new, Frame.idx, OrigEntry)
    BY <1>2, <1>3 DEF TheTables, Write, Numbers
  <2>2. Written(NewTable, tables, Frame.new, Frame.idx, OrigEntry)
    BY <1>1, <2>1, Updated, Zenon
  <2> QED
    BY <2>2 DEF Written, Numbers
<1>6. Kept(root, depth, depth)
  <2>1. ASSUME NEW t \in root..(NewTable' - 1), NEW i \in Indices,
               Settled(t, i)', IsLink(tables'[t][i], depth[t])
        PROVE  WasSettled(depth, t, i)
    <3>1. t \in Numbers
      BY <1>2, <1>4, <2>1 DEF Numbers
    <3>2. ~(t = Frame.new /\ i = Frame.idx)
      BY <1>2, <1>4, <2>1
    <3>3. tables'[t][i] = tables[t][i]
      BY <1>4, <3>1, <3>2
    <3>4. Settled(t, i)
      <4>1. \A k \in 1..Len(stack') : stack'[k].new = t => i < stack'[k].idx
        BY <2>1 DEF Settled
      <4> QED
        BY <1>1, <3>2, <4>1, AdvancedSettles DEF Holds
    <3> QED
      BY <2>1, <3>1, <3>3, <3>4 DEF WasSettled
  <2>2. \A t \in 0..(root - 1) : t \in Numbers /\ t # Frame.new
    BY <1>2, <1>3 DEF Numbers
  <2>3. depth \in [Numbers -> 1..LEVELS]
    BY DEF Holds, Tree
  <2> QED
    BY <1>3, <1>4, <2>1, <2>2, <2>3 DEF Kept
<1>7. Tree(root, depth)'
  BY <1>4, <1>6, TreeKept DEF Holds
<1>8. Frames(root, depth)' /\ stack' # <<>> /\ stack'[Len(stack')].new = stack[Len(stack)].new
  <2>1. stack \in Seq(FrameT)
    BY DEF Holds, Frames
  <2>2. /\ Len(stack) \in Nat \ {0} /\ stack' \in Seq(FrameT) /\ Len(stack') = Len(stack)
        /\ stack'[1] = [stack[1] EXCEPT !.idx = @ + 1] /\ stack[1] \in FrameT
        /\ \A k \in 2..Len(stack) : stack'[k] = stack[k]
    BY <1>1, <2>1, AdvancedFacts
  <2>3. \A k \in 1..Len(stack) :
          /\ stack'[k].orig = stack[k].orig /\ stack'[k].new = stack[k].new
          /\ stack'[k].level = stack[k].level
    BY <1>1, <2>1, AdvancedKeeps
  <2>4. Frames(root, depth)'
    BY <1>4, <2>2, <2>3 DEF Holds, Frames
  <2> QED
    BY <2>2, <2>3, <2>4
<1>9. AtStage(root, depth)'
  BY <1>1, <1>8 DEF Holds, AtStage, Running
<1> QED
  BY <1>4, <1>7, <1>8, <1>9 DEF Holds

LEMMA CloneTableStep ==
  ASSUME TablesType, NEW root, NEW depth, Holds(root, depth), CloneTable,
         NEW d, Deeper(NewTable, depth, Frame.level - 1, d)
  PROVE  TablesType' /\ NewTable' = NewTable + 1 /\ Holds(root, d)'
<1> DEFINE inner == [orig |-> OrigEntry.addr, new |-> NewTable,
                     level |-> Frame.level - 1, idx |-> 0]
           link == [OrigEntry EXCEPT !.addr = NewTable]
<1>1. /\ stage = "clone" /\ stack # <<>> /\ Frame.idx < FAN /\ Recurses
      /\ tables' = [WithTable(Garbage) EXCEPT ![Frame.new][Frame.idx] = link]
      /\ stack' = <<inner>> \o Advanced /\ UNCHANGED <<cr3, stage, call, added>>
  BY DEF CloneTable
<1>2. /\ Frame.idx \in Indices /\ Frame.orig \in 0..(root - 1)
      /\ Frame.new \in root..(NewTable - 1) /\ Frame.new \in Numbers
      /\ depth[Frame.orig] = Frame.level /\ depth[Frame.new] = Frame.level
      /\ OrigEntry \in EntryT /\ Frame.level \in 1..LEVELS
      /\ IsLink(OrigEntry, Frame.level) /\ root \in Nat /\ root < NewTable
  BY <1>1, FrameFacts
<1>3. NewTable \in Nat /\ Numbers = 0..(NewTable - 1) /\ depth \in [Numbers -> 1..LEVELS]
  BY DEF TablesType, Numbers, Holds, Tree
<1>4. /\ Frame.level - 1 \in 1..LEVELS /\ OrigEntry.addr \in 0..(root - 1)
      /\ depth[OrigEntry.addr] = Frame.level - 1
  <2>1. Frame.level > 1 /\ LEVELS \in Nat
    BY <1>2, PagingAssumption DEF IsLink
  <2>2. OrigEntry.addr \in 0..(root - 1) /\ depth[OrigEntry.addr] = depth[Frame.orig] - 1
    BY <1>2 DEF Holds, Tree, BootTree, OrigEntry
  <2> QED
    BY <1>2, <2>1, <2>2
<1>6. /\ d \in [0..NewTable -> 1..LEVELS] /\ d[NewTable] = Frame.level - 1
      /\ \A t \in Numbers : d[t] = depth[t]
  BY <1>3 DEF Deeper
<1> HIDE DEF link
<1>7. /\ TablesType' /\ NewTable' = NewTable + 1 /\ Numbers' = 0..NewTable
      /\ tables'[Frame.new][Frame.idx] = link
      /\ \A u \in Numbers : u # Frame.new => tables'[u] = tables[u]
      /\ \A j \in Indices : j # Frame.idx => tables'[Frame.new][j] = tables[Frame.new][j]
  <2>1. /\ WithTable(Garbage) \in [0..NewTable -> [Indices -> EntryT]]
        /\ \A t \in Numbers : WithTable(Garbage)[t] = tables[t]
    BY MoreTypes, Extended
  <2>2. link \in EntryT
    BY <1>2, <1>3 DEF EntryT, link
  <2>3. PICK n : n = NewTable + 1 /\ n \in Nat /\ n - 1 = NewTable
    BY <1>3
  <2>4. TheTables(n, WithTable(Garbage))
    BY <2>1, <2>3 DEF TheTables
  <2>5. Write(n, Frame.new, Frame.idx, link)
    BY <1>2, <1>3, <2>2, <2>3 DEF Write
  <2>6. Written(n, WithTable(Garbage), Frame.new, Frame.idx, link)
    BY <1>1, <2>4, <2>5, Updated, Zenon
  <2>7. \A u \in Numbers : u \in 0..(n - 1)
    BY <1>3, <2>3
  <2> QED
    BY <1>2, <2>1, <2>3, <2>6, <2>7 DEF Written
<1>7a. \A t \in 0..(root - 1) : t \in Numbers
  <2>1. root \in Nat /\ root < NewTable
    BY <1>2
  <2> QED
    BY <1>3, <2>1
<1>7b. \A t \in root..(NewTable - 1) : t \in Numbers
  <2>1. root \in Nat
    BY <1>2
  <2> QED
    BY <1>3, <2>1
<1>8. stack \in Seq(FrameT)
  BY DEF Holds, Frames
<1>9. /\ Len(stack) \in Nat \ {0} /\ Advanced \in Seq(FrameT) /\ Len(Advanced) = Len(stack)
      /\ \A k \in 1..Len(stack) :
           /\ Advanced[k].orig = stack[k].orig /\ Advanced[k].new = stack[k].new
           /\ Advanced[k].level = stack[k].level
  BY <1>1, <1>8, AdvancedFacts, AdvancedKeeps
<1>10. /\ stack' \in Seq(FrameT) /\ Len(stack') = Len(stack) + 1 /\ stack'[1] = inner
       /\ \A k \in 1..Len(stack) : stack'[k + 1] = Advanced[k]
  <2>1. inner \in FrameT
    BY <1>2, <1>3, <1>4, PagingAssumption DEF FrameT
  <2> HIDE DEF inner
  <2> QED
    BY <1>1, <1>9, <2>1
<1>11. Grown(root, depth, d, Frame.new, Frame.idx)
  <2>1. ASSUME NEW t \in root..(NewTable' - 1), NEW i \in Indices,
               Settled(t, i)', IsLink(tables'[t][i], d[t])
        PROVE  WasSettled(depth, t, i) \/ (t = Frame.new /\ i = Frame.idx)
    <3>1. t \in Numbers
      <4>1. t # NewTable
        <5>1. 1 \in 1..Len(stack') /\ stack'[1].new = NewTable /\ stack'[1].idx = 0
          BY <1>9, <1>10
        <5>2. ~(i < 0)
          BY PagingAssumption DEF Indices
        <5> QED
          BY <2>1, <5>1, <5>2 DEF Settled
      <4> QED
        BY <1>2, <1>3, <1>7, <4>1
    <3>2. SUFFICES ASSUME ~(t = Frame.new /\ i = Frame.idx) PROVE WasSettled(depth, t, i)
      OBVIOUS
    <3>3. tables'[t][i] = tables[t][i]
      BY <1>7, <3>1, <3>2
    <3>4. Settled(t, i)
      <4>1. \A k \in 1..Len(Advanced) : Advanced[k].new = t => i < Advanced[k].idx
        <5>1. TAKE k \in 1..Len(Advanced)
        <5>2. k \in 1..Len(stack) /\ k + 1 \in 1..Len(stack')
          BY <1>9, <1>10
        <5> QED
          BY <1>10, <2>1, <5>2 DEF Settled
      <4> QED
        BY <1>1, <3>2, <4>1, AdvancedSettles DEF Holds
    <3> QED
      BY <1>6, <2>1, <3>1, <3>3, <3>4 DEF WasSettled
  <2>2. \A t \in 0..(root - 1) : t \in Numbers /\ t # Frame.new
    BY <1>2, <1>3
  <2>3. tables'[Frame.new][Frame.idx].addr = NewTable
    BY <1>2, <1>7 DEF link, EntryT
  <2>4. d[NewTable] = d[Frame.new] - 1
    BY <1>2, <1>6
  <2> QED
    BY <1>2, <1>6, <1>7, <2>1, <2>2, <2>3, <2>4 DEF Grown
<1>12. Tree(root, d)'
  BY <1>7, <1>11, TreeGrown DEF Holds
<1>13. Frames(root, d)'
  <2>1. ASSUME NEW k \in 1..Len(stack')
        PROVE  /\ stack'[k].orig \in 0..(root - 1) /\ stack'[k].new \in root..(NewTable' - 1)
               /\ d[stack'[k].orig] = stack'[k].level /\ d[stack'[k].new] = stack'[k].level
               /\ k = 1 \/ stack'[k].new # NewTable
    <3>1. CASE k = 1
      <4>1. d[OrigEntry.addr] = Frame.level - 1
        <5>1. OrigEntry.addr \in Numbers
          BY <1>4, <1>7a
        <5> QED
          BY <1>4, <1>6, <5>1
      <4>2. /\ stack'[k].orig = OrigEntry.addr /\ stack'[k].new = NewTable
            /\ stack'[k].level = Frame.level - 1
        BY <1>10, <3>1
      <4>3. NewTable \in root..(NewTable' - 1)
        BY <1>2, <1>3, <1>7
      <4> QED
        BY <1>4, <1>6, <3>1, <4>1, <4>2, <4>3
    <3>2. CASE k # 1
      <4>1. PICK m \in 1..Len(stack) : k = m + 1
        <5>1. k - 1 \in 1..Len(stack) /\ k = (k - 1) + 1
          BY <1>9, <1>10, <3>2
        <5> QED
          BY <5>1
      <4>2. /\ stack'[k].orig = stack[m].orig /\ stack'[k].new = stack[m].new
            /\ stack'[k].level = stack[m].level
        BY <1>9, <1>10, <4>1
      <4>3. /\ stack[m].orig \in 0..(root - 1) /\ stack[m].new \in root..(NewTable - 1)
            /\ depth[stack[m].orig] = stack[m].level /\ depth[stack[m].new] = stack[m].level
        BY DEF Holds, Frames
      <4>4. stack[m].orig \in Numbers /\ stack[m].new \in Numbers
        BY <1>7a, <1>7b, <4>3
      <4>5. stack[m].new \in root..(NewTable' - 1) /\ stack[m].new # NewTable
        <5>1. \A n \in Nat : \A x \in root..(n - 1) : x \in root..((n + 1) - 1) /\ x # n
          BY <1>2
        <5> QED
          BY <1>3, <1>7, <4>3, <5>1
      <4>6. d[stack[m].orig] = depth[stack[m].orig] /\ d[stack[m].new] = depth[stack[m].new]
        BY <1>6, <4>4
      <4>7. d[stack'[k].orig] = stack'[k].level /\ d[stack'[k].new] = stack'[k].level
        BY <4>2, <4>3, <4>6
      <4> QED
        BY <4>2, <4>3, <4>5, <4>7
    <3> QED
      BY <3>1, <3>2
  <2>2. ASSUME NEW k \in 1..Len(stack'), NEW m \in 1..Len(stack'), stack'[k].new = stack'[m].new
        PROVE  k = m
    <3>1. CASE k = 1 \/ m = 1
      <4>1. stack'[1].new = NewTable
        BY <1>10
      <4> QED
        BY <2>1, <2>2, <3>1, <4>1
    <3>2. CASE k # 1 /\ m # 1
      <4>1. k - 1 \in 1..Len(stack) /\ m - 1 \in 1..Len(stack)
            /\ k = (k - 1) + 1 /\ m = (m - 1) + 1
        BY <1>9, <1>10, <3>2
      <4>2. stack[k - 1].new = stack[m - 1].new
        <5>1. \A i \in 1..Len(stack) : stack'[i + 1].new = stack[i].new
          BY <1>9, <1>10
        <5>2. stack'[k].new = stack[k - 1].new /\ stack'[m].new = stack[m - 1].new
          BY <4>1, <5>1
        <5> QED
          BY <2>2, <5>2
      <4>3. \A i, j \in 1..Len(stack) : stack[i].new = stack[j].new => i = j
        <5>1. Frames(root, depth)
          BY DEF Holds
        <5> QED
          BY <5>1, Zenon DEF Frames
      <4>4. k - 1 = m - 1
        BY <4>1, <4>2, <4>3
      <4> QED
        BY <4>1, <4>4
    <3> QED
      BY <3>1, <3>2
  <2> QED
    BY <1>10, <2>1, <2>2 DEF Frames
<1>14. stack' # <<>> /\ stack'[Len(stack')].new = root /\ d[root] = LEVELS /\ cr3 = 0
  <2>1. stack[Len(stack)].new = root /\ depth[root] = LEVELS /\ cr3 = 0
    BY <1>1 DEF Holds, AtStage
  <2>2. Len(stack) \in 1..Len(stack) /\ root \in Numbers
    BY <1>2, <1>3, <1>9
  <2>3. stack' # <<>> /\ stack'[Len(stack')].new = stack[Len(stack)].new
    BY <1>9, <1>10, <2>2
  <2> QED
    BY <1>6, <2>1, <2>2, <2>3
<1>15. AtStage(root, d)'
  BY <1>1, <1>14 DEF AtStage, Running
<1> QED
  BY <1>7, <1>12, <1>13, <1>15 DEF Holds

LEMMA CloneReturnStep ==
  ASSUME TablesType, NEW root, NEW depth, Holds(root, depth), CloneReturn
  PROVE  TablesType' /\ NewTable' = NewTable /\ Holds(root, depth)'
<1>1. /\ stage = "clone" /\ stack # <<>> /\ Frame.idx = FAN /\ stack' = Tail(stack)
      /\ UNCHANGED <<tables, call, added>>
      /\ IF Tail(stack) = <<>>
         THEN cr3' = Frame.new /\ stage' = "idle"
         ELSE UNCHANGED <<cr3, stage>>
  BY DEF CloneReturn
<1>2. stack \in Seq(FrameT)
  BY DEF Holds, Frames
<1>3. /\ Frame = stack[1] /\ Len(stack) \in Nat \ {0}
      /\ stack' \in Seq(FrameT) /\ Len(stack') = Len(stack) - 1
      /\ \A k \in 1..(Len(stack) - 1) : stack'[k] = stack[k + 1]
  BY <1>1, <1>2 DEF Frame
<1>4. TablesType' /\ NewTable' = NewTable /\ Numbers' = Numbers
  BY <1>1 DEF TablesType, NewTable, Numbers
<1>5. NewTable \in Nat /\ root \in 0..NewTable /\ depth \in [Numbers -> 1..LEVELS]
  BY DEF TablesType, Holds, Tree
<1>6. Kept(root, depth, depth)
  <2>1. ASSUME NEW t \in root..(NewTable' - 1), NEW i \in Indices,
               Settled(t, i)', IsLink(tables'[t][i], depth[t])
        PROVE  WasSettled(depth, t, i)
    <3>1. ASSUME NEW k \in 1..Len(stack), stack[k].new = t PROVE i < stack[k].idx
      <4>1. CASE k = 1
        BY <1>1, <1>3, <4>1, PagingAssumption DEF Indices
      <4>2. CASE k # 1
        <5>1. k - 1 \in 1..(Len(stack) - 1) /\ k = (k - 1) + 1
          BY <1>3, <4>2
        <5> QED
          BY <1>3, <2>1, <3>1, <5>1 DEF Settled
      <4> QED
        BY <4>1, <4>2
    <3>2. t \in Numbers
      BY <1>4, <1>5, <2>1 DEF Numbers
    <3> QED
      BY <1>1, <2>1, <3>1, <3>2 DEF WasSettled, Settled
  <2> QED
    BY <1>1, <1>4, <1>5, <2>1 DEF Kept
<1>7. Tree(root, depth)'
  BY <1>4, <1>6, TreeKept DEF Holds
<1>8. Frames(root, depth)'
  <2>1. \A k \in 1..Len(stack') : k \in 1..(Len(stack) - 1) /\ k + 1 \in 1..Len(stack)
    BY <1>3
  <2>2. \A k, m \in 1..Len(stack') : k + 1 = m + 1 => k = m
    BY <1>3
  <2>3. ASSUME NEW k \in 1..Len(stack')
        PROVE  /\ stack'[k].orig \in 0..(root - 1) /\ stack'[k].new \in root..(NewTable' - 1)
               /\ depth[stack'[k].orig] = stack'[k].level /\ depth[stack'[k].new] = stack'[k].level
               /\ \A m \in 1..Len(stack') : stack'[k].new = stack'[m].new => k = m
    <3>1. stack'[k] = stack[k + 1] /\ k + 1 \in 1..Len(stack)
      BY <1>3, <2>1
    <3>2. \A m \in 1..Len(stack') : stack'[m] = stack[m + 1] /\ m + 1 \in 1..Len(stack)
      BY <1>3, <2>1
    <3>3. /\ stack[k + 1].orig \in 0..(root - 1) /\ stack[k + 1].new \in root..(NewTable - 1)
          /\ depth[stack[k + 1].orig] = stack[k + 1].level
          /\ depth[stack[k + 1].new] = stack[k + 1].level
          /\ \A m \in 1..Len(stack) : stack[k + 1].new = stack[m].new => k + 1 = m
      BY <3>1 DEF Holds, Frames
    <3> QED
      BY <1>4, <2>2, <3>1, <3>2, <3>3
  <2> QED
    BY <1>3, <2>3 DEF Frames
<1>9. stack[Len(stack)].new = root /\ depth[root] = LEVELS /\ cr3 = 0
  BY <1>1 DEF Holds, AtStage
<1>10. AtStage(root, depth)'
  <2>1. CASE Tail(stack) = <<>>
    <3>1. Len(stack) = 1
      BY <1>1, <1>3, <2>1
    <3>2. Frame.new = root
      BY <1>3, <1>9, <3>1
    <3>3. Frame.new \in root..(NewTable - 1)
      BY <1>3, <3>1 DEF Holds, Frames
    <3>4. root < NewTable
      BY <1>5, <3>2, <3>3
    <3> QED
      BY <1>1, <1>4, <1>9, <2>1, <3>2, <3>4 DEF AtStage, Running
  <2>2. CASE Tail(stack) # <<>>
    <3>1. Len(stack) - 1 \in 1..(Len(stack) - 1) /\ (Len(stack) - 1) + 1 = Len(stack)
      BY <1>1, <1>3, <2>2
    <3>2. stack'[Len(stack')].new = root
      BY <1>3, <1>9, <3>1
    <3> QED
      BY <1>1, <1>9, <2>2, <3>2 DEF AtStage, Running
  <2> QED
    BY <2>1, <2>2
<1> QED
  BY <1>4, <1>7, <1>8, <1>10 DEF Holds

-----------------------------------------------------------------------------
(* add_to_hhdm. With no call of clone_page_table_level all is settled.     *)
LEMMA AllSettled ==
  ASSUME stack = <<>> PROVE \A t, i : Settled(t, i)
<1>1. Len(stack) = 0
  OBVIOUS
<1> QED
  BY <1>1 DEF Settled

AtEntry(root, depth) ==
  /\ root \in Nat /\ NewTable \in Nat /\ root < NewTable /\ stack = <<>> /\ stage = "add"
  /\ call \in CallT /\ call.page_table \in root..(NewTable - 1) /\ call.page_table \in Numbers
  /\ depth \in [Numbers -> 1..LEVELS] /\ depth[call.page_table] = call.cur_level
  /\ entry_idx \in Indices /\ entry \in EntryT
  /\ call.cur_level \in 1..LEVELS /\ request.granularity \in Nat
  /\ request.granularity < call.cur_level

LEMMA EntryFacts ==
  ASSUME TablesType, NEW root, NEW depth, Holds(root, depth), stage = "add"
  PROVE  AtEntry(root, depth)
<1>1. /\ root \in Nat /\ NewTable \in Nat /\ root < NewTable /\ stack = <<>>
      /\ call \in CallT /\ call.page_table \in root..(NewTable - 1)
      /\ depth \in [Numbers -> 1..LEVELS] /\ depth[call.page_table] = call.cur_level
      /\ request.granularity < call.cur_level
  BY DEF Holds, Tree, AtStage, Running, TablesType
<1>2. call.page_table \in Numbers
  BY <1>1 DEF Numbers
<1>3. request.page \in Nat /\ request.granularity \in Nat /\ call.cur_level \in 1..LEVELS
  <2>1. request.page \in Pages
    BY <1>1, RequestsAssumption DEF CallT, request
  <2>2. request.page \in Nat
    BY <2>1 DEF Pages
  <2> QED
    BY <1>1, <2>2, RequestsAssumption, PagingAssumption DEF CallT, request
<1>4. entry_idx \in Indices
  <2>1. call.cur_level \in Nat
    BY <1>3, PagingAssumption
  <2>2. Index(request.page, call.cur_level) \in 0..(FAN - 1)
    BY <1>3, <2>1, IndexInTable, Zenon
  <2> QED
    BY <2>2 DEF entry_idx, Indices
<1>5. entry \in EntryT
  BY <1>2, <1>4 DEF entry, TablesType
<1> QED
  BY <1>1, <1>2, <1>3, <1>4, <1>5 DEF AtEntry

(* All that changes is one entry. *)
OnlyEntry(T, I, e) ==
  /\ tables'[T][I] = e
  /\ \A u \in Numbers : u # T => tables'[u] = tables[u]
  /\ \A j \in Indices : j # I => tables'[T][j] = tables[T][j]

LEMMA EntryWritten ==
  ASSUME TablesType, NEW root, NEW depth, AtEntry(root, depth), NEW e \in EntryT, SetEntry(e)
  PROVE  /\ TablesType' /\ NewTable' = NewTable /\ Numbers' = Numbers
         /\ OnlyEntry(call.page_table, entry_idx, e)
<1>1. /\ NewTable \in Nat /\ call.page_table \in Numbers /\ entry_idx \in Indices
  BY DEF AtEntry
<1>2. Written(NewTable, tables, call.page_table, entry_idx, e)
  <2>1. TheTables(NewTable, tables)
    BY <1>1 DEF TablesType, Numbers, TheTables
  <2>2. Write(NewTable, call.page_table, entry_idx, e)
    BY <1>1 DEF Numbers, Write
  <2>3. tables' = [tables EXCEPT ![call.page_table][entry_idx] = e]
    BY DEF SetEntry
  <2> QED
    BY <2>1, <2>2, <2>3, Updated, Zenon
<1> QED
  BY <1>2 DEF Written, Numbers, OnlyEntry

(* An entry is set that is no more of a link than it was. *)
LEMMA SetEntryKeeps ==
  ASSUME TablesType, NEW root, NEW depth, Holds(root, depth), AtEntry(root, depth),
         NEW e \in EntryT, SetEntry(e), UNCHANGED stack,
         IsLink(e, call.cur_level) => IsLink(entry, call.cur_level) /\ e.addr = entry.addr
  PROVE  /\ TablesType' /\ NewTable' = NewTable /\ Numbers' = Numbers
         /\ Tree(root, depth)' /\ Frames(root, depth)'
<1>1. /\ root \in Nat /\ NewTable \in Nat /\ root < NewTable /\ stack = <<>>
      /\ call.page_table \in root..(NewTable - 1) /\ call.page_table \in Numbers
      /\ depth \in [Numbers -> 1..LEVELS] /\ depth[call.page_table] = call.cur_level
      /\ entry_idx \in Indices
  BY DEF AtEntry
<1>3. /\ TablesType' /\ NewTable' = NewTable /\ Numbers' = Numbers
      /\ tables'[call.page_table][entry_idx] = e
      /\ \A u \in Numbers : u # call.page_table => tables'[u] = tables[u]
      /\ \A j \in Indices : j # entry_idx => tables'[call.page_table][j] = tables[call.page_table][j]
  BY EntryWritten DEF OnlyEntry
<1>4. Kept(root, depth, depth)
  <2>1. ASSUME NEW t \in root..(NewTable' - 1), NEW i \in Indices, IsLink(tables'[t][i], depth[t])
        PROVE  WasSettled(depth, t, i)
    <3>1. t \in Numbers /\ Settled(t, i)
      BY <1>1, <1>3, <2>1, AllSettled DEF Numbers
    <3>2. CASE t = call.page_table /\ i = entry_idx
      BY <1>1, <1>3, <2>1, <3>1, <3>2 DEF WasSettled, entry
    <3>3. CASE ~(t = call.page_table /\ i = entry_idx)
      <4>1. tables'[t][i] = tables[t][i]
        BY <1>3, <3>1, <3>3
      <4> QED
        BY <2>1, <3>1, <4>1 DEF WasSettled
    <3> QED
      BY <3>2, <3>3
  <2>2. \A t \in 0..(root - 1) : t \in Numbers /\ t # call.page_table
    BY <1>1 DEF Numbers
  <2> QED
    BY <1>1, <1>3, <2>1, <2>2 DEF Kept
<1>5. Tree(root, depth)'
  BY <1>3, <1>4, TreeKept DEF Holds
<1>6. Frames(root, depth)'
  <2>1. Len(stack') = 0 /\ stack' \in Seq(FrameT)
    BY <1>1
  <2> QED
    BY <2>1 DEF Frames
<1> QED
  BY <1>3, <1>5, <1>6

LEMMA TreeSame ==
  ASSUME NEW root, NEW depth, Tree(root, depth), Frames(root, depth), UNCHANGED <<tables, stack>>
  PROVE  Tree(root, depth)' /\ Frames(root, depth)'
<1>1. NewTable' = NewTable /\ Numbers' = Numbers
  BY DEF NewTable, Numbers
<1>2. \A t, i : Settled(t, i)' = Settled(t, i)
  BY DEF Settled
<1>3. BootTree(root, depth)'
  BY DEF Tree, BootTree
<1>4. OwnTree(root, depth)'
  BY <1>1, <1>2 DEF Tree, OwnTree
<1>5. OnceOnly(root, depth)'
  BY <1>1, <1>2 DEF Tree, OnceOnly
<1>6. Frames(root, depth)'
  BY <1>1 DEF Frames
<1> QED
  BY <1>1, <1>3, <1>4, <1>5, <1>6 DEF Tree

LEMMA AddStarts ==
  ASSUME TablesType, NEW root, NEW depth, Holds(root, depth), NEW r \in Requests, Add(r)
  PROVE  TablesType' /\ NewTable' = NewTable /\ Holds(root, depth)'
<1>1. /\ stage = "idle" /\ stage' = "add" /\ UNCHANGED <<tables, cr3, stack, added>>
      /\ call' = [request |-> r, cur_level |-> LEVELS, page_table |-> cr3]
  BY DEF Add
<1>2. TablesType' /\ NewTable' = NewTable /\ Numbers' = Numbers
  BY <1>1 DEF TablesType, NewTable, Numbers
<1>3. Tree(root, depth)' /\ Frames(root, depth)'
  BY <1>1, TreeSame DEF Holds
<1>4. /\ cr3 = root /\ root < NewTable /\ depth[root] = LEVELS /\ stack = <<>>
      /\ root \in Nat /\ NewTable \in Nat
  BY <1>1 DEF Holds, AtStage, Running, Tree, TablesType
<1>5. /\ call' \in CallT /\ call'.page_table = root /\ call'.cur_level = LEVELS
      /\ call'.request.granularity < LEVELS
  BY <1>1, <1>4, RequestsAssumption, PagingAssumption DEF CallT
<1>6. AtStage(root, depth)'
  BY <1>1, <1>2, <1>4, <1>5 DEF AtStage, Running, request
<1> QED
  BY <1>2, <1>3, <1>6 DEF Holds

(* A request that is served, whatever its entry was set to. *)
LEMMA ReturnHolds ==
  ASSUME NEW root, NEW depth, Holds(root, depth), stage = "add", stage' = "idle",
         UNCHANGED <<cr3, stack>>, NewTable' = NewTable
  PROVE  AtStage(root, depth)'
  BY DEF Holds, AtStage, Running

LEMMA AddPresentStep ==
  ASSUME TablesType, NEW root, NEW depth, Holds(root, depth), AddPresent
  PROVE  TablesType' /\ NewTable' = NewTable /\ Holds(root, depth)'
<1> DEFINE e == SetFlags(entry, request.flags, FALSE)
<1>1. SetEntry(e) /\ stage = "add" /\ stage' = "idle" /\ UNCHANGED <<cr3, stack>>
  BY DEF AddPresent, Return
<1>2. AtEntry(root, depth) /\ entry \in EntryT
  BY <1>1, EntryFacts DEF AtEntry
<1>3. e \in EntryT /\ e.present = entry.present /\ e.ps = entry.ps /\ e.addr = entry.addr
  BY <1>2, SetFlagsType
<1> HIDE DEF e
<1>4. TablesType' /\ NewTable' = NewTable /\ Tree(root, depth)' /\ Frames(root, depth)'
  BY <1>1, <1>2, <1>3, SetEntryKeeps DEF IsLink
<1>5. AtStage(root, depth)'
  BY <1>1, <1>4, ReturnHolds
<1> QED
  BY <1>4, <1>5 DEF Holds

LEMMA AddDescendStep ==
  ASSUME TablesType, NEW root, NEW depth, Holds(root, depth), AddDescend
  PROVE  TablesType' /\ NewTable' = NewTable /\ Holds(root, depth)'
<1> DEFINE e == SetFlags(entry, request.flags, TRUE)
<1>1. /\ SetEntry(e) /\ stage = "add" /\ entry.present
      /\ call.cur_level # request.granularity + 1 /\ call.cur_level > 1 /\ ~entry.ps
      /\ call' = [call EXCEPT !.cur_level = @ - 1, !.page_table = entry.addr]
      /\ UNCHANGED <<cr3, stack, stage, added>>
  BY DEF AddDescend, level_matches_granularity, can_descend
<1>2. AtEntry(root, depth) /\ entry \in EntryT
  BY <1>1, EntryFacts DEF AtEntry
<1>3. e \in EntryT /\ e.present = entry.present /\ e.ps = entry.ps /\ e.addr = entry.addr
  BY <1>2, SetFlagsType
<1> HIDE DEF e
<1>4. /\ TablesType' /\ NewTable' = NewTable /\ Numbers' = Numbers
      /\ Tree(root, depth)' /\ Frames(root, depth)'
  BY <1>1, <1>2, <1>3, SetEntryKeeps DEF IsLink
<1>5. /\ call \in CallT /\ call.cur_level \in 1..LEVELS /\ request.granularity \in Nat
      /\ request.granularity < call.cur_level /\ LEVELS \in Nat /\ root \in Nat /\ NewTable \in Nat
  BY <1>2, PagingAssumption DEF AtEntry
<1>6. entry.addr \in (root + 1)..(NewTable - 1) /\ depth[entry.addr] = call.cur_level - 1
  <2>1. /\ call.page_table \in root..(NewTable - 1) /\ entry_idx \in Indices
        /\ Settled(call.page_table, entry_idx) /\ depth[call.page_table] = call.cur_level
    BY <1>2, AllSettled DEF AtEntry
  <2>2. IsLink(entry, depth[call.page_table])
    BY <1>1, <2>1 DEF IsLink
  <2> QED
    BY <2>1, <2>2 DEF Holds, Tree, OwnTree, entry
<1>7. /\ call'.request = call.request /\ call'.cur_level = call.cur_level - 1
      /\ call'.page_table = entry.addr /\ call' \in CallT
  <2>1. call.cur_level - 1 \in 1..LEVELS /\ entry.addr \in Nat
    BY <1>1, <1>5, <1>6
  <2> QED
    BY <1>1, <1>5, <2>1 DEF CallT
<1>8. AtStage(root, depth)'
  <2>1. call'.page_table \in root..(NewTable - 1) /\ depth[call'.page_table] = call'.cur_level
    BY <1>5, <1>6, <1>7
  <2>2. request' = request /\ request.granularity < call'.cur_level
    BY <1>1, <1>5, <1>7 DEF request
  <2> QED
    BY <1>1, <1>4, <1>7, <2>1, <2>2 DEF Holds, AtStage, Running
<1> QED
  BY <1>4, <1>8 DEF Holds

LEMMA AddHaltsStep ==
  ASSUME TablesType, NEW root, NEW depth, Holds(root, depth), AddHalts
  PROVE  TablesType' /\ NewTable' = NewTable /\ Holds(root, depth)'
<1>1. stage = "add" /\ stage' = "halted" /\ UNCHANGED <<tables, cr3, stack, call, added>>
  BY DEF AddHalts
<1>2. TablesType' /\ NewTable' = NewTable /\ Numbers' = Numbers
  BY <1>1 DEF TablesType, NewTable, Numbers
<1>3. Tree(root, depth)' /\ Frames(root, depth)'
  BY <1>1, TreeSame DEF Holds
<1>4. AtStage(root, depth)'
  BY <1>1, <1>2 DEF Holds, AtStage, Running
<1> QED
  BY <1>2, <1>3, <1>4 DEF Holds

LEMMA AddPageStep ==
  ASSUME TablesType, NEW root, NEW depth, Holds(root, depth), AddPage
  PROVE  TablesType' /\ NewTable' = NewTable /\ Holds(root, depth)'
<1> DEFINE f == SetFlags(Absent, request.flags, FALSE)
           a == (request.page \div Span[call.cur_level]) * Span[call.cur_level]
           large == call.cur_level # 1
           e == [f EXCEPT !.present = TRUE, !.ps = large, !.addr = a]
<1>1. SetEntry(e) /\ stage = "add" /\ stage' = "idle" /\ UNCHANGED <<cr3, stack>>
  BY DEF AddPage, Return
<1>2. AtEntry(root, depth) /\ call \in CallT /\ call.cur_level \in 1..LEVELS
  BY <1>1, EntryFacts DEF AtEntry
<1>3. f \in EntryT
  BY MoreTypes, SetFlagsType
<1>4. a \in Nat
  <2>1. request.page \in Nat
    <3>1. request.page \in Pages
      BY <1>2, RequestsAssumption DEF CallT, request
    <3> QED
      BY <3>1 DEF Pages
  <2>2. PICK s \in Nat \ {0} : Span[call.cur_level] = s
    BY <1>2, SpanType
  <2>3. \A p \in Nat : (p \div s) * s \in Nat
    <3>1. \A x, y \in Nat : x * y \in Nat
      OBVIOUS
    <3>2. \A p \in Nat : p \div s \in Nat
      OBVIOUS
    <3> QED
      BY <3>1, <3>2
  <2> QED
    BY <2>1, <2>2, <2>3
<1>5. large \in BOOLEAN /\ (~large => ~(call.cur_level > 1))
  BY <1>2
<1> HIDE DEF a, f, large
<1>6. e \in EntryT /\ e.ps = large
  BY <1>3, <1>4, <1>5 DEF EntryT
<1> HIDE DEF e
<1>7. ~IsLink(e, call.cur_level)
  BY <1>5, <1>6 DEF IsLink
<1>8. TablesType' /\ NewTable' = NewTable /\ Tree(root, depth)' /\ Frames(root, depth)'
  BY <1>1, <1>2, <1>6, <1>7, SetEntryKeeps
<1>9. AtStage(root, depth)'
  BY <1>1, <1>8, ReturnHolds
<1> QED
  BY <1>8, <1>9 DEF Holds

LEMMA AddTableDepth ==
  ASSUME TablesType, NEW root, NEW depth, Holds(root, depth), AddTable
  PROVE  \E d : Deeper(NewTable, depth, call.cur_level - 1, d)
<1>1. stage = "add" /\ call.cur_level # request.granularity + 1
  BY DEF AddTable, level_matches_granularity
<1>2. AtEntry(root, depth)
  BY <1>1, EntryFacts
<1>3. call.cur_level - 1 \in 1..LEVELS
  <2>1. /\ call.cur_level \in 1..LEVELS /\ request.granularity \in Nat
        /\ request.granularity < call.cur_level /\ LEVELS \in Nat
    BY <1>2, PagingAssumption DEF AtEntry
  <2> QED
    BY <1>1, <2>1
<1>4. NewTable \in Nat /\ depth \in DepthT(NewTable)
  BY <1>2 DEF AtEntry, Numbers, DepthT
<1> QED
  BY <1>3, <1>4, OneDeeper, Zenon

TableLink == [SetFlags(Absent, request.flags, TRUE) EXCEPT !.present = TRUE, !.addr = NewTable]

LEMMA TableWritten ==
  ASSUME TablesType, NEW root, NEW depth, AtEntry(root, depth), AddTable
  PROVE  /\ TablesType' /\ NewTable' = NewTable + 1 /\ Numbers' = 0..NewTable
         /\ TableLink \in EntryT /\ TableLink.addr = NewTable /\ tables'[NewTable] = Empty
         /\ OnlyEntry(call.page_table, entry_idx, TableLink)
<1> DEFINE f == SetFlags(Absent, request.flags, TRUE)
           T == call.page_table
           I == entry_idx
<1>1. tables' = [WithTable(Empty) EXCEPT ![T][I] = TableLink]
  BY DEF AddTable, TableLink
<1>2. NewTable \in Nat /\ T \in Numbers /\ I \in Indices /\ Numbers = 0..(NewTable - 1)
  BY DEF AtEntry, Numbers
<1>3. TableLink \in EntryT /\ TableLink.addr = NewTable
  <2>1. f \in EntryT
    BY MoreTypes, SetFlagsType
  <2>2. TableLink = [f EXCEPT !.present = TRUE, !.addr = NewTable]
    BY DEF TableLink
  <2> HIDE DEF f
  <2> QED
    BY <1>2, <2>1, <2>2 DEF EntryT
<1> HIDE DEF T, I
<1>4. /\ WithTable(Empty) \in [0..NewTable -> [Indices -> EntryT]]
      /\ WithTable(Empty)[NewTable] = Empty
      /\ \A t \in Numbers : WithTable(Empty)[t] = tables[t]
  BY MoreTypes, Extended
<1>5. PICK n : n = NewTable + 1 /\ n \in Nat /\ n - 1 = NewTable
  BY <1>2
<1>6. TheTables(n, WithTable(Empty))
  BY <1>4, <1>5 DEF TheTables
<1>7. Write(n, T, I, TableLink)
  BY <1>2, <1>3, <1>5 DEF Write
<1>8. Written(n, WithTable(Empty), T, I, TableLink)
  BY <1>1, <1>6, <1>7, Updated, Zenon
<1>9. \A u \in Numbers : u \in 0..(n - 1)
  BY <1>2, <1>5
<1>10. NewTable \in 0..(n - 1) /\ NewTable # T
  BY <1>2, <1>5
<1> QED
  BY <1>2, <1>3, <1>4, <1>5, <1>8, <1>9, <1>10 DEF Written, OnlyEntry, T, I

LEMMA AddTableStep ==
  ASSUME TablesType, NEW root, NEW depth, Holds(root, depth), AddTable,
         NEW d, Deeper(NewTable, depth, call.cur_level - 1, d)
  PROVE  TablesType' /\ NewTable' = NewTable + 1 /\ Holds(root, d)'
<1> DEFINE f == SetFlags(Absent, request.flags, TRUE)
           link == [f EXCEPT !.present = TRUE, !.addr = NewTable]
           T == call.page_table
           I == entry_idx
<1>1. /\ stage = "add" /\ ~entry.present /\ call.cur_level # request.granularity + 1
      /\ tables' = [WithTable(Empty) EXCEPT ![T][I] = link]
      /\ UNCHANGED <<cr3, stack, stage, call, added>>
  BY DEF AddTable, level_matches_granularity
<1>2. AtEntry(root, depth)
  BY <1>1, EntryFacts
<1>3. /\ root \in Nat /\ NewTable \in Nat /\ root < NewTable /\ stack = <<>>
      /\ T \in root..(NewTable - 1) /\ T \in Numbers /\ I \in Indices
      /\ depth \in [Numbers -> 1..LEVELS] /\ depth[T] = call.cur_level
      /\ Numbers = 0..(NewTable - 1)
  BY <1>2 DEF AtEntry, Numbers
<1>6. /\ d \in [0..NewTable -> 1..LEVELS] /\ d[NewTable] = call.cur_level - 1
      /\ \A t \in Numbers : d[t] = depth[t]
  BY <1>3 DEF Deeper
<1>7. link = TableLink
  BY DEF TableLink
<1> HIDE DEF link, T, I
<1>8. /\ TablesType' /\ NewTable' = NewTable + 1 /\ Numbers' = 0..NewTable
      /\ link.addr = NewTable /\ tables'[T][I] = link /\ tables'[NewTable] = Empty
      /\ \A u \in Numbers : u # T => tables'[u] = tables[u]
      /\ \A j \in Indices : j # I => tables'[T][j] = tables[T][j]
  BY <1>2, <1>7, TableWritten DEF OnlyEntry, T, I
<1>9. Grown(root, depth, d, T, I)
  <2>1. ASSUME NEW t \in root..(NewTable' - 1), NEW i \in Indices, IsLink(tables'[t][i], d[t])
        PROVE  WasSettled(depth, t, i) \/ (t = T /\ i = I)
    <3>1. t \in Numbers
      <4>1. t # NewTable
        BY <1>8, <2>1, MoreTypes DEF IsLink
      <4> QED
        BY <1>3, <1>8, <4>1
    <3>2. SUFFICES ASSUME ~(t = T /\ i = I) PROVE WasSettled(depth, t, i)
      OBVIOUS
    <3>3. tables'[t][i] = tables[t][i]
      BY <1>8, <3>1, <3>2
    <3>4. Settled(t, i)
      BY <1>3, AllSettled
    <3> QED
      BY <1>6, <2>1, <3>1, <3>3, <3>4 DEF WasSettled
  <2>2. \A t \in 0..(root - 1) : t \in Numbers /\ t # T
    BY <1>3
  <2>3. tables'[T][I].addr = NewTable
    BY <1>7, <1>8
  <2>4. d[NewTable] = d[T] - 1
    BY <1>3, <1>6
  <2> QED
    BY <1>3, <1>6, <1>8, <2>1, <2>2, <2>3, <2>4 DEF Grown
<1>10. Tree(root, d)'
  BY <1>8, <1>9, TreeGrown DEF Holds
<1>11. Frames(root, d)'
  <2>1. Len(stack') = 0 /\ stack' \in Seq(FrameT)
    BY <1>1, <1>3
  <2> QED
    BY <2>1 DEF Frames
<1>12. AtStage(root, d)'
  <2>1. /\ cr3 = root /\ depth[root] = LEVELS /\ call \in CallT
        /\ request.granularity < call.cur_level
    BY <1>1 DEF Holds, AtStage, Running
  <2>2. root \in Numbers /\ root < NewTable' /\ T \in root..(NewTable' - 1)
    BY <1>3, <1>8
  <2>3. d[root] = LEVELS /\ d[T] = call.cur_level
    BY <1>3, <1>6, <2>1, <2>2
  <2>4. request' = request /\ call' = call /\ cr3' = cr3 /\ stage' = "add" /\ stack' = <<>>
    BY <1>1, <1>3 DEF request
  <2> QED
    BY <2>1, <2>2, <2>3, <2>4 DEF AtStage, Running, T
<1> QED
  BY <1>8, <1>10, <1>11, <1>12 DEF Holds

-----------------------------------------------------------------------------
(* vprotect changes no more of an entry than whether it may be executed.   *)
SameLinks ==
  /\ TablesType' /\ NewTable' = NewTable /\ Numbers' = Numbers
  /\ \A t \in Numbers, i \in Indices :
       /\ tables'[t][i].present = tables[t][i].present /\ tables'[t][i].ps = tables[t][i].ps
       /\ tables'[t][i].addr = tables[t][i].addr

LEMMA VprotectKeeps ==
  ASSUME TablesType, NEW base, NEW count, NEW flags, tables' = Vprotect(base, count, flags)
  PROVE  SameLinks
<1> DEFINE visited == Visited(tables, cr3, base, base + count - 1)
           Comes(level, t, i) == \E v \in visited[level] : v.table = t /\ Index(v.addr, level) = i
           New(t, i) == IF \E level \in 2..LEVELS : Comes(level, t, i)
                        THEN [tables[t][i] EXCEPT !.nx = FALSE]
                        ELSE IF Comes(1, t, i)
                        THEN [tables[t][i] EXCEPT !.nx = "exec" \notin flags]
                        ELSE tables[t][i]
<1>1. tables' = [t \in DOMAIN tables |-> [i \in 0..(FAN - 1) |-> New(t, i)]]
  BY Zenon DEF Vprotect
<1>2. DOMAIN tables = Numbers /\ NewTable \in Nat
  BY DEF TablesType
<1>3. ASSUME NEW t \in Numbers, NEW i \in Indices
      PROVE  /\ New(t, i) \in EntryT
             /\ New(t, i).present = tables[t][i].present /\ New(t, i).ps = tables[t][i].ps
             /\ New(t, i).addr = tables[t][i].addr
  <2>1. tables[t][i] \in EntryT
    BY DEF TablesType
  <2>2. \A e \in EntryT, b \in BOOLEAN :
          LET f == [e EXCEPT !.nx = b] IN
          f \in EntryT /\ f.present = e.present /\ f.ps = e.ps /\ f.addr = e.addr
    BY DEF EntryT
  <2>3. \/ New(t, i) = tables[t][i]
        \/ \E b \in BOOLEAN : New(t, i) = [tables[t][i] EXCEPT !.nx = b]
    <3> HIDE DEF Comes
    <3>1. FALSE \in BOOLEAN /\ ("exec" \notin flags) \in BOOLEAN
      OBVIOUS
    <3> QED
      BY <3>1, Zenon
  <2> QED
    BY <2>1, <2>2, <2>3
<1> HIDE DEF New
<1>4. tables' = [t \in Numbers |-> [i \in Indices |-> New(t, i)]]
  BY <1>1, <1>2 DEF Indices
<1>5. tables' \in [Numbers -> [Indices -> EntryT]]
  BY <1>3, <1>4
<1>6. NewTable' = NewTable
  BY <1>2, <1>5 DEF NewTable
<1> QED
  BY <1>2, <1>3, <1>4, <1>5, <1>6 DEF SameLinks, TablesType, Numbers, Indices

(* Until the kernel clones its tables, all of them are the boot loader's.  *)
LEMMA LoadingHolds ==
  ASSUME TablesType, NEW root, NEW depth, Holds(root, depth), stage = "boot",
         SameLinks, UNCHANGED table_vars
  PROVE  TablesType' /\ Holds(root, depth)'
<1>1. /\ root = NewTable /\ cr3 = 0 /\ 0 < NewTable /\ depth[0] = LEVELS /\ stack = <<>>
      /\ NewTable \in Nat /\ depth \in [Numbers -> 1..LEVELS]
  BY DEF Holds, AtStage, Tree, TablesType
<1>2. TablesType' /\ NewTable' = NewTable /\ Numbers' = Numbers
  BY DEF SameLinks
<1>3. BootTree(root, depth)'
  <2>1. SUFFICES ASSUME NEW t \in 0..(root - 1), NEW i \in Indices, IsLink(tables'[t][i], depth[t])
                 PROVE  /\ tables'[t][i].addr \in 0..(root - 1)
                        /\ depth[tables'[t][i].addr] = depth[t] - 1
    BY DEF BootTree, Indices
  <2>2. t \in Numbers
    BY <1>1 DEF Numbers
  <2>3. tables'[t][i].addr = tables[t][i].addr /\ IsLink(tables[t][i], depth[t])
    BY <2>1, <2>2 DEF SameLinks, IsLink
  <2> QED
    BY <2>3 DEF Holds, Tree, BootTree
<1>4. OwnTree(root, depth)' /\ OnceOnly(root, depth)'
  <2>1. \A t \in root..(NewTable' - 1) : FALSE
    BY <1>1, <1>2
  <2> QED
    BY <2>1 DEF OwnTree, OnceOnly
<1>5. Frames(root, depth)'
  <2>1. Len(stack') = 0 /\ stack' \in Seq(FrameT)
    BY <1>1 DEF table_vars
  <2> QED
    BY <2>1 DEF Frames
<1>6. AtStage(root, depth)'
  BY <1>1, <1>2 DEF table_vars, AtStage, Running
<1>7. Tree(root, depth)'
  BY <1>1, <1>2, <1>3, <1>4 DEF Tree
<1> QED
  BY <1>2, <1>5, <1>6, <1>7 DEF Holds

InitDepth(depth) == depth \in [DOMAIN tables -> 1..LEVELS] /\ Leveled(tables, depth)

LEMMA InitHolds ==
  ASSUME PagingInit, NEW depth, InitDepth(depth)
  PROVE  TablesType /\ Holds(NewTable, depth)
<1>1. /\ tables \in BootTables /\ cr3 = 0 /\ stack = <<>> /\ stage = "boot"
  BY DEF PagingInit
<1>2. /\ IsFiniteSet(DOMAIN tables) /\ 0 \in DOMAIN tables
      /\ DOMAIN tables = 0..(Cardinality(DOMAIN tables) - 1)
      /\ tables \in [DOMAIN tables -> [0..(FAN - 1) -> EntryT]]
  BY <1>1, BootTablesAssumption
<1>3. /\ depth \in [DOMAIN tables -> 1..LEVELS] /\ depth[0] = LEVELS
      /\ \A t \in DOMAIN tables, i \in 0..(FAN - 1) : IsLink(tables[t][i], depth[t]) =>
           tables[t][i].addr \in DOMAIN tables /\ depth[tables[t][i].addr] = depth[t] - 1
  BY DEF InitDepth, Leveled
<1>4. NewTable \in Nat
  BY <1>2, FS_CardinalityType DEF NewTable
<1>5. DOMAIN tables = Numbers /\ 0 < NewTable
  BY <1>2, <1>4 DEF Numbers, NewTable
<1>6. TablesType
  BY <1>2, <1>4, <1>5 DEF TablesType, Indices
<1>7. Tree(NewTable, depth)
  <2>1. BootTree(NewTable, depth)
    BY <1>3, <1>5 DEF BootTree, Numbers, Indices
  <2>2. \A t \in NewTable..(NewTable - 1) : FALSE
    BY <1>4
  <2>3. OwnTree(NewTable, depth) /\ OnceOnly(NewTable, depth)
    BY <2>2 DEF OwnTree, OnceOnly
  <2> QED
    BY <1>3, <1>4, <1>5, <2>1, <2>3 DEF Tree
<1>8. Frames(NewTable, depth)
  <2>1. Len(stack) = 0 /\ stack \in Seq(FrameT)
    BY <1>1
  <2> QED
    BY <2>1 DEF Frames
<1>9. AtStage(NewTable, depth)
  BY <1>1, <1>3, <1>5 DEF AtStage, Running
<1> QED
  BY <1>6, <1>7, <1>8, <1>9 DEF Holds

-----------------------------------------------------------------------------
ImageInv == PagingInv /\ (lpc # "kmain" => stage = "boot")

LEMMA HoldsStill ==
  ASSUME TablesType, NEW root, NEW depth, Holds(root, depth), UNCHANGED paging_vars
  PROVE  TablesType' /\ NewTable' = NewTable /\ Holds(root, depth)'
<1>1. UNCHANGED <<tables, stack>> /\ NewTable' = NewTable /\ Numbers' = Numbers
  BY DEF paging_vars, NewTable, Numbers
<1>2. TablesType'
  BY <1>1 DEF TablesType
<1>3. Tree(root, depth)' /\ Frames(root, depth)'
  BY <1>1, TreeSame DEF Holds
<1>4. AtStage(root, depth)'
  BY <1>1 DEF paging_vars, Holds, AtStage, Running, request
<1> QED
  BY <1>1, <1>2, <1>3, <1>4 DEF Holds

LEMMA PagingStutters ==
  ASSUME PagingInv, UNCHANGED paging_vars PROVE PagingInv'
  BY HoldsStill DEF PagingInv

(* The clone gives its new table the level that it is filled at.           *)
LEMMA StartCloneDepth ==
  ASSUME TablesType, NEW root, NEW depth, Holds(root, depth), StartClone
  PROVE  \E d : Deeper(root, depth, LEVELS, d)
<1>1. root \in Nat /\ NewTable = root /\ Numbers = 0..(root - 1) /\ depth \in [Numbers -> 1..LEVELS]
  BY DEF StartClone, Holds, AtStage, TablesType, Tree, Numbers
<1>2. LEVELS \in 1..LEVELS /\ depth \in DepthT(root)
  BY <1>1, PagingAssumption DEF DepthT
<1> QED
  BY <1>1, <1>2, OneDeeper, Zenon

LEMMA CloneTableDepth ==
  ASSUME TablesType, NEW root, NEW depth, Holds(root, depth), CloneTable
  PROVE  \E d : Deeper(NewTable, depth, Frame.level - 1, d)
<1>1. stack # <<>> /\ Frame.idx < FAN /\ Recurses
  BY DEF CloneTable
<1>2. Frame.level \in 1..LEVELS /\ IsLink(OrigEntry, Frame.level) /\ LEVELS \in Nat
  BY <1>1, FrameFacts, PagingAssumption
<1>3. Frame.level - 1 \in 1..LEVELS
  BY <1>2 DEF IsLink
<1>4. NewTable \in Nat /\ depth \in DepthT(NewTable)
  BY DEF TablesType, Numbers, Holds, Tree, DepthT
<1> QED
  BY <1>3, <1>4, OneDeeper, Zenon

LEMMA PagingStep ==
  ASSUME PagingInv, PagingNext PROVE PagingInv'
<1>1. TablesType
  BY DEF PagingInv
<1>2. PICK root, depth : Holds(root, depth)
  BY DEF PagingInv
<1>3. CASE StartClone
  <2>1. PICK d : Deeper(root, depth, LEVELS, d)
    BY <1>1, <1>2, <1>3, StartCloneDepth, Zenon
  <2> QED
    BY <1>1, <1>2, <1>3, <2>1, StartCloneStep DEF PagingInv
<1>4. CASE CloneEntry
  BY <1>1, <1>2, <1>4, CloneEntryStep DEF PagingInv
<1>5. CASE CloneTable
  <2>1. PICK d : Deeper(NewTable, depth, Frame.level - 1, d)
    BY <1>1, <1>2, <1>5, CloneTableDepth, Zenon
  <2> QED
    BY <1>1, <1>2, <1>5, <2>1, CloneTableStep DEF PagingInv
<1>6. CASE CloneReturn
  BY <1>1, <1>2, <1>6, CloneReturnStep DEF PagingInv
<1>7. CASE \E r \in Requests : Add(r)
  BY <1>1, <1>2, <1>7, AddStarts DEF PagingInv
<1>8. CASE AddPresent
  BY <1>1, <1>2, <1>8, AddPresentStep DEF PagingInv
<1>9. CASE AddDescend
  BY <1>1, <1>2, <1>9, AddDescendStep DEF PagingInv
<1>10. CASE AddHalts
  BY <1>1, <1>2, <1>10, AddHaltsStep DEF PagingInv
<1>11. CASE AddPage
  BY <1>1, <1>2, <1>11, AddPageStep DEF PagingInv
<1>12. CASE AddTable
  <2>1. PICK d : Deeper(NewTable, depth, call.cur_level - 1, d)
    BY <1>1, <1>2, <1>12, AddTableDepth, Zenon
  <2> QED
    BY <1>1, <1>2, <1>12, <2>1, AddTableStep DEF PagingInv
<1> QED
  BY <1>3, <1>4, <1>5, <1>6, <1>7, <1>8, <1>9, <1>10, <1>11, <1>12
     DEF PagingNext, Clone, AddStep

(* From the loading of the kernel to the last page added: the tables are   *)
(* typed, there is a root from which ours begin, and Holds says how they,   *)
(* the calls under way and the stage fit together.                         *)
THEOREM ImageInvariant == ImageSpec => []ImageInv
<1>1. ImageInit => ImageInv
  <2> SUFFICES ASSUME ImageInit PROVE ImageInv
    OBVIOUS
  <2>1. PagingInit /\ lpc # "kmain" /\ stage = "boot" /\ tables \in BootTables
    BY DEF ImageInit, PagingInit
  <2>2. PICK depth : InitDepth(depth)
    BY <2>1, BootTablesAssumption DEF InitDepth
  <2> QED
    BY <2>1, <2>2, InitHolds DEF PagingInv, ImageInv
<1>2. ImageInv /\ [ImageNext]_image_vars => ImageInv'
  <2> SUFFICES ASSUME ImageInv, [ImageNext]_image_vars PROVE ImageInv'
    OBVIOUS
  <2>1. TablesType /\ PagingInv
    BY DEF ImageInv, PagingInv
  <2>2. PICK root, depth : Holds(root, depth)
    BY <2>1 DEF PagingInv
  <2>3. CASE CheckHeaders \/ CopySegment \/ Kstart
    <3>1. lpc # "kmain" /\ UNCHANGED paging_vars
      BY <2>3 DEF CheckHeaders, CopySegment, Kstart, table_vars, paging_vars
    <3>2. stage' = "boot"
      BY <3>1 DEF ImageInv, paging_vars
    <3> QED
      BY <2>1, <3>1, <3>2, PagingStutters DEF ImageInv
  <2>4. CASE MakeWritable \/ SetSegmentFlags
    <3>1. lpc # "kmain" /\ UNCHANGED table_vars
      BY <2>4 DEF MakeWritable, SetSegmentFlags
    <3>2. SameLinks
      BY <2>1, <2>4, VprotectKeeps DEF MakeWritable, SetSegmentFlags
    <3>3. stage = "boot" /\ stage' = "boot"
      BY <3>1 DEF ImageInv, table_vars
    <3> QED
      BY <2>1, <2>2, <3>1, <3>2, <3>3, LoadingHolds DEF ImageInv, PagingInv
  <2>5. CASE lpc = "kmain" /\ PagingNext /\ UNCHANGED load_vars
    BY <2>1, <2>5, PagingStep DEF ImageInv, load_vars
  <2>6. CASE UNCHANGED image_vars
    <3>1. UNCHANGED paging_vars /\ lpc' = lpc /\ stage' = stage
      BY <2>6 DEF image_vars, paging_vars, load_vars
    <3> QED
      BY <2>1, <3>1, PagingStutters DEF ImageInv
  <2> QED
    BY <2>3, <2>4, <2>5, <2>6 DEF ImageNext, LoaderMapElf
<1> QED
  BY <1>1, <1>2, PTL DEF ImageSpec

-----------------------------------------------------------------------------
(* The tables that those of R, of this level, refer to.                    *)
Refs(level, R) == {tables[link[1]][link[2]].addr : link \in Links(level, R)}

(* The kernel's own tables of a level.                                     *)
OfLevel(root, depth, level) == {t \in root..(NewTable - 1) : depth[t] = level}

LEMMA RefsDeeper ==
  ASSUME NEW root, NEW depth, Tree(root, depth), stack = <<>>,
         NEW level, NEW R, R \subseteq OfLevel(root, depth, level)
  PROVE  /\ Refs(level, R) \subseteq OfLevel(root, depth, level - 1)
         /\ \A x, y \in Links(level, R) :
              tables[x[1]][x[2]].addr = tables[y[1]][y[2]].addr => x = y
<1>1. ASSUME NEW x \in Links(level, R)
      PROVE  /\ x = <<x[1], x[2]>> /\ x[1] \in root..(NewTable - 1) /\ x[2] \in Indices
             /\ depth[x[1]] = level /\ Settled(x[1], x[2])
             /\ IsLink(tables[x[1]][x[2]], depth[x[1]])
  <2>1. x \in R \X (0..(FAN - 1)) /\ IsLink(tables[x[1]][x[2]], level)
    BY DEF Links
  <2>2. x = <<x[1], x[2]>> /\ x[1] \in R /\ x[2] \in Indices
    BY <2>1 DEF Indices
  <2>3. x[1] \in root..(NewTable - 1) /\ depth[x[1]] = level
    BY <2>2 DEF OfLevel
  <2> QED
    BY <2>1, <2>2, <2>3, AllSettled
<1>2. ASSUME NEW x \in Links(level, R)
      PROVE  tables[x[1]][x[2]].addr \in OfLevel(root, depth, level - 1)
  <2>1. /\ tables[x[1]][x[2]].addr \in (root + 1)..(NewTable - 1)
        /\ depth[tables[x[1]][x[2]].addr] = level - 1
    BY <1>1 DEF Tree, OwnTree
  <2>2. root \in Int
    BY DEF Tree
  <2> QED
    BY <2>1, <2>2 DEF OfLevel
<1>3. ASSUME NEW x \in Links(level, R), NEW y \in Links(level, R),
             tables[x[1]][x[2]].addr = tables[y[1]][y[2]].addr
      PROVE  x = y
  <2>1. x[1] = y[1] /\ x[2] = y[2]
    BY <1>1, <1>3 DEF Tree, OnceOnly
  <2> QED
    BY <1>1, <2>1
<1> QED
  BY <1>2, <1>3 DEF Refs

LEMMA ReachedFacts ==
  ASSUME TablesType, NEW root, NEW depth, Holds(root, depth), Running
  PROVE  /\ \A level \in 1..LEVELS : Reached[level] \subseteq OfLevel(root, depth, level)
         /\ \A level \in 1..LEVELS :
              Reached[level] = IF level = LEVELS THEN {cr3} ELSE Refs(level + 1, Reached[level + 1])
<1> DEFINE V == root..(NewTable - 1)
           Own(n) == OfLevel(root, depth, LEVELS - n)
           g == [p \in Nat \X SUBSET V |->
                   IF Refs(LEVELS - p[1], p[2]) \subseteq V THEN Refs(LEVELS - p[1], p[2]) ELSE {}]
<1>1. /\ Tree(root, depth) /\ stack = <<>> /\ cr3 = root /\ root < NewTable
      /\ depth[root] = LEVELS /\ root \in Nat /\ NewTable \in Nat /\ LEVELS \in Nat \ {0}
  BY PagingAssumption DEF Holds, AtStage, Running, Tree, TablesType
<1>2. {cr3} \in SUBSET V /\ {cr3} \subseteq Own(0)
  BY <1>1 DEF OfLevel
<1>3. PICK f \in [Nat -> SUBSET V] : f[0] = {cr3} /\ \A n \in Nat : f[n + 1] = g[<<n, f[n]>>]
  <2>1. g \in StepsOn(SUBSET V)
    BY DEF StepsOn
  <2> HIDE DEF g, V
  <2>2. Recursion(SUBSET V, {cr3}, g)
    BY <1>2, <2>1, PrimRec, Zenon
  <2> QED
    BY <2>2 DEF Recursion
<1>4. \A n \in Nat : f[n] \subseteq Own(n) /\ f[n + 1] = Refs(LEVELS - n, f[n])
  <2>1. ASSUME NEW n \in Nat, f[n] \subseteq Own(n)
        PROVE  f[n + 1] = Refs(LEVELS - n, f[n]) /\ f[n + 1] \subseteq Own(n + 1)
    <3>1. Refs(LEVELS - n, f[n]) \subseteq OfLevel(root, depth, (LEVELS - n) - 1)
      BY <1>1, <2>1, RefsDeeper
    <3>2. (LEVELS - n) - 1 = LEVELS - (n + 1)
      BY <1>1
    <3>3. Refs(LEVELS - n, f[n]) \subseteq V /\ Refs(LEVELS - n, f[n]) \subseteq Own(n + 1)
      BY <3>1, <3>2 DEF OfLevel
    <3>4. f[n + 1] = g[<<n, f[n]>>] /\ f[n] \in SUBSET V
      BY <1>3
    <3>5. g[<<n, f[n]>>] = Refs(LEVELS - n, f[n])
      BY <3>3, <3>4
    <3> QED
      BY <3>3, <3>4, <3>5
  <2> DEFINE Good == {n \in Nat : f[n] \subseteq Own(n)}
  <2>2. 0 \in Good
    BY <1>2, <1>3
  <2>3. \A n \in Good : n + 1 \in Good
    BY <2>1
  <2>4. Good \subseteq Nat
    OBVIOUS
  <2> HIDE DEF Good
  <2>5. Good = Nat
    BY <2>2, <2>3, <2>4, NatSets
  <2> QED
    BY <2>1, <2>5 DEF Good
<1> DEFINE F == [level \in 1..LEVELS |-> f[LEVELS - level]]
<1> HIDE DEF g, V
<1>5. F = [level \in 1..LEVELS |-> IF level = LEVELS THEN {cr3} ELSE Refs(level + 1, F[level + 1])]
  <2>1. ASSUME NEW level \in 1..LEVELS
        PROVE  F[level] = IF level = LEVELS THEN {cr3} ELSE Refs(level + 1, F[level + 1])
    <3>1. CASE level = LEVELS
      BY <1>1, <1>3, <3>1
    <3>2. CASE level # LEVELS
      <4>1. PICK n \in Nat : n = LEVELS - (level + 1)
        BY <1>1, <3>2
      <4>2. /\ LEVELS - level = n + 1 /\ LEVELS - n = level + 1 /\ level + 1 \in 1..LEVELS
        BY <1>1, <3>2, <4>1
      <4>3. F[level] = f[n + 1] /\ F[level + 1] = f[n]
        BY <4>1, <4>2
      <4>4. f[n + 1] = Refs(LEVELS - n, f[n])
        BY <1>4
      <4> QED
        BY <3>2, <4>2, <4>3, <4>4
    <3> QED
      BY <3>1, <3>2
  <2> HIDE DEF F
  <2>2. F = [level \in 1..LEVELS |-> F[level]]
    BY DEF F
  <2> QED
    BY <2>1, <2>2
<1>6. Reached = [level \in 1..LEVELS |->
                   IF level = LEVELS THEN {cr3} ELSE Refs(level + 1, Reached[level + 1])]
  <2> HIDE DEF F
  <2> QED
    BY <1>5 DEF Reached, Refs
<1>7. \A level \in 1..LEVELS :
        Reached[level] = IF level = LEVELS THEN {cr3} ELSE Refs(level + 1, Reached[level + 1])
  BY <1>6
<1>8. \A n \in Nat : n < LEVELS => Reached[LEVELS - n] \subseteq Own(n)
  <2> DEFINE Good == {n \in Nat : n < LEVELS => Reached[LEVELS - n] \subseteq Own(n)}
  <2>1. 0 \in Good
    BY <1>1, <1>2, <1>7
  <2>2. ASSUME NEW n \in Good PROVE n + 1 \in Good
    <3>1. SUFFICES ASSUME n + 1 < LEVELS PROVE Reached[LEVELS - (n + 1)] \subseteq Own(n + 1)
      OBVIOUS
    <3>2. /\ LEVELS - (n + 1) \in 1..LEVELS /\ LEVELS - (n + 1) # LEVELS /\ n < LEVELS
          /\ (LEVELS - (n + 1)) + 1 = LEVELS - n /\ (LEVELS - n) - 1 = LEVELS - (n + 1)
      BY <1>1, <3>1
    <3>3. Reached[LEVELS - (n + 1)] = Refs(LEVELS - n, Reached[LEVELS - n])
      BY <1>7, <3>2
    <3>4. Reached[LEVELS - n] \subseteq OfLevel(root, depth, LEVELS - n)
      BY <3>2
    <3>5. Refs(LEVELS - n, Reached[LEVELS - n]) \subseteq OfLevel(root, depth, (LEVELS - n) - 1)
      BY <1>1, <3>4, RefsDeeper
    <3> QED
      BY <3>2, <3>3, <3>5
  <2>3. Good \subseteq Nat
    OBVIOUS
  <2> HIDE DEF Good
  <2>4. Good = Nat
    BY <2>1, <2>2, <2>3, NatSets
  <2> QED
    BY <2>4 DEF Good
<1>9. ASSUME NEW level \in 1..LEVELS
      PROVE  Reached[level] \subseteq OfLevel(root, depth, level)
  <2>1. LEVELS - level \in Nat /\ LEVELS - level < LEVELS /\ LEVELS - (LEVELS - level) = level
    BY <1>1
  <2>2. Reached[LEVELS - (LEVELS - level)] \subseteq OfLevel(root, depth, LEVELS - (LEVELS - level))
    BY <1>8, <2>1
  <2> QED
    BY <2>1, <2>2
<1> QED
  BY <1>7, <1>9

(* clone_page_table and add_to_hhdm (paging.c): once cloned, the tables    *)
(* reached from cr3 form a tree, each reached once and none of them the    *)
(* boot loader's, whatever that left and whatever is added.                *)
THEOREM OwnTablesTheorem == ImageSpec => []OwnTables
<1>1. ImageInv => OwnTables
  <2> SUFFICES ASSUME ImageInv, Running
               PROVE  /\ \A l \in 1..LEVELS : Reached[l] \subseteq cr3..(NewTable - 1)
                      /\ \A l, m \in 1..LEVELS : l # m => Reached[l] \intersect Reached[m] = {}
                      /\ \A l \in 2..LEVELS :
                           Cardinality(Links(l, Reached[l])) = Cardinality(Reached[l - 1])
    BY DEF OwnTables
  <2>1. TablesType
    BY DEF ImageInv, PagingInv
  <2>2. PICK root, depth : Holds(root, depth)
    BY DEF ImageInv, PagingInv
  <2>3. Tree(root, depth) /\ stack = <<>> /\ cr3 = root /\ root \in Nat /\ NewTable \in Nat
    BY <2>1, <2>2 DEF Holds, AtStage, Running, Tree, TablesType
  <2>4. \A l \in 1..LEVELS : Reached[l] \subseteq OfLevel(root, depth, l)
    BY <2>1, <2>2, ReachedFacts
  <2>5. ASSUME NEW l \in 2..LEVELS
        PROVE  Cardinality(Links(l, Reached[l])) = Cardinality(Reached[l - 1])
    <3>1. l \in 1..LEVELS /\ l - 1 \in 1..LEVELS /\ l - 1 # LEVELS /\ (l - 1) + 1 = l
      BY PagingAssumption
    <3>2. Reached[l - 1] = Refs(l, Reached[l])
      BY <2>1, <2>2, <3>1, ReachedFacts
    <3>3. \A x, y \in Links(l, Reached[l]) :
            tables[x[1]][x[2]].addr = tables[y[1]][y[2]].addr => x = y
      BY <2>3, <2>4, <3>1, RefsDeeper
    <3>4. IsFiniteSet(Reached[l - 1])
      <4>1. Reached[l - 1] \in SUBSET (root..(NewTable - 1))
        BY <2>4, <3>1 DEF OfLevel
      <4>2. IsFiniteSet(root..(NewTable - 1))
        BY <2>3, FS_Interval
      <4> QED
        BY <4>1, <4>2, FS_Subset
    <3> DEFINE S == Links(l, Reached[l])
               U == Reached[l - 1]
               f == [x \in S |-> tables[x[1]][x[2]].addr]
    <3>5. f \in Injection(S, U)
      <4>1. f \in [S -> U]
        BY <3>2 DEF Refs
      <4>2. IsInjective(f)
        BY <3>3 DEF IsInjective
      <4> QED
        BY <4>1, <4>2 DEF Injection
    <3>6. f \in Surjection(S, U)
      BY <3>2, <3>5 DEF Refs, Injection, Surjection
    <3> HIDE DEF S, U, f
    <3>7. Cardinality(S) = Cardinality(U)
      BY <3>4, <3>5, <3>6, FS_Injection DEF U
    <3> QED
      BY <3>7 DEF S, U
  <2>6. \A l \in 1..LEVELS : Reached[l] \subseteq cr3..(NewTable - 1)
    BY <2>3, <2>4 DEF OfLevel
  <2>7. \A l, m \in 1..LEVELS : l # m => Reached[l] \intersect Reached[m] = {}
    BY <2>4 DEF OfLevel
  <2> QED
    BY <2>5, <2>6, <2>7
<1> QED
  BY <1>1, ImageInvariant, PTL


-----------------------------------------------------------------------------
(* What the processor finds for a page, table by table.                    *)
Seen(ts, page, w, level, t) ==
  LET e == ts[t][Index(page, level)]
  IN  IF ~e.present \/ (IsLink(e, level) /\ e.addr \notin DOMAIN ts) THEN {}
      ELSE IF IsLink(e, level) THEN Through(e, w[level - 1][e.addr])
      ELSE Leaf(e, level, page)

Walks(ts, page, w) ==
  w = [level \in 1..LEVELS |-> [t \in DOMAIN ts |-> Seen(ts, page, w, level, t)]]

FoundT == [page : Nat, write : BOOLEAN, nx : BOOLEAN]

LEMMA FoundTypes ==
  ASSUME NEW e \in EntryT, NEW level \in Nat, NEW page \in Nat, NEW found \in SUBSET FoundT
  PROVE  Leaf(e, level, page) \in SUBSET FoundT /\ Through(e, found) \in SUBSET FoundT
<1>1. page % Span[level] \in Nat
  <2>1. PICK s \in Nat \ {0} : s = Span[level]
    BY SpanType
  <2> QED
    BY <2>1
<1>2. PICK a \in Nat : a = e.addr + (page % Span[level])
  BY <1>1 DEF EntryT
<1>3. Leaf(e, level, page) \in SUBSET FoundT
  BY <1>2 DEF Leaf, FoundT, EntryT
<1>4. ASSUME NEW x \in found PROVE [x EXCEPT !.write = @ /\ e.write, !.nx = @ \/ e.nx] \in FoundT
  <2>1. x \in FoundT /\ (x.write /\ e.write) \in BOOLEAN /\ (x.nx \/ e.nx) \in BOOLEAN
    BY DEF FoundT, EntryT
  <2>2. PICK u \in BOOLEAN, v \in BOOLEAN : u = (x.write /\ e.write) /\ v = (x.nx \/ e.nx)
    BY <2>1
  <2>3. [x EXCEPT !.write = u, !.nx = v] \in FoundT
    BY <2>1 DEF FoundT
  <2> QED
    BY <2>2, <2>3
<1> QED
  BY <1>3, <1>4 DEF Through

(* The recursion of Translate is one: it goes down, level by level.        *)
LEMMA TranslateIsWalk ==
  ASSUME NEW ts, ts \in [DOMAIN ts -> [Indices -> EntryT]], NEW page \in Nat
  PROVE  \E w : Walks(ts, page, w) /\ \A root : Translate(ts, root, page) = w[LEVELS][root]
<1> DEFINE S == [DOMAIN ts -> SUBSET FoundT]
           At(level, t) == ts[t][Index(page, level)]
           Down(level, below, t) ==
             IF \/ ~At(level, t).present
                \/ IsLink(At(level, t), level) /\ At(level, t).addr \notin DOMAIN ts
             THEN {}
             ELSE IF IsLink(At(level, t), level) THEN Through(At(level, t), below[At(level, t).addr])
             ELSE Leaf(At(level, t), level, page)
           g == [p \in Nat \X S |-> [t \in DOMAIN ts |-> Down(p[1] + 1, p[2], t)]]
           c == [t \in DOMAIN ts |-> {}]
<1>1. c \in S
  OBVIOUS
<1>2. ASSUME NEW n \in Nat, NEW s \in S, NEW t \in DOMAIN ts
      PROVE  Down(n + 1, s, t) \in SUBSET FoundT
  <2>1. At(n + 1, t) \in EntryT
    <3>1. Index(page, n + 1) \in Indices
      BY IndexInTable DEF Indices
    <3> QED
      BY <3>1
  <2> HIDE DEF At
  <2>2. n + 1 \in Nat /\ {} \in SUBSET FoundT
    OBVIOUS
  <2>3. At(n + 1, t).addr \in DOMAIN ts => s[At(n + 1, t).addr] \in SUBSET FoundT
    OBVIOUS
  <2>4. Leaf(At(n + 1, t), n + 1, page) \in SUBSET FoundT
    BY <2>1, <2>2, FoundTypes
  <2>5. At(n + 1, t).addr \in DOMAIN ts => Through(At(n + 1, t), s[At(n + 1, t).addr]) \in SUBSET FoundT
    BY <2>1, <2>2, <2>3, FoundTypes
  <2> QED
    BY <2>2, <2>4, <2>5
<1> HIDE DEF Down
<1>3. g \in StepsOn(S)
  <2>1. ASSUME NEW p \in Nat \X S PROVE [t \in DOMAIN ts |-> Down(p[1] + 1, p[2], t)] \in S
    BY <1>2
  <2> HIDE DEF S
  <2> QED
    BY <2>1 DEF StepsOn
<1>4. PICK f \in [Nat -> S] : f[0] = c /\ \A n \in Nat : f[n + 1] = g[<<n, f[n]>>]
  <2> HIDE DEF S, g, c
  <2>1. Recursion(S, c, g)
    BY <1>1, <1>3, PrimRec, Zenon
  <2> QED
    BY <2>1 DEF Recursion
<1> DEFINE w == [level \in 1..LEVELS |-> f[level]]
<1>5. Walks(ts, page, w)
  <2>1. ASSUME NEW level \in 1..LEVELS
        PROVE  w[level] = [t \in DOMAIN ts |-> Seen(ts, page, w, level, t)]
    <3>1. PICK n \in Nat : level = n + 1
      <4>1. level - 1 \in Nat /\ level = (level - 1) + 1
        OBVIOUS
      <4> QED
        BY <4>1
    <3>2. w[level] = g[<<n, f[n]>>] /\ f[n] \in S
      BY <1>4, <3>1
    <3>3. w[level] = [t \in DOMAIN ts |-> Down(level, f[n], t)]
      <4> HIDE DEF S, w
      <4> QED
        BY <3>1, <3>2
    <3>4. ASSUME NEW t \in DOMAIN ts PROVE Down(level, f[n], t) = Seen(ts, page, w, level, t)
      <4>1. IsLink(At(level, t), level) => w[level - 1] = f[n]
        <5>1. SUFFICES ASSUME IsLink(At(level, t), level) PROVE w[level - 1] = f[n]
          OBVIOUS
        <5>2. level > 1
          BY <5>1 DEF IsLink
        <5>3. level - 1 \in 1..LEVELS /\ level - 1 = n
          <6> HIDE DEF S, At, g, c, w
          <6>1. LEVELS \in Nat
            BY PagingAssumption
          <6>2. level \in Nat /\ level <= LEVELS
            BY <6>1
          <6> QED
            BY <3>1, <5>2, <6>1, <6>2
        <5>4. w[level - 1] = f[level - 1]
          <6> HIDE DEF At
          <6> QED
            BY <5>3
        <5> HIDE DEF w, At
        <5> QED
          BY <5>3, <5>4
      <4> HIDE DEF w
      <4> QED
        BY <4>1 DEF Down, Seen
    <3> HIDE DEF w
    <3> QED
      BY <3>3, <3>4
  <2> HIDE DEF w
  <2>2. w = [level \in 1..LEVELS |-> w[level]]
    BY DEF w
  <2> QED
    BY <2>1, <2>2 DEF Walks
<1> HIDE DEF w
<1> DEFINE v == CHOOSE x : Walks(ts, page, x)
<1>6. Walks(ts, page, v)
  BY <1>5
<1>7. \A root : Translate(ts, root, page) = v[LEVELS][root]
  BY Zenon DEF Translate, Walks, Seen
<1> QED
  BY <1>6, <1>7, Zenon

-----------------------------------------------------------------------------
(* What has been copied: of maps each of our tables to the one of the boot *)
(* loader's that it is the copy of; its settled entries are the same but   *)
(* for the links, which lead to the copies.                                *)
CopyOf(root, level, of, copy, e) ==
  IF IsLink(e, level)
  THEN /\ copy = [e EXCEPT !.addr = copy.addr]
       /\ copy.addr \in root..(NewTable - 1) /\ of[copy.addr] = e.addr
  ELSE copy = e

Mirrors(root, depth, of) ==
  /\ of \in [root..(NewTable - 1) -> 0..(root - 1)] /\ of[root] = 0
  /\ \A t \in root..(NewTable - 1) : depth[of[t]] = depth[t]
  /\ \A k \in 1..Len(stack) : of[stack[k].new] = stack[k].orig
  /\ \A t \in root..(NewTable - 1), i \in Indices :
       Settled(t, i) => CopyOf(root, depth[t], of, tables[t][i], tables[of[t]][i])

CopyInv ==
  stage = "clone" => \E root, depth, of : Holds(root, depth) /\ Mirrors(root, depth, of)

(* Meanwhile the boot loader's tables stay as they are.                    *)
BootSame(root, depth, d) == \A t \in 0..(root - 1) : d[t] = depth[t] /\ tables'[t] = tables[t]

LEMMA StartMirrors ==
  ASSUME TablesType, NEW root, NEW depth, Holds(root, depth), StartClone
  PROVE  \E d, of : Holds(root, d)' /\ Mirrors(root, d, of)' /\ BootSame(root, depth, d)
<1>1. PICK d : Deeper(root, depth, LEVELS, d)
  BY StartCloneDepth, Zenon
<1>2. NewTable' = root + 1 /\ Holds(root, d)'
  BY <1>1, StartCloneStep
<1>3. root \in Nat /\ 0 < root /\ depth[0] = LEVELS /\ cr3 = 0 /\ root = NewTable
  BY DEF StartClone, Holds, AtStage, TablesType
<1>4. stage' = "clone" /\ stack' = <<[orig |-> 0, new |-> root, level |-> LEVELS, idx |-> 0]>>
  BY <1>3 DEF StartClone
<1>5. d[root] = LEVELS /\ d[0] = LEVELS
  BY <1>1, <1>3 DEF Deeper
<1> DEFINE of == [t \in root..((root + 1) - 1) |-> 0]
<1>6. \A t \in root..((root + 1) - 1) : t = root
  BY <1>3
<1>7. of \in [root..((root + 1) - 1) -> 0..(root - 1)] /\ of[root] = 0
  BY <1>3
<1>8. \A k \in 1..Len(stack') : k = 1
  BY <1>4
<1>9. stack'[1].new = root /\ stack'[1].orig = 0 /\ stack'[1].idx = 0 /\ 1 \in 1..Len(stack')
  BY <1>4
<1>10. \A i \in Indices : ~Settled(root, i)'
  <2>1. \A i \in Indices : ~(i < 0)
    BY PagingAssumption DEF Indices
  <2> QED
    BY <1>9, <2>1 DEF Settled
<1> HIDE DEF of
<1>11. Mirrors(root, d, of)'
  <2>1. \A t \in root..(NewTable' - 1) : t = root
    BY <1>2, <1>6
  <2>2. of \in [root..(NewTable' - 1) -> 0..(root - 1)]
    BY <1>2, <1>7
  <2>3. \A t \in root..(NewTable' - 1) : d[of[t]] = d[t]
    BY <1>5, <1>7, <2>1
  <2>4. \A k \in 1..Len(stack') : of[stack'[k].new] = stack'[k].orig
    BY <1>7, <1>8, <1>9
  <2>5. \A t \in root..(NewTable' - 1), i \in Indices : ~Settled(t, i)'
    BY <1>10, <2>1
  <2> QED
    BY <1>7, <2>2, <2>3, <2>4, <2>5 DEF Mirrors, Indices
<1>12. BootSame(root, depth, d)
  <2>1. \A t \in 0..(root - 1) : d[t] = depth[t]
    BY <1>1 DEF Deeper
  <2>2. \A t \in Numbers : tables'[t] = tables[t]
    BY MoreTypes, Extended DEF StartClone
  <2> QED
    BY <1>3, <2>1, <2>2 DEF BootSame, Numbers
<1> QED
  BY <1>2, <1>11, <1>12

LEMMA EntryMirrors ==
  ASSUME TablesType, NEW root, NEW depth, NEW of, Holds(root, depth), Mirrors(root, depth, of),
         CloneEntry
  PROVE  Holds(root, depth)' /\ Mirrors(root, depth, of)' /\ BootSame(root, depth, depth)
<1>1. /\ stack # <<>> /\ Frame.idx < FAN /\ stack' = Advanced
      /\ tables' = [tables EXCEPT ![Frame.new][Frame.idx] = OrigEntry]
  BY DEF CloneEntry
<1>2. NewTable' = NewTable /\ Holds(root, depth)'
  BY CloneEntryStep
<1>3. /\ Frame.idx \in Indices /\ Frame.orig \in 0..(root - 1)
      /\ Frame.new \in root..(NewTable - 1) /\ Frame.new \in Numbers
      /\ depth[Frame.new] = Frame.level /\ OrigEntry \in EntryT
      /\ ~IsLink(OrigEntry, Frame.level) /\ root \in Nat /\ NewTable \in Nat
  BY <1>1, FrameFacts DEF CloneEntry, TablesType
<1>4. /\ tables'[Frame.new][Frame.idx] = OrigEntry
      /\ \A u \in Numbers : u # Frame.new => tables'[u] = tables[u]
      /\ \A j \in Indices : j # Frame.idx => tables'[Frame.new][j] = tables[Frame.new][j]
  <2>1. TheTables(NewTable, tables) /\ Write(NewTable, Frame.new, Frame.idx, OrigEntry)
    BY <1>3 DEF TheTables, Write, Numbers, TablesType
  <2>2. Written(NewTable, tables, Frame.new, Frame.idx, OrigEntry)
    BY <1>1, <2>1, Updated, Zenon
  <2> QED
    BY <2>2 DEF Written, Numbers
<1>5. /\ Frame = stack[1] /\ Len(Advanced) = Len(stack) /\ Len(stack) \in Nat \ {0}
      /\ \A k \in 1..Len(stack) :
           Advanced[k].orig = stack[k].orig /\ Advanced[k].new = stack[k].new
  BY <1>1, AdvancedFacts, AdvancedKeeps DEF Holds, Frames
<1>6. of[Frame.new] = Frame.orig
  BY <1>5 DEF Mirrors
<1>7. \A k \in 1..Len(stack') : of[stack'[k].new] = stack'[k].orig
  BY <1>1, <1>5 DEF Mirrors
<1>8. ASSUME NEW t \in root..(NewTable - 1), NEW i \in Indices, Settled(t, i)'
      PROVE  CopyOf(root, depth[t], of, tables'[t][i], tables'[of[t]][i])
  <2>1. of[t] \in 0..(root - 1)
    BY DEF Mirrors
  <2>2. of[t] \in Numbers /\ of[t] # Frame.new /\ t \in Numbers
    BY <1>3, <2>1 DEF Numbers
  <2>3. tables'[of[t]] = tables[of[t]]
    BY <1>4, <2>2
  <2>4. CASE t = Frame.new /\ i = Frame.idx
    <3>1. tables'[t][i] = OrigEntry /\ tables'[of[t]][i] = OrigEntry
      BY <1>4, <1>6, <2>3, <2>4 DEF OrigEntry
    <3> QED
      BY <1>3, <2>4, <3>1 DEF CopyOf
  <2>5. CASE ~(t = Frame.new /\ i = Frame.idx)
    <3>1. tables'[t][i] = tables[t][i]
      BY <1>4, <2>2, <2>5
    <3>2. \A k \in 1..Len(stack') : stack'[k].new = t => i < stack'[k].idx
      BY <1>8 DEF Settled
    <3>3. Settled(t, i)
      BY <1>1, <2>5, <3>2, AdvancedSettles DEF Holds
    <3>4. CopyOf(root, depth[t], of, tables[t][i], tables[of[t]][i])
      BY <3>3 DEF Mirrors
    <3> QED
      BY <2>3, <3>1, <3>4
  <2> QED
    BY <2>4, <2>5
<1>9. Mirrors(root, depth, of)'
  <2>1. ASSUME NEW t \in root..(NewTable - 1), NEW i \in Indices, Settled(t, i)'
        PROVE  CopyOf(root, depth[t], of, tables[t][i], tables[of[t]][i])'
    BY <1>2, <1>8, <2>1 DEF CopyOf
  <2> QED
    BY <1>2, <1>7, <2>1 DEF Mirrors, Indices
<1>10. BootSame(root, depth, depth)
  <2>1. \A t \in 0..(root - 1) : t \in Numbers /\ t # Frame.new
    BY <1>3 DEF Numbers
  <2> QED
    BY <1>4, <2>1 DEF BootSame
<1> QED
  BY <1>2, <1>9, <1>10

(* One copy more. *)
MoreCopies(root, n, of, a, f) ==
  /\ f \in [root..n -> 0..(root - 1)] /\ f[n] = a
  /\ \A t \in root..(n - 1) : f[t] = of[t]

LEMMA OneMoreCopy ==
  ASSUME NEW root \in Nat, NEW n \in Nat, root < n, NEW a \in 0..(root - 1),
         NEW of \in [root..(n - 1) -> 0..(root - 1)]
  PROVE  \E f : MoreCopies(root, n, of, a, f)
<1> DEFINE f == [t \in root..n |-> IF t = n THEN a ELSE of[t]]
<1>1. \A t \in root..n : t # n => t \in root..(n - 1)
  OBVIOUS
<1>2. f \in [root..n -> 0..(root - 1)] /\ f[n] = a /\ \A t \in root..(n - 1) : f[t] = of[t]
  BY <1>1
<1> HIDE DEF f
<1>3. MoreCopies(root, n, of, a, f)
  BY <1>2 DEF MoreCopies
<1> QED
  BY <1>3

LEMMA TableMirrors ==
  ASSUME TablesType, NEW root, NEW depth, NEW of, Holds(root, depth), Mirrors(root, depth, of),
         CloneTable
  PROVE  \E d, f : Holds(root, d)' /\ Mirrors(root, d, f)' /\ BootSame(root, depth, d)
<1> DEFINE inner == [orig |-> OrigEntry.addr, new |-> NewTable,
                     level |-> Frame.level - 1, idx |-> 0]
           link == [OrigEntry EXCEPT !.addr = NewTable]
<1>1. /\ stack # <<>> /\ Frame.idx < FAN /\ Recurses
      /\ tables' = [WithTable(Garbage) EXCEPT ![Frame.new][Frame.idx] = link]
      /\ stack' = <<inner>> \o Advanced
  BY DEF CloneTable
<1>2. /\ Frame.idx \in Indices /\ Frame.orig \in 0..(root - 1) /\ Frame.orig \in Numbers
      /\ Frame.new \in root..(NewTable - 1) /\ Frame.new \in Numbers
      /\ depth[Frame.orig] = Frame.level /\ depth[Frame.new] = Frame.level
      /\ OrigEntry \in EntryT /\ Frame.level \in 1..LEVELS
      /\ IsLink(OrigEntry, Frame.level) /\ root \in Nat /\ root < NewTable
      /\ NewTable \in Nat /\ Numbers = 0..(NewTable - 1)
  BY <1>1, FrameFacts DEF TablesType, Numbers
<1>3. OrigEntry.addr \in 0..(root - 1) /\ depth[OrigEntry.addr] = Frame.level - 1
  BY <1>2 DEF Holds, Tree, BootTree, OrigEntry
<1>4. PICK d : Deeper(NewTable, depth, Frame.level - 1, d)
  BY CloneTableDepth, Zenon
<1>5. NewTable' = NewTable + 1 /\ Holds(root, d)'
  BY <1>4, CloneTableStep
<1>6. d[NewTable] = Frame.level - 1 /\ \A t \in Numbers : d[t] = depth[t]
  BY <1>2, <1>4 DEF Deeper
<1>7. PICK f : MoreCopies(root, NewTable, of, OrigEntry.addr, f)
  <2>1. of \in [root..(NewTable - 1) -> 0..(root - 1)]
    BY DEF Mirrors
  <2> QED
    BY <1>2, <1>3, <2>1, OneMoreCopy, Zenon
<1>8. /\ f \in [root..NewTable -> 0..(root - 1)] /\ f[NewTable] = OrigEntry.addr
      /\ \A t \in root..(NewTable - 1) : f[t] = of[t]
  BY <1>7 DEF MoreCopies
<1> HIDE DEF link
<1>9. /\ tables'[Frame.new][Frame.idx] = link
      /\ \A u \in Numbers : u # Frame.new => tables'[u] = tables[u]
      /\ \A j \in Indices : j # Frame.idx => tables'[Frame.new][j] = tables[Frame.new][j]
  <2>1. /\ WithTable(Garbage) \in [0..NewTable -> [Indices -> EntryT]]
        /\ \A t \in Numbers : WithTable(Garbage)[t] = tables[t]
    BY MoreTypes, Extended
  <2>2. link \in EntryT
    BY <1>2 DEF EntryT, link
  <2>3. PICK n : n = NewTable + 1 /\ n \in Nat /\ n - 1 = NewTable
    BY <1>2
  <2>4. TheTables(n, WithTable(Garbage))
    BY <2>1, <2>3 DEF TheTables
  <2>5. Write(n, Frame.new, Frame.idx, link)
    BY <1>2, <2>2, <2>3 DEF Write
  <2>6. Written(n, WithTable(Garbage), Frame.new, Frame.idx, link)
    BY <1>1, <2>4, <2>5, Updated, Zenon
  <2>7. \A u \in Numbers : u \in 0..(n - 1)
    BY <1>2, <2>3
  <2> QED
    BY <1>2, <2>1, <2>6, <2>7 DEF Written
<1>10. /\ Frame = stack[1] /\ Advanced \in Seq(FrameT) /\ Len(Advanced) = Len(stack)
       /\ Len(stack) \in Nat \ {0}
       /\ \A k \in 1..Len(stack) :
            Advanced[k].orig = stack[k].orig /\ Advanced[k].new = stack[k].new
  BY <1>1, AdvancedFacts, AdvancedKeeps DEF Holds, Frames
<1>11. of[Frame.new] = Frame.orig
  BY <1>10 DEF Mirrors
<1>12. /\ Len(stack') = Len(stack) + 1 /\ stack'[1] = inner
       /\ \A k \in 1..Len(stack) : stack'[k + 1] = Advanced[k]
  <2>1. inner \in FrameT
    <3>1. Frame.level - 1 \in 1..LEVELS /\ 0 \in 0..FAN
      BY <1>2, PagingAssumption DEF IsLink
    <3>2. OrigEntry.addr \in Nat
      BY <1>3
    <3> QED
      BY <1>2, <3>1, <3>2 DEF FrameT
  <2> HIDE DEF inner
  <2> QED
    BY <1>1, <1>10, <2>1
<1>13. ASSUME NEW k \in 1..Len(stack') PROVE f[stack'[k].new] = stack'[k].orig
  <2>1. CASE k = 1
    BY <1>8, <1>12, <2>1
  <2>2. CASE k # 1
    <3>1. PICK m \in 1..Len(stack) : k = m + 1
      <4>1. k - 1 \in 1..Len(stack) /\ k = (k - 1) + 1
        BY <1>10, <1>12, <2>2
      <4> QED
        BY <4>1
    <3>2. stack'[k].orig = stack[m].orig /\ stack'[k].new = stack[m].new
      BY <1>10, <1>12, <3>1
    <3>3. stack[m].new \in root..(NewTable - 1) /\ of[stack[m].new] = stack[m].orig
      BY DEF Holds, Frames, Mirrors
    <3> QED
      BY <1>8, <3>2, <3>3
  <2> QED
    BY <2>1, <2>2
<1>14. ASSUME NEW t \in root..(NewTable' - 1), NEW i \in Indices, Settled(t, i)'
       PROVE  CopyOf(root, d[t], f, tables[t][i], tables[f[t]][i])'
  <2>1. t \in root..(NewTable - 1)
    <3>1. t # NewTable
      <4>1. 1 \in 1..Len(stack') /\ stack'[1].new = NewTable /\ stack'[1].idx = 0
        BY <1>10, <1>12
      <4>2. ~(i < 0)
        BY PagingAssumption DEF Indices
      <4> QED
        BY <1>14, <4>1, <4>2 DEF Settled
    <3> QED
      BY <1>2, <1>5, <3>1
  <2>2. f[t] = of[t] /\ of[t] \in 0..(root - 1)
    BY <1>8, <2>1 DEF Mirrors
  <2>3. of[t] \in Numbers /\ of[t] # Frame.new /\ t \in Numbers
    BY <1>2, <2>1, <2>2
  <2>4. tables'[f[t]] = tables[of[t]] /\ d[t] = depth[t]
    BY <1>6, <1>9, <2>2, <2>3
  <2>5. CASE t = Frame.new /\ i = Frame.idx
    <3>1. tables'[t][i] = link /\ tables'[f[t]][i] = OrigEntry
      BY <1>9, <1>11, <2>2, <2>4, <2>5 DEF OrigEntry
    <3>2. link.addr = NewTable /\ link = [OrigEntry EXCEPT !.addr = link.addr]
      BY <1>2 DEF link, EntryT
    <3>3. link.addr \in root..(NewTable' - 1) /\ f[link.addr] = OrigEntry.addr
      BY <1>2, <1>5, <1>8, <3>2
    <3> QED
      BY <1>2, <2>4, <2>5, <3>1, <3>2, <3>3 DEF CopyOf
  <2>6. CASE ~(t = Frame.new /\ i = Frame.idx)
    <3>1. tables'[t][i] = tables[t][i]
      BY <1>9, <2>3, <2>6
    <3>2. \A k \in 1..Len(Advanced) : Advanced[k].new = t => i < Advanced[k].idx
      <4>1. TAKE k \in 1..Len(Advanced)
      <4>2. k \in 1..Len(stack) /\ k + 1 \in 1..Len(stack')
        BY <1>10, <1>12
      <4> QED
        BY <1>12, <1>14, <4>2 DEF Settled
    <3>3. Settled(t, i)
      BY <1>1, <2>6, <3>2, AdvancedSettles DEF Holds
    <3>4. CopyOf(root, depth[t], of, tables[t][i], tables[of[t]][i])
      BY <2>1, <3>3 DEF Mirrors
    <3>5. \A x \in root..(NewTable - 1) : x \in root..(NewTable' - 1) /\ f[x] = of[x]
      BY <1>2, <1>5, <1>8
    <3> QED
      BY <2>4, <3>1, <3>4, <3>5 DEF CopyOf
  <2> QED
    BY <2>5, <2>6
<1>15. Mirrors(root, d, f)'
  <2>1. \A t \in root..(NewTable' - 1) : t = NewTable \/ t \in root..(NewTable - 1)
    BY <1>2, <1>5
  <2>2. ASSUME NEW t \in root..(NewTable' - 1) PROVE d[f[t]] = d[t]
    <3>1. f[t] \in 0..(root - 1)
      <4>1. t \in root..NewTable
        BY <1>2, <2>1
      <4> QED
        BY <1>8, <4>1
    <3>2. f[t] \in Numbers
      BY <1>2, <3>1
    <3>3. CASE t = NewTable
      BY <1>3, <1>6, <1>8, <3>2, <3>3
    <3>4. CASE t \in root..(NewTable - 1)
      <4>1. t \in Numbers
        BY <1>2, <3>4
      <4> QED
        BY <1>6, <1>8, <3>2, <3>4, <4>1 DEF Mirrors
    <3> QED
      BY <2>1, <3>3, <3>4
  <2>3. f \in [root..(NewTable' - 1) -> 0..(root - 1)] /\ f[root] = 0
    <3>1. (NewTable + 1) - 1 = NewTable /\ root \in root..(NewTable - 1)
      BY <1>2
    <3> QED
      BY <1>5, <1>8, <3>1 DEF Mirrors
  <2> QED
    BY <1>13, <1>14, <2>2, <2>3 DEF Mirrors, Indices
<1>16. BootSame(root, depth, d)
  <2>1. \A t \in 0..(root - 1) : t \in Numbers /\ t # Frame.new
    BY <1>2
  <2> QED
    BY <1>6, <1>9, <2>1 DEF BootSame
<1> QED
  BY <1>5, <1>15, <1>16

LEMMA ReturnMirrors ==
  ASSUME TablesType, NEW root, NEW depth, NEW of, Holds(root, depth), Mirrors(root, depth, of),
         CloneReturn
  PROVE  Holds(root, depth)' /\ Mirrors(root, depth, of)' /\ BootSame(root, depth, depth)
<1>1. stack # <<>> /\ Frame.idx = FAN /\ stack' = Tail(stack) /\ tables' = tables
  BY DEF CloneReturn
<1>2. NewTable' = NewTable /\ Holds(root, depth)'
  BY CloneReturnStep
<1>3. stack \in Seq(FrameT)
  BY DEF Holds, Frames
<1>4. /\ Frame = stack[1] /\ Len(stack) \in Nat \ {0} /\ Len(stack') = Len(stack) - 1
      /\ \A k \in 1..(Len(stack) - 1) : stack'[k] = stack[k + 1]
  BY <1>1, <1>3 DEF Frame
<1>5. ASSUME NEW t, NEW i \in Indices, Settled(t, i)' PROVE Settled(t, i)
  <2>1. ASSUME NEW k \in 1..Len(stack), stack[k].new = t PROVE i < stack[k].idx
    <3>1. CASE k = 1
      BY <1>1, <1>4, <3>1, PagingAssumption DEF Indices
    <3>2. CASE k # 1
      <4>1. k - 1 \in 1..(Len(stack) - 1) /\ k = (k - 1) + 1
        BY <1>4, <3>2
      <4> QED
        BY <1>4, <1>5, <2>1, <4>1 DEF Settled
    <3> QED
      BY <3>1, <3>2
  <2> QED
    BY <2>1 DEF Settled
<1>6. \A k \in 1..Len(stack') : of[stack'[k].new] = stack'[k].orig
  <2>1. TAKE k \in 1..Len(stack')
  <2>2. k + 1 \in 1..Len(stack) /\ stack'[k] = stack[k + 1]
    BY <1>4
  <2> QED
    BY <2>2 DEF Mirrors
<1>7. ASSUME NEW t \in root..(NewTable' - 1), NEW i \in Indices, Settled(t, i)'
      PROVE  CopyOf(root, depth[t], of, tables[t][i], tables[of[t]][i])'
  BY <1>1, <1>2, <1>5, <1>7 DEF Mirrors, CopyOf
<1>8. BootSame(root, depth, depth)
  BY <1>1 DEF BootSame
<1> QED
  BY <1>2, <1>6, <1>7, <1>8 DEF Mirrors, Indices

LEMMA MirrorsStill ==
  ASSUME TablesType, NEW root, NEW depth, NEW of, Holds(root, depth), Mirrors(root, depth, of),
         UNCHANGED paging_vars
  PROVE  Holds(root, depth)' /\ Mirrors(root, depth, of)' /\ BootSame(root, depth, depth)
<1>1. UNCHANGED <<tables, cr3, stack, stage, call, added>>
  BY DEF paging_vars
<1>2. NewTable' = NewTable /\ Holds(root, depth)'
  BY HoldsStill
<1>3. \A t, i : Settled(t, i)' = Settled(t, i)
  BY <1>1 DEF Settled
<1>4. Mirrors(root, depth, of)'
  <2>1. ASSUME NEW t \in root..(NewTable - 1), NEW i \in Indices, Settled(t, i)'
        PROVE  CopyOf(root, depth[t], of, tables[t][i], tables[of[t]][i])'
    BY <1>1, <1>2, <1>3, <2>1 DEF Mirrors, CopyOf
  <2> QED
    BY <1>1, <1>2, <2>1 DEF Mirrors, Indices
<1> QED
  BY <1>1, <1>2, <1>4 DEF BootSame

(* While the clone is under way, and with its last step. *)
LEMMA MirrorsStep ==
  ASSUME TablesType, NEW root, NEW depth, NEW of, Holds(root, depth), Mirrors(root, depth, of),
         stage = "clone", [PagingNext]_paging_vars
  PROVE  \E d, f : Holds(root, d)' /\ Mirrors(root, d, f)' /\ BootSame(root, depth, d)
<1>1. CASE CloneEntry
  BY <1>1, EntryMirrors
<1>2. CASE CloneTable
  BY <1>2, TableMirrors
<1>3. CASE CloneReturn
  BY <1>3, ReturnMirrors
<1>4. CASE UNCHANGED paging_vars
  BY <1>4, MirrorsStill
<1>5. ~StartClone /\ ~(\E r \in Requests : Add(r)) /\ ~AddStep
  BY DEF StartClone, Add, AddStep, AddPresent, AddDescend, AddHalts, AddPage, AddTable
<1> QED
  BY <1>1, <1>2, <1>3, <1>4, <1>5 DEF PagingNext, Clone

LEMMA CloneStepMirrors ==
  ASSUME PagingInv, CopyInv, [PagingNext]_paging_vars
  PROVE  CopyInv'
<1>1. TablesType /\ \E root, depth : Holds(root, depth)
  BY DEF PagingInv
<1>2. CASE StartClone
  BY <1>1, <1>2, StartMirrors DEF CopyInv
<1>3. CASE stage = "clone"
  <2>1. PICK root, depth, of : Holds(root, depth) /\ Mirrors(root, depth, of)
    BY <1>3 DEF CopyInv
  <2> QED
    BY <1>1, <1>3, <2>1, MirrorsStep DEF CopyInv
<1>4. CASE ~StartClone /\ stage # "clone"
  <2>1. stage' # "clone"
    BY <1>4 DEF PagingNext, Clone, CloneEntry, CloneTable, CloneReturn, Add, AddStep, AddPresent,
                AddDescend, AddHalts, AddPage, AddTable, Return, paging_vars
  <2> QED
    BY <2>1 DEF CopyInv
<1> QED
  BY <1>2, <1>3, <1>4

(* With the clone complete, a page is found through the copy as through    *)
(* the tables it is copied from.                                           *)
LEMMA CopyTranslates ==
  ASSUME TablesType, NEW root, NEW depth, NEW of, Tree(root, depth), Mirrors(root, depth, of),
         root \in Nat, root < NewTable, depth[root] = LEVELS,
         \A t \in root..(NewTable - 1), i \in Indices : Settled(t, i),
         NEW page \in Nat
  PROVE  Translate(tables, root, page) = Translate(tables, 0, page)
<1>1. /\ NewTable \in Nat /\ DOMAIN tables = Numbers /\ Numbers = 0..(NewTable - 1)
      /\ tables \in [DOMAIN tables -> [Indices -> EntryT]] /\ LEVELS \in Nat \ {0}
  BY PagingAssumption DEF TablesType, Numbers
<1>2. PICK w : Walks(tables, page, w) /\ \A r : Translate(tables, r, page) = w[LEVELS][r]
  BY <1>1, TranslateIsWalk
<1>3. \A level \in 1..LEVELS, t \in Numbers : w[level][t] = Seen(tables, page, w, level, t)
  <2> DEFINE F == [level \in 1..LEVELS |-> [t \in Numbers |-> Seen(tables, page, w, level, t)]]
  <2> HIDE DEF Numbers
  <2>1. w = F
    BY <1>1, <1>2 DEF Walks
  <2>2. \A level \in 1..LEVELS, t \in Numbers : F[level][t] = Seen(tables, page, w, level, t)
    OBVIOUS
  <2> HIDE DEF F
  <2> QED
    BY <2>1, <2>2, Zenon
<1> DEFINE Own(level) == {t \in root..(NewTable - 1) : depth[t] = level}
           Same(level) == \A t \in Own(level) : w[level][t] = w[level][of[t]]
           Good == {n \in Nat : n + 1 \in 1..LEVELS => Same(n + 1)}
<1>4. ASSUME NEW level \in 1..LEVELS, level - 1 \in 1..LEVELS => Same(level - 1)
      PROVE  Same(level)
  <2>1. SUFFICES ASSUME NEW t \in Own(level) PROVE w[level][t] = w[level][of[t]]
    OBVIOUS
  <2>2. PICK i \in Indices : i = Index(page, level)
    BY <1>1, IndexInTable DEF Indices
  <2>3. /\ t \in root..(NewTable - 1) /\ depth[t] = level /\ of[t] \in 0..(root - 1)
        /\ depth[of[t]] = level /\ t \in Numbers /\ of[t] \in Numbers
    BY <1>1 DEF Mirrors
  <2>4. PICK copy, e : copy = tables[t][i] /\ e = tables[of[t]][i]
    OBVIOUS
  <2>5. CopyOf(root, level, of, copy, e)
    BY <2>3, <2>4 DEF Mirrors
  <2>6. copy \in EntryT /\ e \in EntryT
    BY <1>1, <2>3, <2>4
  <2>7. /\ w[level][t] = Seen(tables, page, w, level, t)
        /\ w[level][of[t]] = Seen(tables, page, w, level, of[t])
    BY <1>3, <2>3
  <2>8. CASE ~IsLink(e, level)
    <3>1. copy = e
      BY <2>5, <2>8 DEF CopyOf
    <3> QED
      BY <2>2, <2>4, <2>7, <2>8, <3>1 DEF Seen
  <2>9. CASE IsLink(e, level)
    <3>1. /\ copy = [e EXCEPT !.addr = copy.addr]
          /\ copy.addr \in root..(NewTable - 1) /\ of[copy.addr] = e.addr
      BY <2>5, <2>9 DEF CopyOf
    <3>2. copy.present = e.present /\ copy.ps = e.ps /\ copy.write = e.write /\ copy.nx = e.nx
      BY <2>6, <3>1 DEF EntryT
    <3>3. IsLink(copy, level) /\ copy.present /\ e.present
      BY <2>9, <3>2 DEF IsLink
    <3>4. level - 1 \in 1..LEVELS
      BY <1>1, <2>9 DEF IsLink
    <3>5. copy.addr \in Own(level - 1)
      BY <2>3, <2>4, <3>1, <3>3 DEF Tree, OwnTree
    <3>6. e.addr \in 0..(root - 1)
      BY <2>3, <2>4, <2>9 DEF Tree, BootTree
    <3>7. copy.addr \in DOMAIN tables /\ e.addr \in DOMAIN tables
      BY <1>1, <3>1, <3>6
    <3>8. w[level - 1][copy.addr] = w[level - 1][e.addr]
      BY <1>4, <3>1, <3>4, <3>5
    <3>9. Through(copy, w[level - 1][copy.addr]) = Through(e, w[level - 1][e.addr])
      BY <3>2, <3>8 DEF Through
    <3>10. Seen(tables, page, w, level, t) = Through(copy, w[level - 1][copy.addr])
      BY <2>2, <2>4, <3>3, <3>7 DEF Seen
    <3>11. Seen(tables, page, w, level, of[t]) = Through(e, w[level - 1][e.addr])
      BY <2>2, <2>4, <2>9, <3>3, <3>7 DEF Seen
    <3> QED
      BY <2>7, <3>9, <3>10, <3>11
  <2> QED
    BY <2>8, <2>9
<1> HIDE DEF Same
<1>5. Good = Nat
  <2>1. 0 \in Good
    <3>1. PICK z : z = 0 + 1 /\ ~(z - 1 \in 1..LEVELS)
      OBVIOUS
    <3>2. z \in 1..LEVELS => Same(z)
      BY <1>4, <3>1
    <3> QED
      BY <3>1, <3>2
  <2>2. ASSUME NEW n \in Good PROVE n + 1 \in Good
    <3>1. n \in Nat /\ (n + 1 \in 1..LEVELS => Same(n + 1))
      OBVIOUS
    <3>2. (n + 1) + 1 \in 1..LEVELS => Same((n + 1) + 1)
      <4>1. ((n + 1) + 1) - 1 = n + 1
        BY <3>1
      <4> QED
        BY <1>4, <3>1, <4>1
    <3> QED
      BY <3>1, <3>2
  <2>3. Good \subseteq Nat
    OBVIOUS
  <2> HIDE DEF Good
  <2> QED
    BY <2>1, <2>2, <2>3, NatSets
<1>6. Same(LEVELS)
  <2>1. PICK n \in Nat : n + 1 = LEVELS
    <3>1. LEVELS - 1 \in Nat /\ (LEVELS - 1) + 1 = LEVELS
      BY <1>1
    <3> QED
      BY <3>1
  <2>2. n \in Good /\ n + 1 \in 1..LEVELS
    BY <1>1, <1>5, <2>1
  <2> QED
    BY <2>1, <2>2
<1>7. root \in Own(LEVELS) /\ of[root] = 0
  BY <1>1 DEF Mirrors
<1>8. w[LEVELS][root] = w[LEVELS][0]
  BY <1>6, <1>7 DEF Same
<1> QED
  BY <1>2, <1>8

(* The last return leaves nothing of the copy to be written. *)
LEMMA LastReturn ==
  ASSUME TablesType, NEW root, NEW depth, Holds(root, depth), CloneReturn, Tail(stack) = <<>>
  PROVE  /\ Frame.new = root /\ depth[root] = LEVELS /\ cr3 = 0 /\ root \in Nat /\ root < NewTable
         /\ \A t \in root..(NewTable - 1), i \in Indices : Settled(t, i)
<1>1. stage = "clone" /\ stack # <<>> /\ Frame.idx = FAN
  BY DEF CloneReturn
<1>2. NewTable \in Nat
  BY DEF TablesType
<1>3. stack \in Seq(FrameT) /\ Tree(root, depth) /\ root \in 0..NewTable
  BY DEF Holds, Frames, Tree
<1>4. Len(stack) = 1 /\ Frame = stack[1]
  <2>1. Len(Tail(stack)) = Len(stack) - 1 /\ Len(stack) \in Nat
    BY <1>1, <1>3
  <2>2. Len(<<>>) = 0
    OBVIOUS
  <2>3. Len(Tail(stack)) = 0
    BY <2>2
  <2>4. Len(stack) = 1
    BY <2>1, <2>3
  <2>5. Frame = stack[1]
    BY <1>1, <1>3 DEF Frame
  <2> QED
    BY <2>4, <2>5
<1>5. Frame.new = root /\ depth[root] = LEVELS /\ cr3 = 0
  BY <1>1, <1>4 DEF Holds, AtStage
<1>6. root \in Nat /\ root < NewTable
  <2>1. stack[1].new \in root..(NewTable - 1)
    BY <1>4 DEF Holds, Frames
  <2> QED
    BY <1>2, <1>3, <1>4, <1>5, <2>1
<1>7. \A t \in root..(NewTable - 1), i \in Indices : Settled(t, i)
  <2>1. \A k \in 1..Len(stack) : stack[k].idx = FAN
    BY <1>1, <1>4
  <2>2. \A i \in Indices : i < FAN
    BY PagingAssumption DEF Indices
  <2> QED
    BY <2>1, <2>2 DEF Settled
<1> QED
  BY <1>5, <1>6, <1>7

(* From the loading of the kernel to the last return.                      *)
LEMMA CopyNext ==
  ASSUME ImageInv, CopyInv, [ImageNext]_image_vars PROVE CopyInv'
<1>1. CASE lpc = "kmain" /\ PagingNext
  BY <1>1, CloneStepMirrors DEF ImageInv
<1>2. CASE UNCHANGED image_vars
  BY <1>2, CloneStepMirrors DEF ImageInv, image_vars
<1>3. CASE (LoaderMapElf \/ Kstart) /\ lpc # "kmain"
  <2>1. stage' = "boot"
    BY <1>3 DEF ImageInv, LoaderMapElf, CheckHeaders, MakeWritable, CopySegment,
                SetSegmentFlags, Kstart, table_vars
  <2> QED
    BY <2>1 DEF CopyInv
<1> QED
  BY <1>1, <1>2, <1>3 DEF ImageNext, LoaderMapElf, CheckHeaders, MakeWritable, CopySegment,
                          SetSegmentFlags, Kstart

(* clone_page_table (paging.c): the switch to the copy changes the         *)
(* translation of no page.                                                 *)
THEOREM CloneFaithfulTheorem == ImageSpec => CloneFaithful
<1>1. ImageInit => CopyInv
  BY DEF ImageInit, PagingInit, CopyInv
<1>2. ImageInv /\ CopyInv /\ [ImageNext]_image_vars => CopyInv'
  BY CopyNext
<1>3. ImageInv /\ CopyInv /\ [ImageNext]_image_vars =>
        [cr3' # cr3 => \A p \in Pages : Translate(tables', cr3', p) = Translate(tables, cr3, p)]_paging_vars
  <2> SUFFICES ASSUME ImageInv, CopyInv, [ImageNext]_image_vars, cr3' # cr3, NEW p \in Pages
               PROVE  Translate(tables', cr3', p) = Translate(tables, cr3, p)
    OBVIOUS
  <2>1. CloneReturn /\ Tail(stack) = <<>>
    BY DEF ImageNext, LoaderMapElf, CheckHeaders, MakeWritable, CopySegment, SetSegmentFlags,
           Kstart, table_vars, image_vars, paging_vars, PagingNext, Clone, StartClone, CloneEntry,
           CloneTable, CloneReturn, Add, AddStep, AddPresent, AddDescend, AddHalts, AddPage, AddTable
  <2>2. /\ stage = "clone" /\ stack # <<>> /\ Frame.idx = FAN
        /\ cr3' = Frame.new /\ tables' = tables
    BY <2>1 DEF CloneReturn
  <2>3. PICK root, depth, of : Holds(root, depth) /\ Mirrors(root, depth, of)
    BY <2>2 DEF CopyInv
  <2>4. TablesType
    BY DEF ImageInv, PagingInv
  <2>5. /\ Frame.new = root /\ depth[root] = LEVELS /\ cr3 = 0 /\ root \in Nat /\ root < NewTable
        /\ \A t \in root..(NewTable - 1), i \in Indices : Settled(t, i)
    BY <2>1, <2>3, <2>4, LastReturn
  <2>10. p \in Nat
    BY DEF Pages
  <2>11. Translate(tables, root, p) = Translate(tables, 0, p)
    BY <2>3, <2>4, <2>5, <2>10, CopyTranslates DEF Holds
  <2> QED
    BY <2>2, <2>5, <2>11
<1> QED
  BY <1>1, <1>2, <1>3, ImageInvariant, PTL DEF ImageSpec, CloneFaithful


-----------------------------------------------------------------------------
(* Division, as far as the digits of a page number need it.                *)
LEMMA Divided ==
  ASSUME NEW a \in Nat, NEW n \in Nat \ {0}
  PROVE  a \div n \in Nat /\ a % n \in 0..(n - 1) /\ a = (a \div n) * n + (a % n)
<1> DEFINE m == (a \div n) * n
<1>1. a \div n \in Nat /\ a % n \in 0..(n - 1)
  OBVIOUS
<1>2. a - m = a % n /\ m \in Int
  OBVIOUS
<1> HIDE DEF m
<1>3. a = m + (a % n)
  BY <1>1, <1>2
<1> QED
  BY <1>1, <1>3, Zenon DEF m

LEMMA Products ==
  /\ \A x, y \in Nat : x * y \in Nat
  /\ \A x, y, z \in Int : (x + y) * z = x * z + y * z
  /\ \A x, y, z \in Int : (x * y) * z = x * (y * z)
  /\ \A x, y \in Nat, z \in Nat : x <= y => x * z <= y * z
OBVIOUS

LEMMA QuotientIs ==
  ASSUME NEW a \in Nat, NEW n \in Nat \ {0}, NEW q \in Nat, NEW r \in 0..(n - 1), a = q * n + r
  PROVE  a \div n = q
<1>1. PICK x \in Nat, y \in 0..(n - 1) : x = a \div n /\ a = x * n + y
  BY Divided
<1>2. ASSUME NEW u \in Nat, NEW v \in Nat, NEW s \in 0..(n - 1), NEW t \in 0..(n - 1), u < v
      PROVE  u * n + s # v * n + t
  <2>1. (u + 1) * n <= v * n
    BY <1>2, Products
  <2>2. (u + 1) * n = u * n + n
    OBVIOUS
  <2>3. PICK c \in Nat, d \in Nat : c = u * n /\ d = v * n
    BY Products
  <2> QED
    BY <2>1, <2>2, <2>3
<1>3. ~(x < q) /\ ~(q < x)
  BY <1>1, <1>2
<1> QED
  BY <1>1, <1>3

LEMMA NestedQuotient ==
  ASSUME NEW p \in Nat, NEW s \in Nat \ {0}, NEW n \in Nat \ {0}
  PROVE  p \div (n * s) = (p \div s) \div n
<1>1. PICK x \in Nat, a \in 0..(s - 1) : x = p \div s /\ p = x * s + a
  BY Divided
<1>2. PICK y \in Nat, b \in 0..(n - 1) : y = x \div n /\ x = y * n + b
  BY Divided
<1>3. PICK m \in Nat \ {0} : m = n * s
  OBVIOUS
<1>4. p = y * m + (b * s + a)
  <2>1. (y * n + b) * s = (y * n) * s + b * s
    <3>1. PICK z \in Nat : z = y * n
      BY Products
    <3>2. (z + b) * s = z * s + b * s
      OBVIOUS
    <3> QED
      BY <3>1, <3>2, Zenon
  <2>2. (y * n) * s = y * m
    BY <1>3, Products
  <2>3. PICK c \in Nat, d \in Nat : c = y * m /\ d = b * s
    BY Products
  <2> QED
    BY <1>1, <1>2, <2>1, <2>2, <2>3
<1>5. b * s + a \in 0..(m - 1)
  <2>1. b * s <= (n - 1) * s
    <3>1. b \in Nat /\ n - 1 \in Nat /\ b <= n - 1
      OBVIOUS
    <3> QED
      BY <3>1, Products
  <2>2. (n - 1) * s = n * s - s
    OBVIOUS
  <2>3. PICK c \in Nat : c = b * s
    BY Products
  <2> QED
    BY <1>3, <2>1, <2>2, <2>3
<1>6. p \div m = y
  BY <1>4, <1>5, QuotientIs
<1> QED
  BY <1>1, <1>2, <1>3, <1>6

LEMMA SpanStep ==
  ASSUME NEW level \in Nat \ {0}
  PROVE  Span[level + 1] = FAN * Span[level]
<1>1. level + 1 \in Nat /\ ~(level + 1 <= 1) /\ (level + 1) - 1 = level
  OBVIOUS
<1> QED
  BY <1>1, SpanIs

(* The number a page's begins with at a level, and one more digit of it.   *)
Place(page, level) == page \div Span[level]

LEMMA PlaceStep ==
  ASSUME NEW page \in Nat, NEW level \in Nat \ {0}
  PROVE  /\ Place(page, level) \in Nat
         /\ Place(page, level + 1) = Place(page, level) \div FAN
         /\ Place(page, level) = Place(page, level + 1) * FAN + Index(page, level)
<1>1. PICK s \in Nat \ {0} : s = Span[level]
  BY SpanType
<1>2. FAN \in Nat \ {0}
  BY PagingAssumption
<1>3. page \div (FAN * s) = (page \div s) \div FAN
  BY <1>2, NestedQuotient
<1>4. PICK q \in Nat : q = page \div s
  BY Divided
<1>5. q = (q \div FAN) * FAN + (q % FAN)
  BY <1>2, Divided
<1>6. Span[level + 1] = FAN * s
  BY <1>1, SpanStep
<1> QED
  BY <1>1, <1>3, <1>4, <1>5, <1>6, Zenon DEF Place, Index

LEMMA PlaceInRoot ==
  ASSUME NEW page \in Pages
  PROVE  page \in Nat /\ Place(page, LEVELS + 1) = 0
<1>1. LEVELS \in Nat \ {0} /\ FAN \in Nat \ {0}
  BY PagingAssumption
<1>2. PICK s \in Nat \ {0} : s = FAN * Span[LEVELS]
  <2>1. Span[LEVELS] \in Nat \ {0}
    BY <1>1, SpanType
  <2> QED
    BY <1>1, <2>1
<1>3. page \in 0..(s - 1) /\ page \in Nat
  BY <1>2 DEF Pages
<1>4. page \div s = 0
  <2>1. page = 0 * s + page
    BY <1>3
  <2> QED
    BY <1>3, <2>1, QuotientIs
<1> QED
  BY <1>1, <1>2, <1>3, <1>4, SpanStep DEF Place

-----------------------------------------------------------------------------
(* What the tables map they map directly: each entry is for the pages its  *)
(* table is for, those whose number begins with base and the entry's index.*)
BootDirect(root, depth, base) ==
  /\ base \in [0..(root - 1) -> Nat] /\ base[0] = 0
  /\ \A t \in 0..(root - 1), i \in Indices :
       InPlace(tables[t][i], depth[t], base, base[t] * FAN + i)

OwnDirect(root, depth, base) ==
  /\ base \in [root..(NewTable - 1) -> Nat] /\ base[root] = 0
  /\ \A t \in root..(NewTable - 1), i \in Indices :
       InPlace(tables[t][i], depth[t], base, base[t] * FAN + i)

(* The tables passed on the way to a page, down to a level: no entry that  *)
(* leads from one to the next takes a permission away.                     *)
Permits(e) == e.write /\ ~e.nx
PageEntry(way, page, level) == tables[way[level]][Index(page, level)]

Way(root, depth, base, page, level, way) ==
  /\ way \in [level..LEVELS -> root..(NewTable - 1)] /\ way[LEVELS] = root
  /\ \A m \in level..LEVELS : depth[way[m]] = m /\ base[way[m]] = Place(page, m + 1)
  /\ \A m \in (level + 1)..LEVELS :
       /\ IsLink(PageEntry(way, page, m), m) /\ Permits(PageEntry(way, page, m))
       /\ PageEntry(way, page, m).addr = way[m - 1]

(* A request that has been served, and the one that is being served.       *)
Asked(e, r) ==
  /\ e.present /\ ~IsLink(e, r.granularity + 1)
  /\ e.write = ("write" \in r.flags) /\ e.nx = ("exec" \notin r.flags)

Served(root, depth, base, r) ==
  \E way : /\ Way(root, depth, base, r.page, r.granularity + 1, way)
           /\ Asked(PageEntry(way, r.page, r.granularity + 1), r)

Serving(root, depth, base) ==
  stage = "add" => \E way : /\ Way(root, depth, base, request.page, call.cur_level, way)
                            /\ way[call.cur_level] = call.page_table

Maps(root, depth, base) ==
  /\ OwnDirect(root, depth, base) /\ Serving(root, depth, base)
  /\ \A r \in added : Served(root, depth, base, r)

UseInv ==
  /\ TablesType /\ added \subseteq Requests
  /\ stage = "boot" \/ stage = "clone" \/ Running
  /\ stage = "boot" => added = {} /\ \E root, depth, base :
       Holds(root, depth) /\ BootDirect(root, depth, base)
  /\ stage = "clone" => added = {} /\ \E root, depth, base, of :
       Holds(root, depth) /\ BootDirect(root, depth, base) /\ Mirrors(root, depth, of)
  /\ Running => \E root, depth, base : Holds(root, depth) /\ Maps(root, depth, base)

-----------------------------------------------------------------------------
(* Until they are given back, the boot loader's tables stay as they were   *)
(* but for the permissions that the loader sets.                           *)
LEMMA BootDirectKept ==
  ASSUME NEW root \in Nat, NEW depth, NEW d, NEW base, BootDirect(root, depth, base),
         \A t \in 0..(root - 1), i \in Indices :
           /\ d[t] = depth[t] /\ tables'[t][i].present = tables[t][i].present
           /\ tables'[t][i].ps = tables[t][i].ps /\ tables'[t][i].addr = tables[t][i].addr
  PROVE  BootDirect(root, d, base)'
<1>1. ASSUME NEW t \in 0..(root - 1), NEW i \in Indices
      PROVE  InPlace(tables'[t][i], d[t], base, base[t] * FAN + i)
  <2>1. InPlace(tables[t][i], depth[t], base, base[t] * FAN + i)
    BY DEF BootDirect
  <2> QED
    BY <2>1 DEF InPlace, IsLink
<1> QED
  BY <1>1 DEF BootDirect, Indices

(* The copy of a direct map is one.                                        *)
LEMMA CopyIsDirect ==
  ASSUME TablesType, NEW root, NEW depth, NEW base, NEW of, Holds(root, depth), root < NewTable,
         BootDirect(root, depth, base), Mirrors(root, depth, of),
         \A t \in root..(NewTable - 1), i \in Indices : Settled(t, i)
  PROVE  \E b : OwnDirect(root, depth, b)
<1> DEFINE own == root..(NewTable - 1)
           b == [t \in own |-> base[of[t]]]
<1>1. root \in Nat /\ NewTable \in Nat /\ root \in own
  BY DEF TablesType, Holds, Tree
<1>2. /\ base \in [0..(root - 1) -> Nat] /\ base[0] = 0
      /\ of \in [own -> 0..(root - 1)] /\ of[root] = 0
  BY DEF BootDirect, Mirrors
<1>3. b \in [own -> Nat] /\ b[root] = 0 /\ \A t \in own : b[t] = base[of[t]]
  BY <1>1, <1>2
<1> HIDE DEF b
<1>4. ASSUME NEW t \in own, NEW i \in Indices
      PROVE  InPlace(tables[t][i], depth[t], b, b[t] * FAN + i)
  <2>1. PICK e, c : e = tables[of[t]][i] /\ c = tables[t][i]
    OBVIOUS
  <2>2. CopyOf(root, depth[t], of, c, e) /\ depth[of[t]] = depth[t]
    BY <2>1 DEF Mirrors
  <2>3. InPlace(e, depth[t], base, b[t] * FAN + i)
    BY <1>2, <1>3, <2>1, <2>2 DEF BootDirect
  <2>4. CASE ~IsLink(e, depth[t])
    <3>1. c = e
      BY <2>2, <2>4 DEF CopyOf
    <3> QED
      BY <2>1, <2>3, <2>4, <3>1 DEF InPlace
  <2>5. CASE IsLink(e, depth[t])
    <3>1. /\ c = [e EXCEPT !.addr = c.addr] /\ c.addr \in own /\ of[c.addr] = e.addr
      BY <2>2, <2>5 DEF CopyOf
    <3>2. e \in EntryT
      <4>1. of[t] \in Numbers
        BY <1>1, <1>2 DEF Numbers
      <4> QED
        BY <2>1, <4>1 DEF TablesType
    <3>3. IsLink(c, depth[t])
      BY <2>5, <3>1, <3>2 DEF IsLink, EntryT
    <3>4. b[c.addr] = base[e.addr]
      BY <1>3, <3>1
    <3>5. base[e.addr] = b[t] * FAN + i
      BY <2>3, <2>5 DEF InPlace, IsLink
    <3> QED
      BY <2>1, <3>3, <3>4, <3>5 DEF InPlace
  <2> QED
    BY <2>4, <2>5
<1>5. OwnDirect(root, depth, b)
  BY <1>3, <1>4 DEF OwnDirect
<1> QED
  BY <1>5

-----------------------------------------------------------------------------
(* A step that leaves the permissive links as they are leaves every way.   *)
LinksKept(root, depth, base, d, b) ==
  /\ NewTable' \in Nat /\ NewTable <= NewTable'
  /\ \A t \in root..(NewTable - 1) : d[t] = depth[t] /\ b[t] = base[t]
  /\ \A t \in root..(NewTable - 1), i \in Indices :
       IsLink(tables[t][i], depth[t]) /\ Permits(tables[t][i]) =>
         /\ IsLink(tables'[t][i], depth[t]) /\ Permits(tables'[t][i])
         /\ tables'[t][i].addr = tables[t][i].addr

LeafKept(root, depth, base, page, level) ==
  \A t \in root..(NewTable - 1) :
    /\ depth[t] = level /\ base[t] = Place(page, level + 1)
    /\ tables[t][Index(page, level)].present /\ ~IsLink(tables[t][Index(page, level)], level)
    => tables'[t][Index(page, level)] = tables[t][Index(page, level)]

LEMMA WayKept ==
  ASSUME TablesType, NEW root \in Nat, NEW depth, NEW base, NEW d, NEW b,
         LinksKept(root, depth, base, d, b),
         NEW page \in Nat, NEW level \in 1..LEVELS, NEW way, Way(root, depth, base, page, level, way)
  PROVE  Way(root, d, b, page, level, way)'
<1>1. /\ NewTable \in Nat /\ NewTable' \in Nat /\ NewTable <= NewTable' /\ LEVELS \in Nat
      /\ level \in Nat /\ \A t \in root..(NewTable - 1) : t \in root..(NewTable' - 1)
  <2>1. NewTable \in Nat /\ NewTable' \in Nat /\ NewTable <= NewTable'
    BY DEF TablesType, LinksKept
  <2>2. LEVELS \in Nat /\ level \in Nat
    BY PagingAssumption
  <2>3. \A n, m \in Nat : n <= m => \A t \in root..(n - 1) : t \in root..(m - 1)
    OBVIOUS
  <2> QED
    BY <2>1, <2>2, <2>3
<1>2. way \in [level..LEVELS -> root..(NewTable - 1)] /\ way[LEVELS] = root
  BY DEF Way
<1>3. way \in [level..LEVELS -> root..(NewTable' - 1)]
  BY <1>1, <1>2
<1>4. \A m \in level..LEVELS : d[way[m]] = m /\ b[way[m]] = Place(page, m + 1)
  BY <1>2 DEF Way, LinksKept
<1>5. ASSUME NEW m \in (level + 1)..LEVELS
      PROVE  LET e == tables'[way[m]][Index(page, m)]
             IN  IsLink(e, m) /\ Permits(e) /\ e.addr = way[m - 1]
  <2>1. m \in Nat /\ m \in level..LEVELS
    BY <1>1
  <2>2. PICK t \in root..(NewTable - 1), i \in Indices : t = way[m] /\ i = Index(page, m)
    BY <1>2, <2>1, IndexInTable DEF Indices
  <2>3. depth[t] = m /\ IsLink(tables[t][i], m) /\ Permits(tables[t][i])
        /\ tables[t][i].addr = way[m - 1]
    BY <2>1, <2>2 DEF Way, PageEntry
  <2> QED
    BY <2>2, <2>3 DEF LinksKept
<1> QED
  BY <1>2, <1>3, <1>4, <1>5 DEF Way, PageEntry

LEMMA ServedKept ==
  ASSUME TablesType, NEW root \in Nat, NEW depth, NEW base, NEW d, NEW b,
         LinksKept(root, depth, base, d, b), NEW r \in Requests, Served(root, depth, base, r),
         LeafKept(root, depth, base, r.page, r.granularity + 1)
  PROVE  Served(root, d, b, r)'
<1>1. PICK page, level : page = r.page /\ level = r.granularity + 1
  OBVIOUS
<1>2. page \in Nat /\ level \in 1..LEVELS /\ LEVELS \in Nat /\ level \in Nat
  <2>1. page \in Pages /\ r.granularity \in 0..(LEVELS - 1) /\ LEVELS \in Nat
    BY <1>1, RequestsAssumption, PagingAssumption
  <2> QED
    BY <1>1, <2>1 DEF Pages
<1>3. PICK way : /\ Way(root, depth, base, page, level, way)
                 /\ Asked(PageEntry(way, page, level), r)
  BY <1>1 DEF Served
<1>4. Way(root, d, b, page, level, way)'
  BY <1>2, <1>3, WayKept
<1>5. level \in level..LEVELS /\ way[level] \in root..(NewTable - 1)
  BY <1>2, <1>3 DEF Way
<1>6. depth[way[level]] = level /\ base[way[level]] = Place(page, level + 1)
  BY <1>3, <1>5 DEF Way
<1>7. PageEntry(way, page, level).present /\ ~IsLink(PageEntry(way, page, level), level)
  BY <1>1, <1>3 DEF Asked
<1>8. tables'[way[level]][Index(page, level)] = PageEntry(way, page, level)
  BY <1>1, <1>5, <1>6, <1>7 DEF LeafKept, PageEntry
<1>9. Asked(tables'[way[level]][Index(page, level)], r)
  BY <1>3, <1>8
<1> QED
  BY <1>1, <1>4, <1>9, Zenon DEF Served, PageEntry

(* What is the case of a step of add_to_hhdm: where it is.                 *)
AtPlace(root, depth, base, way) ==
  /\ Way(root, depth, base, request.page, call.cur_level, way)
  /\ way[call.cur_level] = call.page_table
  /\ request \in Requests /\ request.page \in Nat
  /\ base[call.page_table] = Place(request.page, call.cur_level + 1)
  /\ entry_idx = Index(request.page, call.cur_level)
  /\ Place(request.page, call.cur_level) = base[call.page_table] * FAN + entry_idx
  /\ InPlace(entry, call.cur_level, base, Place(request.page, call.cur_level))

LEMMA PlaceFacts ==
  ASSUME TablesType, NEW root, NEW depth, NEW base, Holds(root, depth), Maps(root, depth, base),
         stage = "add"
  PROVE  \E way : AtPlace(root, depth, base, way)
<1>1. AtEntry(root, depth)
  BY EntryFacts
<1>2. PICK way : /\ Way(root, depth, base, request.page, call.cur_level, way)
                 /\ way[call.cur_level] = call.page_table
  BY DEF Maps, Serving
<1>3. request \in Requests /\ request.page \in Nat
  <2>1. request \in Requests
    BY <1>1 DEF AtEntry, CallT, request
  <2>2. request.page \in Pages
    BY <2>1, RequestsAssumption
  <2> QED
    BY <2>1, <2>2 DEF Pages
<1>4. /\ call.cur_level \in 1..LEVELS /\ LEVELS \in Nat
      /\ depth[call.page_table] = call.cur_level /\ entry_idx \in Indices
      /\ call.page_table \in root..(NewTable - 1)
  BY <1>1, PagingAssumption DEF AtEntry
<1>5. base[call.page_table] = Place(request.page, call.cur_level + 1)
  <2>1. call.cur_level \in call.cur_level..LEVELS
    BY <1>4
  <2> QED
    BY <1>2, <2>1 DEF Way
<1>6. entry_idx = Index(request.page, call.cur_level)
  BY DEF entry_idx
<1>7. Place(request.page, call.cur_level) = base[call.page_table] * FAN + entry_idx
  <2>1. PICK page \in Nat, level \in Nat \ {0} : page = request.page /\ level = call.cur_level
    BY <1>3, <1>4
  <2>2. Place(page, level) = Place(page, level + 1) * FAN + Index(page, level)
    BY PlaceStep
  <2> QED
    BY <1>5, <1>6, <2>1, <2>2
<1>8. InPlace(entry, call.cur_level, base, Place(request.page, call.cur_level))
  BY <1>4, <1>7 DEF Maps, OwnDirect, entry
<1> QED
  BY <1>2, <1>3, <1>5, <1>6, <1>7, <1>8 DEF AtPlace

-----------------------------------------------------------------------------
(* The entry at which add_to_hhdm is gets another value for the same pages.*)
LEMMA EntryDirect ==
  ASSUME TablesType, NEW root, NEW depth, NEW base, AtEntry(root, depth),
         OwnDirect(root, depth, base), NewTable' = NewTable,
         NEW e, OnlyEntry(call.page_table, entry_idx, e),
         InPlace(e, call.cur_level, base, base[call.page_table] * FAN + entry_idx)
  PROVE  OwnDirect(root, depth, base)'
<1>1. /\ root \in Nat /\ NewTable \in Nat /\ depth[call.page_table] = call.cur_level
      /\ call.page_table \in root..(NewTable - 1)
  BY DEF AtEntry
<1>2. ASSUME NEW t \in root..(NewTable - 1), NEW i \in Indices
      PROVE  InPlace(tables'[t][i], depth[t], base, base[t] * FAN + i)
  <2>1. t \in Numbers
    BY <1>1 DEF Numbers
  <2>2. CASE t = call.page_table /\ i = entry_idx
    BY <1>1, <2>2 DEF OnlyEntry
  <2>3. CASE ~(t = call.page_table /\ i = entry_idx)
    <3>1. tables'[t][i] = tables[t][i]
      BY <2>1, <2>3 DEF OnlyEntry
    <3> QED
      BY <3>1 DEF OwnDirect
  <2> QED
    BY <2>2, <2>3
<1> QED
  BY <1>2 DEF OwnDirect, Indices

(* If it was a link that permits, it still is.                             *)
LEMMA EntryLinks ==
  ASSUME TablesType, NEW root, NEW depth, NEW base, AtEntry(root, depth), NewTable' = NewTable,
         NEW e, OnlyEntry(call.page_table, entry_idx, e),
         IsLink(entry, call.cur_level) =>
           IsLink(e, call.cur_level) /\ Permits(e) /\ e.addr = entry.addr
  PROVE  LinksKept(root, depth, base, depth, base)
<1>1. /\ root \in Nat /\ NewTable \in Nat /\ depth[call.page_table] = call.cur_level
  BY DEF AtEntry
<1>2. ASSUME NEW t \in root..(NewTable - 1), NEW i \in Indices,
             IsLink(tables[t][i], depth[t]), Permits(tables[t][i])
      PROVE  /\ IsLink(tables'[t][i], depth[t]) /\ Permits(tables'[t][i])
             /\ tables'[t][i].addr = tables[t][i].addr
  <2>1. t \in Numbers
    BY <1>1 DEF Numbers
  <2>2. CASE t = call.page_table /\ i = entry_idx
    BY <1>1, <1>2, <2>2 DEF OnlyEntry, entry
  <2>3. CASE ~(t = call.page_table /\ i = entry_idx)
    <3>1. tables'[t][i] = tables[t][i]
      BY <2>1, <2>3 DEF OnlyEntry
    <3> QED
      BY <1>2, <3>1
  <2> QED
    BY <2>2, <2>3
<1> QED
  BY <1>1, <1>2 DEF LinksKept

(* And of another request that has been served it is not the page's.       *)
LEMMA OtherLeaf ==
  ASSUME TablesType, NEW root, NEW depth, NEW base, NEW way, AtEntry(root, depth),
         AtPlace(root, depth, base, way), NEW e, OnlyEntry(call.page_table, entry_idx, e),
         NEW r \in Requests,
         \/ ~entry.present \/ IsLink(entry, call.cur_level)
         \/ level_matches_granularity /\ ~InGranule(r.page, request)
  PROVE  LeafKept(root, depth, base, r.page, r.granularity + 1)
<1>1. PICK page, level : page = r.page /\ level = r.granularity + 1
  OBVIOUS
<1>2. page \in Nat /\ level \in Nat \ {0}
  <2>1. page \in Pages /\ r.granularity \in 0..(LEVELS - 1)
    BY <1>1, RequestsAssumption
  <2> QED
    BY <1>1, <2>1 DEF Pages
<1>3. PICK i \in Indices : i = Index(page, level)
  BY <1>2, IndexInTable DEF Indices
<1>4. /\ root \in Nat /\ NewTable \in Nat /\ depth[call.page_table] = call.cur_level
  BY DEF AtEntry
<1>5. ASSUME NEW t \in root..(NewTable - 1), depth[t] = level, base[t] = Place(page, level + 1),
             tables[t][i].present, ~IsLink(tables[t][i], level)
      PROVE  tables'[t][i] = tables[t][i]
  <2>1. t \in Numbers
    BY <1>4 DEF Numbers
  <2>2. ASSUME t = call.page_table, i = entry_idx PROVE FALSE
    <3>1. level = call.cur_level
      BY <1>4, <1>5, <2>2
    <3>2. level_matches_granularity /\ ~InGranule(page, request)
      BY <1>1, <1>5, <2>2, <3>1 DEF entry
    <3>3. Place(request.page, level) = Place(page, level + 1) * FAN + i
      BY <1>5, <2>2, <3>1 DEF AtPlace
    <3>4. Place(page, level) = Place(page, level + 1) * FAN + i
      BY <1>2, <1>3, PlaceStep
    <3>5. Place(page, level) = Place(request.page, level)
      BY <3>3, <3>4
    <3> QED
      BY <3>1, <3>2, <3>5 DEF level_matches_granularity, InGranule, Place
  <2> QED
    BY <2>1, <2>2 DEF OnlyEntry
<1> QED
  BY <1>1, <1>3, <1>5 DEF LeafKept

(* A request is served when the entry for its page is set as it asks.      *)
LEMMA RequestServed ==
  ASSUME TablesType, NEW root, NEW depth, NEW base, NEW way,
         AtEntry(root, depth), AtPlace(root, depth, base, way), NEW e \in EntryT,
         OnlyEntry(call.page_table, entry_idx, e), LinksKept(root, depth, base, depth, base),
         level_matches_granularity, e.present, ~IsLink(e, call.cur_level),
         e.write = ("write" \in request.flags), e.nx = ("exec" \notin request.flags)
  PROVE  \A r : r = request => Served(root, depth, base, r)'
<1>1. PICK r \in Requests : r = request
  BY DEF AtPlace
<1>2. PICK level : level = call.cur_level
  OBVIOUS
<1>3. level \in 1..LEVELS /\ level = r.granularity + 1 /\ root \in Nat /\ r.page \in Nat
  BY <1>1, <1>2 DEF AtEntry, AtPlace, level_matches_granularity
<1>4. Way(root, depth, base, r.page, level, way)'
  BY <1>1, <1>2, <1>3, WayKept DEF AtPlace
<1>5. tables'[way[level]][Index(r.page, level)] = e
  BY <1>1, <1>2 DEF AtPlace, OnlyEntry
<1>6. Asked(e, r)
  BY <1>1, <1>2, <1>3 DEF Asked
<1>7. Served(root, depth, base, r)'
  BY <1>3, <1>4, <1>5, <1>6, Zenon DEF Served, PageEntry
<1> QED
  BY <1>1, <1>7

LEMMA FlagsSet ==
  ASSUME NEW e \in EntryT, NEW flags
  PROVE  /\ SetFlags(e, flags, FALSE).write = ("write" \in flags)
         /\ SetFlags(e, flags, FALSE).nx = ("exec" \notin flags)
         /\ Permits(SetFlags(e, flags, TRUE))
<1>1. ASSUME NEW u \in BOOLEAN, NEW v \in BOOLEAN
      PROVE  LET f == [e EXCEPT !.nx = u, !.write = v] IN f.nx = u /\ f.write = v
  BY DEF EntryT
<1>2. PICK u \in BOOLEAN, v \in BOOLEAN : u = ("exec" \notin flags) /\ v = ("write" \in flags)
  <2>1. ("exec" \notin flags) \in BOOLEAN /\ ("write" \in flags) \in BOOLEAN
    OBVIOUS
  <2> QED
    BY <2>1, Zenon
<1>3. SetFlags(e, flags, FALSE) = [e EXCEPT !.nx = u, !.write = v]
  <2>1. ~("exec" \in flags \/ FALSE) = u /\ ("write" \in flags \/ FALSE) = v
    BY <1>2
  <2> QED
    BY <2>1, Zenon DEF SetFlags
<1>4. SetFlags(e, flags, TRUE) = [e EXCEPT !.nx = FALSE, !.write = TRUE]
  <2>1. ~("exec" \in flags \/ TRUE) = FALSE /\ ("write" \in flags \/ TRUE) = TRUE
    OBVIOUS
  <2> QED
    BY <2>1, Zenon DEF SetFlags
<1>5. SetFlags(e, flags, FALSE).nx = u /\ SetFlags(e, flags, FALSE).write = v
  BY <1>1, <1>3
<1>6. ~SetFlags(e, flags, TRUE).nx /\ SetFlags(e, flags, TRUE).write
  BY <1>4 DEF EntryT
<1> QED
  BY <1>2, <1>5, <1>6, Zenon DEF Permits

(* Both ways to serve a request: the entry was for the page already, or    *)
(* was absent.                                                             *)
LEMMA ReturnMaps ==
  ASSUME TablesType, NEW root, NEW depth, NEW base, NEW way, Maps(root, depth, base),
         added \subseteq Requests, AtEntry(root, depth), AtPlace(root, depth, base, way),
         NEW e \in EntryT, SetEntry(e), Return, level_matches_granularity,
         ~IsLink(entry, call.cur_level), e.present, ~IsLink(e, call.cur_level),
         InPlace(e, call.cur_level, base, Place(request.page, call.cur_level)),
         e.write = ("write" \in request.flags), e.nx = ("exec" \notin request.flags)
  PROVE  Maps(root, depth, base)' /\ added' \subseteq Requests
<1>1. NewTable' = NewTable /\ OnlyEntry(call.page_table, entry_idx, e) /\ root \in Nat
  BY EntryWritten DEF AtEntry
<1>2. OwnDirect(root, depth, base)'
  BY <1>1, EntryDirect DEF Maps, AtPlace
<1>3. LinksKept(root, depth, base, depth, base)
  BY <1>1, EntryLinks
<1>4. /\ stage' = "idle" /\ request \in Requests
      /\ added' = {r \in added : ~InGranule(r.page, request)} \union {request}
  BY DEF Return, AtPlace
<1>5. ASSUME NEW r \in added' PROVE Served(root, depth, base, r)'
  <2>1. CASE r = request
    BY <1>1, <1>3, <2>1, RequestServed
  <2>2. CASE r \in added /\ ~InGranule(r.page, request)
    <3>1. r \in Requests /\ Served(root, depth, base, r)
      BY <2>2 DEF Maps
    <3>2. LeafKept(root, depth, base, r.page, r.granularity + 1)
      BY <1>1, <2>2, <3>1, OtherLeaf
    <3> QED
      BY <1>1, <1>3, <3>1, <3>2, ServedKept
  <2> QED
    BY <1>4, <2>1, <2>2
<1>6. Serving(root, depth, base)'
  BY <1>4 DEF Serving
<1> QED
  BY <1>2, <1>4, <1>5, <1>6 DEF Maps

LEMMA AddPresentMaps ==
  ASSUME TablesType, NEW root, NEW depth, NEW base, Holds(root, depth), Maps(root, depth, base),
         added \subseteq Requests, AddPresent
  PROVE  Holds(root, depth)' /\ Maps(root, depth, base)' /\ added' \subseteq Requests
<1> DEFINE e == SetFlags(entry, request.flags, FALSE)
<1>1. /\ stage = "add" /\ entry.present /\ level_matches_granularity /\ SetEntry(e) /\ Return
      /\ ~IsLink(entry, call.cur_level)
  BY DEF AddPresent, can_descend, IsLink
<1>2. AtEntry(root, depth) /\ entry \in EntryT
  BY <1>1, EntryFacts DEF AtEntry
<1>3. PICK way : AtPlace(root, depth, base, way)
  BY <1>1, PlaceFacts
<1>4. /\ e \in EntryT /\ e.present = entry.present /\ e.ps = entry.ps /\ e.addr = entry.addr
      /\ e.write = ("write" \in request.flags) /\ e.nx = ("exec" \notin request.flags)
  <2>3. e.write = ("write" \in request.flags) /\ e.nx = ("exec" \notin request.flags)
    BY <1>2, FlagsSet, Zenon
  <2>4. e \in EntryT /\ e.present = entry.present /\ e.ps = entry.ps /\ e.addr = entry.addr
    BY <1>2, SetFlagsType
  <2> QED
    BY <2>3, <2>4
<1> HIDE DEF e
<1>5. /\ ~IsLink(e, call.cur_level)
      /\ InPlace(e, call.cur_level, base, Place(request.page, call.cur_level))
  BY <1>1, <1>3, <1>4 DEF IsLink, InPlace, AtPlace
<1>6. Maps(root, depth, base)' /\ added' \subseteq Requests
  BY <1>1, <1>2, <1>3, <1>4, <1>5, ReturnMaps
<1> QED
  BY <1>6, AddPresentStep

LEMMA AddPageMaps ==
  ASSUME TablesType, NEW root, NEW depth, NEW base, Holds(root, depth), Maps(root, depth, base),
         added \subseteq Requests, AddPage
  PROVE  Holds(root, depth)' /\ Maps(root, depth, base)' /\ added' \subseteq Requests
<1> DEFINE f == SetFlags(Absent, request.flags, FALSE)
           a == (request.page \div Span[call.cur_level]) * Span[call.cur_level]
           large == call.cur_level # 1
           e == [f EXCEPT !.present = TRUE, !.ps = large, !.addr = a]
<1>1. /\ stage = "add" /\ ~entry.present /\ level_matches_granularity /\ SetEntry(e) /\ Return
      /\ ~IsLink(entry, call.cur_level)
  BY DEF AddPage, IsLink
<1>2. AtEntry(root, depth) /\ call.cur_level \in 1..LEVELS
  BY <1>1, EntryFacts DEF AtEntry
<1>3. PICK way : AtPlace(root, depth, base, way)
  BY <1>1, PlaceFacts
<1>4. /\ f \in EntryT
      /\ f.write = ("write" \in request.flags) /\ f.nx = ("exec" \notin request.flags)
  <2>3. f.write = ("write" \in request.flags) /\ f.nx = ("exec" \notin request.flags)
    BY MoreTypes, FlagsSet, Zenon
  <2>4. f \in EntryT
    BY MoreTypes, SetFlagsType
  <2> QED
    BY <2>3, <2>4
<1>5. a = Place(request.page, call.cur_level) * Span[call.cur_level] /\ a \in Nat
  <2>1. PICK s \in Nat \ {0} : Span[call.cur_level] = s
    BY <1>2, SpanType
  <2>2. PICK q \in Nat : q = request.page \div s
    BY <1>3, Divided DEF AtPlace
  <2>3. q * s \in Nat
    BY Products
  <2> QED
    BY <2>1, <2>2, <2>3 DEF Place
<1>6. large \in BOOLEAN /\ (~large => ~(call.cur_level > 1))
  BY <1>2
<1> HIDE DEF a, f, large
<1>7. /\ e \in EntryT /\ e.ps = large /\ e.present /\ e.addr = a
      /\ e.write = f.write /\ e.nx = f.nx
  BY <1>4, <1>5, <1>6 DEF EntryT
<1> HIDE DEF e
<1>8. ~IsLink(e, call.cur_level)
  BY <1>6, <1>7 DEF IsLink
<1>9. InPlace(e, call.cur_level, base, Place(request.page, call.cur_level))
  BY <1>5, <1>7, <1>8 DEF InPlace
<1>10. e.write = ("write" \in request.flags) /\ e.nx = ("exec" \notin request.flags)
  BY <1>4, <1>7
<1>11. Maps(root, depth, base)' /\ added' \subseteq Requests
  BY <1>1, <1>2, <1>3, <1>7, <1>8, <1>9, <1>10, ReturnMaps
<1> QED
  BY <1>11, AddPageStep

-----------------------------------------------------------------------------
(* A step down leads further on the way.                                   *)
LEMMA FurtherDown ==
  ASSUME NEW root, NEW depth, NEW base, NEW page, NEW level \in 2..LEVELS, NEW way, NEW t,
         Way(root, depth, base, page, level, way)',
         IsLink(tables'[way[level]][Index(page, level)], level),
         Permits(tables'[way[level]][Index(page, level)]),
         tables'[way[level]][Index(page, level)].addr = t,
         t \in root..(NewTable' - 1), depth[t] = level - 1, base[t] = Place(page, level)
  PROVE  \E w : Way(root, depth, base, page, level - 1, w)' /\ w[level - 1] = t
<1> DEFINE own == root..(NewTable' - 1)
           w == [m \in (level - 1)..LEVELS |-> IF m = level - 1 THEN t ELSE way[m]]
<1>1. LEVELS \in Nat /\ level \in Nat /\ level > 1 /\ level <= LEVELS
  BY PagingAssumption
<1>2. way \in [level..LEVELS -> own] /\ way[LEVELS] = root
  BY DEF Way
<1>3. /\ \A m \in (level - 1)..LEVELS : m = level - 1 \/ m \in level..LEVELS
      /\ \A m \in level..LEVELS : m # level - 1 /\ m \in (level - 1)..LEVELS
      /\ level - 1 \in (level - 1)..LEVELS /\ LEVELS \in level..LEVELS
  BY <1>1
<1>4. /\ w \in [(level - 1)..LEVELS -> own] /\ w[level - 1] = t
      /\ \A m \in level..LEVELS : w[m] = way[m]
  BY <1>2, <1>3
<1> HIDE DEF w
<1>5. \A m \in (level - 1)..LEVELS : depth[w[m]] = m /\ base[w[m]] = Place(page, m + 1)
  <2>1. ASSUME NEW m \in (level - 1)..LEVELS PROVE depth[w[m]] = m /\ base[w[m]] = Place(page, m + 1)
    <3>1. CASE m = level - 1
      BY <1>1, <1>4, <3>1
    <3>2. CASE m \in level..LEVELS
      BY <1>4, <3>2 DEF Way
    <3> QED
      BY <1>3, <3>1, <3>2
  <2> QED
    BY <2>1
<1>6. ASSUME NEW m \in ((level - 1) + 1)..LEVELS
      PROVE  LET e == tables'[w[m]][Index(page, m)]
             IN  IsLink(e, m) /\ Permits(e) /\ e.addr = w[m - 1]
  <2>1. m \in level..LEVELS
    BY <1>1
  <2>2. CASE m = level
    BY <1>4, <2>1, <2>2
  <2>3. CASE m # level
    <3>1. m \in (level + 1)..LEVELS /\ m - 1 \in level..LEVELS
      BY <1>1, <2>1, <2>3
    <3>2. w[m] = way[m] /\ w[m - 1] = way[m - 1]
      BY <1>4, <2>1, <3>1
    <3> QED
      BY <3>1, <3>2 DEF Way, PageEntry
  <2> QED
    BY <2>2, <2>3
<1>7. Way(root, depth, base, page, level - 1, w)'
  BY <1>2, <1>3, <1>4, <1>5, <1>6 DEF Way, PageEntry
<1> QED
  BY <1>4, <1>7

LEMMA AddDescendMaps ==
  ASSUME TablesType, NEW root, NEW depth, NEW base, Holds(root, depth), Maps(root, depth, base),
         added \subseteq Requests, AddDescend
  PROVE  Holds(root, depth)' /\ Maps(root, depth, base)' /\ added' \subseteq Requests
<1> DEFINE e == SetFlags(entry, request.flags, TRUE)
<1>1. /\ stage = "add" /\ stage' = "add" /\ entry.present /\ SetEntry(e) /\ added' = added
      /\ IsLink(entry, call.cur_level) /\ call.cur_level > 1
      /\ call' = [call EXCEPT !.cur_level = @ - 1, !.page_table = entry.addr]
  BY DEF AddDescend, can_descend, IsLink
<1>2. /\ AtEntry(root, depth) /\ entry \in EntryT /\ root \in Nat
      /\ call \in CallT /\ call.cur_level \in 1..LEVELS
  BY <1>1, EntryFacts DEF AtEntry
<1>3. PICK way : AtPlace(root, depth, base, way)
  BY <1>1, PlaceFacts
<1>4. /\ e \in EntryT /\ e.present = entry.present /\ e.ps = entry.ps /\ e.addr = entry.addr
      /\ Permits(e)
  <2>3. Permits(e)
    BY <1>2, FlagsSet, Zenon
  <2>4. e \in EntryT /\ e.present = entry.present /\ e.ps = entry.ps /\ e.addr = entry.addr
    BY <1>2, SetFlagsType
  <2> QED
    BY <2>3, <2>4
<1> HIDE DEF e
<1>5. IsLink(e, call.cur_level)
  BY <1>1, <1>4 DEF IsLink
<1>6. NewTable' = NewTable /\ OnlyEntry(call.page_table, entry_idx, e)
  BY <1>1, <1>2, <1>4, EntryWritten
<1>7. OwnDirect(root, depth, base)'
  <2>1. InPlace(e, call.cur_level, base, base[call.page_table] * FAN + entry_idx)
    BY <1>3, <1>4 DEF AtPlace, InPlace, IsLink
  <2> QED
    BY <1>2, <1>6, <2>1, EntryDirect DEF Maps
<1>8. LinksKept(root, depth, base, depth, base)
  BY <1>2, <1>4, <1>5, <1>6, EntryLinks
<1>9. ASSUME NEW r \in added' PROVE Served(root, depth, base, r)'
  <2>1. r \in Requests /\ Served(root, depth, base, r)
    BY <1>1 DEF Maps
  <2>2. LeafKept(root, depth, base, r.page, r.granularity + 1)
    BY <1>1, <1>2, <1>3, <1>6, <2>1, OtherLeaf
  <2> QED
    BY <1>2, <1>8, <2>1, <2>2, ServedKept
<1>10. PICK page \in Nat, level \in 2..LEVELS : page = request.page /\ level = call.cur_level
  <2>1. call.cur_level \in 2..LEVELS
    BY <1>1, <1>2, PagingAssumption
  <2> QED
    BY <1>3, <2>1 DEF AtPlace
<1>11. Serving(root, depth, base)'
  <2>1. /\ call'.request = call.request /\ call'.cur_level = level - 1
        /\ call'.page_table = entry.addr
    BY <1>1, <1>2, <1>10 DEF CallT
  <2>2. level \in 1..LEVELS /\ way[level] = call.page_table
    BY <1>3, <1>10 DEF AtPlace
  <2>3. Way(root, depth, base, page, level, way)'
    BY <1>2, <1>3, <1>8, <1>10, <2>2, WayKept DEF AtPlace
  <2>4. tables'[way[level]][Index(page, level)] = e
    BY <1>3, <1>6, <1>10, <2>2 DEF AtPlace, OnlyEntry
  <2>5. base[entry.addr] = Place(page, level)
    BY <1>1, <1>3, <1>10 DEF AtPlace, InPlace
  <2>6. entry.addr \in root..(NewTable' - 1) /\ depth[entry.addr] = level - 1
    <3>1. Holds(root, depth)'
      BY AddDescendStep
    <3>2. call'.page_table \in root..(NewTable' - 1) /\ depth[call'.page_table] = call'.cur_level
      BY <1>1, <3>1 DEF Holds, AtStage
    <3> QED
      BY <2>1, <3>2
  <2>7. \E w : Way(root, depth, base, page, level - 1, w)' /\ w[level - 1] = entry.addr
    BY <1>4, <1>5, <1>10, <2>3, <2>4, <2>5, <2>6, FurtherDown
  <2>8. request' = request
    BY <2>1 DEF request
  <2> QED
    BY <1>10, <2>1, <2>7, <2>8, Zenon DEF Serving
<1>12. Maps(root, depth, base)'
  BY <1>7, <1>9, <1>11 DEF Maps
<1> QED
  BY <1>1, <1>12, AddDescendStep

-----------------------------------------------------------------------------
(* A table more, for the pages whose number begins with a.                 *)
MoreBases(root, n, base, a, b) ==
  /\ b \in [root..n -> Nat] /\ b[n] = a
  /\ \A t \in root..(n - 1) : b[t] = base[t]

LEMMA OneMoreBase ==
  ASSUME NEW root \in Nat, NEW n \in Nat, root < n, NEW a \in Nat,
         NEW base \in [root..(n - 1) -> Nat]
  PROVE  \E b : MoreBases(root, n, base, a, b)
<1> DEFINE b == [t \in root..n |-> IF t = n THEN a ELSE base[t]]
<1>1. \A t \in root..n : t # n => t \in root..(n - 1)
  OBVIOUS
<1>2. b \in [root..n -> Nat] /\ b[n] = a /\ \A t \in root..(n - 1) : b[t] = base[t]
  BY <1>1
<1> HIDE DEF b
<1>3. MoreBases(root, n, base, a, b)
  BY <1>2 DEF MoreBases
<1> QED
  BY <1>3

LEMMA AddTableMaps ==
  ASSUME TablesType, NEW root, NEW depth, NEW base, Holds(root, depth), Maps(root, depth, base),
         added \subseteq Requests, AddTable
  PROVE  /\ added' \subseteq Requests
         /\ \E d, b : Holds(root, d)' /\ Maps(root, d, b)'
<1> DEFINE own == root..(NewTable - 1)
           T == call.page_table
           I == entry_idx
<1>1. /\ stage = "add" /\ ~entry.present /\ call.cur_level # request.granularity + 1
      /\ UNCHANGED <<cr3, stack, stage, call, added>>
  BY DEF AddTable, level_matches_granularity
<1>2. AtEntry(root, depth)
  BY <1>1, EntryFacts
<1>3. /\ root \in Nat /\ NewTable \in Nat /\ root < NewTable /\ stack = <<>>
      /\ T \in own /\ I \in Indices /\ depth[T] = call.cur_level /\ call.cur_level \in 1..LEVELS
      /\ LEVELS \in Nat /\ call.cur_level > 1
  BY <1>1, <1>2, PagingAssumption DEF AtEntry
<1>4. PICK way : AtPlace(root, depth, base, way)
  BY <1>1, PlaceFacts
<1>5. PICK d : Deeper(NewTable, depth, call.cur_level - 1, d)
  BY AddTableDepth, Zenon
<1>6. Holds(root, d)' /\ NewTable' = NewTable + 1
  BY <1>5, AddTableStep
<1>7. PICK page \in Nat, level \in 1..LEVELS : page = request.page /\ level = call.cur_level
  BY <1>3, <1>4 DEF AtPlace
<1>8. PICK b : MoreBases(root, NewTable, base, Place(page, level), b)
  <2>1. base \in [root..(NewTable - 1) -> Nat]
    BY DEF Maps, OwnDirect
  <2>2. PICK a \in Nat : a = Place(page, level)
    <3>1. level \in Nat \ {0}
      OBVIOUS
    <3> QED
      BY <3>1, PlaceStep
  <2> QED
    BY <1>3, <2>1, <2>2, OneMoreBase, Zenon
<1>9. /\ b \in [root..NewTable -> Nat] /\ b[NewTable] = Place(page, level)
      /\ \A t \in own : b[t] = base[t]
  BY <1>8 DEF MoreBases
<1>10. \A t \in own : d[t] = depth[t] /\ t \in Numbers
  BY <1>3, <1>5 DEF Deeper, Numbers
<1>11. /\ TableLink.addr = NewTable /\ tables'[NewTable] = Empty
       /\ OnlyEntry(T, I, TableLink)
  BY <1>2, TableWritten
<1>12. IsLink(TableLink, level)
  <2>1. PICK f \in EntryT : f = SetFlags(Absent, request.flags, TRUE) /\ ~f.ps
    <3>1. Absent \in EntryT /\ ~Absent.ps
      BY MoreTypes DEF Absent
    <3>2. /\ SetFlags(Absent, request.flags, TRUE) \in EntryT
          /\ SetFlags(Absent, request.flags, TRUE).ps = Absent.ps
      BY <3>1, SetFlagsType, Zenon
    <3> QED
      BY <3>1, <3>2
  <2>2. TableLink = [f EXCEPT !.present = TRUE, !.addr = NewTable]
    BY <2>1 DEF TableLink
  <2>3. TableLink.present /\ ~TableLink.ps
    BY <2>1, <2>2 DEF EntryT
  <2> QED
    BY <1>3, <1>7, <2>3 DEF IsLink
<1>13. LinksKept(root, depth, base, d, b)
  <2>1. ASSUME NEW t \in own, NEW i \in Indices, IsLink(tables[t][i], depth[t])
        PROVE  tables'[t][i] = tables[t][i]
    <3>1. ~(t = T /\ i = I)
      BY <1>1, <2>1 DEF IsLink, entry
    <3> QED
      BY <1>10, <1>11, <3>1 DEF OnlyEntry
  <2> QED
    BY <1>3, <1>6, <1>9, <1>10, <2>1 DEF LinksKept
<1>14. OwnDirect(root, d, b)'
  <2>1. ASSUME NEW t \in root..(NewTable' - 1), NEW i \in Indices
        PROVE  InPlace(tables'[t][i], d[t], b, b[t] * FAN + i)
    <3>1. t = NewTable \/ t \in own
      BY <1>3, <1>6
    <3>2. CASE t = NewTable
      BY <1>11, <3>2, MoreTypes DEF InPlace
    <3>3. CASE t = T /\ i = I
      <4>1. tables'[t][i] = TableLink /\ d[t] = level
        BY <1>3, <1>7, <1>10, <1>11, <3>3 DEF OnlyEntry
      <4>2. b[t] * FAN + i = Place(page, level)
        BY <1>3, <1>4, <1>7, <1>9, <3>3 DEF AtPlace
      <4> QED
        BY <1>9, <1>11, <1>12, <4>1, <4>2 DEF InPlace
    <3>4. CASE t \in own /\ ~(t = T /\ i = I)
      <4>1. tables'[t][i] = tables[t][i] /\ d[t] = depth[t] /\ b[t] = base[t]
        BY <1>9, <1>10, <1>11, <3>4 DEF OnlyEntry
      <4>2. InPlace(tables[t][i], depth[t], base, base[t] * FAN + i)
        BY <3>4 DEF Maps, OwnDirect
      <4>3. IsLink(tables[t][i], depth[t]) => tables[t][i].addr \in own
        <5>1. Settled(t, i)
          BY <1>3, AllSettled
        <5>2. SUFFICES ASSUME IsLink(tables[t][i], depth[t]) PROVE tables[t][i].addr \in own
          OBVIOUS
        <5>3. tables[t][i].addr \in (root + 1)..(NewTable - 1)
          BY <3>4, <5>1, <5>2 DEF Holds, Tree, OwnTree
        <5> QED
          BY <1>3, <5>3
      <4> QED
        BY <1>9, <4>1, <4>2, <4>3 DEF InPlace
    <3> QED
      BY <3>1, <3>2, <3>3, <3>4
  <2>2. b \in [root..(NewTable' - 1) -> Nat] /\ b[root] = 0
    <3>1. NewTable' - 1 = NewTable /\ root \in own
      BY <1>3, <1>6
    <3> QED
      BY <1>9, <3>1 DEF Maps, OwnDirect
  <2> QED
    BY <2>1, <2>2 DEF OwnDirect, Indices
<1>15. ASSUME NEW r \in added' PROVE Served(root, d, b, r)'
  <2>1. r \in Requests /\ Served(root, depth, base, r)
    BY <1>1 DEF Maps
  <2>2. LeafKept(root, depth, base, r.page, r.granularity + 1)
    BY <1>1, <1>2, <1>4, <1>11, <2>1, OtherLeaf
  <2> QED
    BY <1>3, <1>13, <2>1, <2>2, ServedKept
<1>16. Serving(root, d, b)'
  <2>1. Way(root, d, b, page, level, way)'
    BY <1>3, <1>4, <1>7, <1>13, WayKept DEF AtPlace
  <2>2. call' = call /\ request' = request /\ way[level] = call.page_table
    BY <1>1, <1>4, <1>7 DEF AtPlace, request
  <2> QED
    BY <1>7, <2>1, <2>2, Zenon DEF Serving
<1>17. Maps(root, d, b)'
  BY <1>14, <1>15, <1>16 DEF Maps
<1> QED
  BY <1>1, <1>6, <1>17

-----------------------------------------------------------------------------
(* The steps that leave the tables as they are.                            *)
LEMMA MapsSame ==
  ASSUME NEW root, NEW depth, NEW base, Maps(root, depth, base), UNCHANGED <<tables, added>>,
         Serving(root, depth, base)'
  PROVE  Maps(root, depth, base)'
<1>1. NewTable' = NewTable
  BY DEF NewTable
<1>2. OwnDirect(root, depth, base)'
  BY <1>1 DEF Maps, OwnDirect
<1>3. ASSUME NEW page, NEW level, NEW way, Way(root, depth, base, page, level, way)
      PROVE  Way(root, depth, base, page, level, way)'
  BY <1>1, <1>3 DEF Way, PageEntry
<1>4. ASSUME NEW r \in added PROVE Served(root, depth, base, r)'
  BY <1>3 DEF Maps, Served, PageEntry
<1> QED
  BY <1>2, <1>4 DEF Maps

LEMMA AddMaps ==
  ASSUME TablesType, NEW root, NEW depth, NEW base, Holds(root, depth), Maps(root, depth, base),
         NEW r \in Requests, Add(r)
  PROVE  Holds(root, depth)' /\ Maps(root, depth, base)'
<1>1. /\ stage = "idle" /\ UNCHANGED <<tables, cr3, added>>
      /\ call' = [request |-> r, cur_level |-> LEVELS, page_table |-> cr3]
  BY DEF Add
<1>2. /\ cr3 = root /\ root < NewTable /\ depth[root] = LEVELS /\ root \in Nat /\ NewTable \in Nat
      /\ LEVELS \in Nat \ {0} /\ NewTable' = NewTable
  BY <1>1, PagingAssumption DEF Holds, AtStage, Running, Tree, TablesType, NewTable
<1>3. base[root] = 0 /\ Place(r.page, LEVELS + 1) = 0
  <2>1. r.page \in Pages
    BY RequestsAssumption
  <2> QED
    BY <2>1, PlaceInRoot DEF Maps, OwnDirect
<1> DEFINE way == [m \in LEVELS..LEVELS |-> root]
<1>4. /\ \A m \in LEVELS..LEVELS : m = LEVELS /\ way[m] = root
      /\ \A m \in (LEVELS + 1)..LEVELS : FALSE
      /\ way \in [LEVELS..LEVELS -> root..(NewTable' - 1)] /\ way[LEVELS] = root
  BY <1>2
<1> HIDE DEF way
<1>5. Way(root, depth, base, r.page, LEVELS, way)'
  BY <1>2, <1>3, <1>4 DEF Way
<1>6. request' = r /\ call'.cur_level = LEVELS /\ call'.page_table = root
  BY <1>1, <1>2 DEF request
<1>7. Serving(root, depth, base)'
  BY <1>4, <1>5, <1>6, Zenon DEF Serving
<1>8. Maps(root, depth, base)'
  BY <1>1, <1>7, MapsSame
<1> QED
  BY <1>8, AddStarts

(* The return that ends the clone. *)
LEMMA ReturnToIdle ==
  ASSUME TablesType, NEW root, NEW depth, NEW base, NEW of, Holds(root, depth),
         BootDirect(root, depth, base), Mirrors(root, depth, of), added = {},
         CloneReturn, Tail(stack) = <<>>
  PROVE  \E b : Holds(root, depth)' /\ Maps(root, depth, b)'
<1>1. tables' = tables /\ added' = {} /\ stage' = "idle" /\ NewTable' = NewTable
  BY DEF CloneReturn, NewTable
<1>2. root < NewTable /\ \A t \in root..(NewTable - 1), i \in Indices : Settled(t, i)
  BY LastReturn
<1>3. PICK b : OwnDirect(root, depth, b)
  BY <1>2, CopyIsDirect
<1>4. OwnDirect(root, depth, b)'
  BY <1>1, <1>3 DEF OwnDirect
<1>5. Maps(root, depth, b)'
  BY <1>1, <1>4 DEF Maps, Serving
<1> QED
  BY <1>5, CloneReturnStep

LEMMA RunningStep ==
  ASSUME TablesType, added \subseteq Requests, NEW root, NEW depth, NEW base,
         Holds(root, depth), Maps(root, depth, base), Running, [PagingNext]_paging_vars
  PROVE  /\ added' \subseteq Requests /\ Running'
         /\ \E d, b : Holds(root, d)' /\ Maps(root, d, b)'
<1>1. Running'
  BY DEF Running, PagingNext, Clone, StartClone, CloneEntry, CloneTable, CloneReturn, Add, AddStep,
         AddPresent, AddDescend, AddHalts, AddPage, AddTable, Return, paging_vars
<1>2. CASE \E r \in Requests : Add(r)
  <2>1. added' = added
    BY <1>2 DEF Add
  <2> QED
    BY <1>1, <1>2, <2>1, AddMaps
<1>3. CASE AddPresent
  BY <1>1, <1>3, AddPresentMaps
<1>4. CASE AddDescend
  BY <1>1, <1>4, AddDescendMaps
<1>5. CASE AddPage
  BY <1>1, <1>5, AddPageMaps
<1>6. CASE AddTable
  BY <1>1, <1>6, AddTableMaps
<1>7. CASE AddHalts
  <2>1. stage' = "halted" /\ UNCHANGED <<tables, added>>
    BY <1>7 DEF AddHalts
  <2>2. Serving(root, depth, base)'
    BY <2>1 DEF Serving
  <2>3. Maps(root, depth, base)'
    BY <2>1, <2>2, MapsSame
  <2> QED
    BY <1>1, <1>7, <2>1, <2>3, AddHaltsStep
<1>8. CASE UNCHANGED paging_vars
  <2>1. UNCHANGED <<tables, cr3, stack, stage, call, added>>
    BY <1>8 DEF paging_vars
  <2>2. NewTable' = NewTable /\ request' = request
    BY <2>1 DEF NewTable, request
  <2>3. Serving(root, depth, base)'
    BY <2>1, <2>2 DEF Maps, Serving, Way, PageEntry
  <2>4. Maps(root, depth, base)'
    BY <2>1, <2>3, MapsSame
  <2> QED
    BY <1>1, <1>8, <2>1, <2>4, HoldsStill
<1>9. ~Clone
  BY DEF Running, Clone, StartClone, CloneEntry, CloneTable, CloneReturn
<1> QED
  BY <1>2, <1>3, <1>4, <1>5, <1>6, <1>7, <1>8, <1>9 DEF PagingNext, AddStep

LEMMA UseInit ==
  ASSUME PagingInit PROVE UseInv
<1>1. /\ tables \in BootTables /\ stack = <<>> /\ stage = "boot" /\ added = {}
  BY DEF PagingInit
<1>2. PICK depth \in [DOMAIN tables -> 1..LEVELS], base \in [DOMAIN tables -> Pages] :
        /\ Leveled(tables, depth) /\ base[0] = 0
        /\ \A t \in DOMAIN tables, i \in 0..(FAN - 1) :
             InPlace(tables[t][i], depth[t], base, base[t] * FAN + i)
  BY <1>1, DirectMapAssumption DEF Direct
<1>3. TablesType /\ Holds(NewTable, depth)
  BY <1>2, InitHolds DEF InitDepth
<1>4. DOMAIN tables = 0..(NewTable - 1)
  BY <1>3 DEF TablesType, Numbers
<1>5. base \in [DOMAIN tables -> Nat]
  <2>1. \A p \in Pages : p \in Nat
    BY DEF Pages
  <2> QED
    BY <1>2, <2>1
<1>6. BootDirect(NewTable, depth, base)
  BY <1>2, <1>4, <1>5 DEF BootDirect, Indices
<1> QED
  BY <1>1, <1>3, <1>6 DEF UseInv, Running

LEMMA UseStep ==
  ASSUME UseInv, [PagingNext]_paging_vars PROVE UseInv'
<1>1. TablesType /\ added \subseteq Requests
  BY DEF UseInv
<1>2. CASE stage = "boot"
  <2>1. PICK root, depth, base : Holds(root, depth) /\ BootDirect(root, depth, base)
    BY <1>2 DEF UseInv
  <2>2. added = {} /\ root \in Nat
    BY <1>1, <1>2, <2>1 DEF UseInv, Holds, Tree, TablesType
  <2>3. CASE StartClone
    <3>1. PICK d, of : Holds(root, d)' /\ Mirrors(root, d, of)' /\ BootSame(root, depth, d)
      BY <1>1, <2>1, <2>3, StartMirrors
    <3>2. BootDirect(root, d, base)'
      BY <2>1, <2>2, <3>1, BootDirectKept DEF BootSame
    <3>3. TablesType' /\ stage' = "clone" /\ added' = {}
      <4>1. PICK e : Deeper(root, depth, LEVELS, e)
        BY <1>1, <2>1, <2>3, StartCloneDepth, Zenon
      <4>2. TablesType'
        BY <1>1, <2>1, <2>3, <4>1, StartCloneStep
      <4> QED
        BY <2>2, <2>3, <4>2 DEF StartClone
    <3> QED
      BY <3>1, <3>2, <3>3 DEF UseInv, Running
  <2>4. CASE UNCHANGED paging_vars
    <3>1. UNCHANGED <<tables, stage, added>>
      BY <2>4 DEF paging_vars
    <3>2. TablesType' /\ Holds(root, depth)'
      BY <1>1, <2>1, <2>4, HoldsStill
    <3>3. BootDirect(root, depth, base)'
      BY <2>1, <2>2, <3>1, BootDirectKept
    <3> QED
      BY <1>2, <2>2, <3>1, <3>2, <3>3 DEF UseInv, Running
  <2> QED
    BY <1>2, <2>3, <2>4 DEF PagingNext, Clone, CloneEntry, CloneTable, CloneReturn, Add, AddStep,
                            AddPresent, AddDescend, AddHalts, AddPage, AddTable
<1>3. CASE stage = "clone"
  <2>1. PICK root, depth, base, of :
          Holds(root, depth) /\ BootDirect(root, depth, base) /\ Mirrors(root, depth, of)
    BY <1>3 DEF UseInv
  <2>2. added = {} /\ root \in Nat
    BY <1>1, <1>3, <2>1 DEF UseInv, Holds, Tree, TablesType
  <2>3. TablesType'
    <3>1. PagingInv
      BY <1>1, <2>1 DEF PagingInv
    <3>2. PagingInv'
      BY <3>1, PagingStep, PagingStutters
    <3> QED
      BY <3>2 DEF PagingInv
  <2>4. CASE CloneReturn /\ Tail(stack) = <<>>
    <3>1. stage' = "idle" /\ added' = {}
      BY <2>2, <2>4 DEF CloneReturn
    <3>2. \E b : Holds(root, depth)' /\ Maps(root, depth, b)'
      BY <1>1, <2>1, <2>2, <2>4, ReturnToIdle
    <3>3. Running' /\ added' \subseteq Requests
      BY <3>1 DEF Running
    <3> QED
      BY <2>3, <3>1, <3>2, <3>3 DEF UseInv
  <2>5. CASE ~(CloneReturn /\ Tail(stack) = <<>>)
    <3>1. PICK d, f : Holds(root, d)' /\ Mirrors(root, d, f)' /\ BootSame(root, depth, d)
      BY <1>1, <1>3, <2>1, MirrorsStep
    <3>2. BootDirect(root, d, base)'
      BY <2>1, <2>2, <3>1, BootDirectKept DEF BootSame
    <3>3. stage' = "clone" /\ added' = {}
      BY <1>3, <2>2, <2>5 DEF PagingNext, Clone, StartClone, CloneEntry, CloneTable, CloneReturn,
           Add, AddStep, AddPresent, AddDescend, AddHalts, AddPage, AddTable, paging_vars
    <3> QED
      BY <2>3, <3>1, <3>2, <3>3 DEF UseInv, Running
  <2> QED
    BY <2>4, <2>5
<1>4. CASE Running
  <2>1. PICK root, depth, base : Holds(root, depth) /\ Maps(root, depth, base)
    BY <1>4 DEF UseInv
  <2>2. TablesType'
    <3>1. PagingInv
      BY <1>1, <2>1 DEF PagingInv
    <3>2. PagingInv'
      BY <3>1, PagingStep, PagingStutters
    <3> QED
      BY <3>2 DEF PagingInv
  <2>3. /\ added' \subseteq Requests /\ Running'
        /\ \E d, b : Holds(root, d)' /\ Maps(root, d, b)'
    BY <1>1, <1>4, <2>1, RunningStep
  <2> QED
    BY <2>2, <2>3 DEF UseInv, Running
<1>5. stage = "boot" \/ stage = "clone" \/ Running
  BY DEF UseInv
<1> QED
  BY <1>2, <1>3, <1>4, <1>5


-----------------------------------------------------------------------------
LEMMA LoadingUse ==
  ASSUME UseInv, stage = "boot", SameLinks, UNCHANGED table_vars PROVE UseInv'
<1>1. PICK root, depth, base : Holds(root, depth) /\ BootDirect(root, depth, base)
  BY DEF UseInv
<1>2. TablesType /\ added = {} /\ stage' = "boot" /\ added' = {}
  BY DEF UseInv, table_vars
<1>3. TablesType' /\ Holds(root, depth)'
  BY <1>1, <1>2, LoadingHolds
<1>4. root \in Nat /\ \A t \in 0..(root - 1) : t \in Numbers
  BY <1>1, <1>2 DEF Holds, AtStage, TablesType, Numbers
<1>5. BootDirect(root, depth, base)'
  BY <1>1, <1>4, BootDirectKept DEF SameLinks
<1> QED
  BY <1>2, <1>3, <1>5 DEF UseInv, Running

(* UseInv, from the loading of the kernel to the last page added.          *)
LEMMA UseNext ==
  ASSUME ImageInv, UseInv, [ImageNext]_image_vars PROVE UseInv'
<1>1. CASE CheckHeaders \/ CopySegment \/ Kstart
  <2>1. UNCHANGED paging_vars
    BY <1>1 DEF CheckHeaders, CopySegment, Kstart, table_vars, paging_vars
  <2> QED
    BY <2>1, UseStep
<1>2. CASE MakeWritable \/ SetSegmentFlags
  <2>1. lpc # "kmain" /\ UNCHANGED table_vars
    BY <1>2 DEF MakeWritable, SetSegmentFlags
  <2>2. TablesType /\ stage = "boot"
    BY <2>1 DEF ImageInv, UseInv
  <2>3. SameLinks
    BY <1>2, <2>2, VprotectKeeps DEF MakeWritable, SetSegmentFlags
  <2> QED
    BY <2>1, <2>2, <2>3, LoadingUse
<1>3. CASE lpc = "kmain" /\ PagingNext /\ UNCHANGED load_vars
  BY <1>3, UseStep
<1>4. CASE UNCHANGED image_vars
  <2>1. UNCHANGED paging_vars
    BY <1>4 DEF image_vars
  <2> QED
    BY <2>1, UseStep
<1> QED
  BY <1>1, <1>2, <1>3, <1>4 DEF ImageNext, LoaderMapElf

THEOREM UseInvariant == ImageSpec => [](ImageInv /\ UseInv)
<1>1. ImageInit => UseInv
  BY UseInit DEF ImageInit
<1>2. ImageInv /\ UseInv /\ [ImageNext]_image_vars => UseInv'
  BY UseNext
<1> QED
  BY <1>1, <1>2, ImageInvariant, PTL DEF ImageSpec

-----------------------------------------------------------------------------
(* What the processor finds, at every table.                               *)
Finds(ts, page, w) ==
  \A level \in 1..LEVELS, t \in DOMAIN ts :
    w[level][t] = Seen(ts, page, w, level, t) /\ w[level][t] \in SUBSET FoundT

LEMMA WalkFinds ==
  ASSUME NEW ts, ts \in [DOMAIN ts -> [Indices -> EntryT]], NEW page \in Nat,
         NEW w, Walks(ts, page, w)
  PROVE  Finds(ts, page, w)
<1> DEFINE D == DOMAIN ts
           F == [level \in 1..LEVELS |-> [t \in D |-> Seen(ts, page, w, level, t)]]
           Typed(level) == \A t \in D : w[level][t] \in SUBSET FoundT
           Good == {n \in Nat : n + 1 \in 1..LEVELS => Typed(n + 1)}
<1>1. \A level \in 1..LEVELS, t \in D : w[level][t] = Seen(ts, page, w, level, t)
  <2>1. w = F
    BY DEF Walks
  <2> HIDE DEF D
  <2>2. \A level \in 1..LEVELS, t \in D : F[level][t] = Seen(ts, page, w, level, t)
    OBVIOUS
  <2> HIDE DEF F
  <2> QED
    BY <2>1, <2>2, Zenon
<1>2. LEVELS \in Nat
  BY PagingAssumption
<1>3. ASSUME NEW level \in 1..LEVELS, level - 1 \in 1..LEVELS => Typed(level - 1)
      PROVE  Typed(level)
  <2>1. SUFFICES ASSUME NEW t \in D PROVE w[level][t] \in SUBSET FoundT
    OBVIOUS
  <2>2. PICK i \in Indices : i = Index(page, level)
    BY <1>2, IndexInTable DEF Indices
  <2>3. PICK e \in EntryT : e = ts[t][i]
    OBVIOUS
  <2>4. w[level][t] = Seen(ts, page, w, level, t) /\ level \in Nat
    BY <1>1, <1>2
  <2>5. {} \in SUBSET FoundT
    OBVIOUS
  <2>6. Leaf(e, level, page) \in SUBSET FoundT
    BY <2>4, <2>5, FoundTypes
  <2>7. CASE IsLink(e, level) /\ e.addr \in D /\ e.present
    <3>1. level - 1 \in 1..LEVELS
      BY <1>2, <2>7 DEF IsLink
    <3>2. w[level - 1][e.addr] \in SUBSET FoundT
      BY <1>3, <2>7, <3>1
    <3>3. Through(e, w[level - 1][e.addr]) \in SUBSET FoundT
      BY <2>4, <3>2, FoundTypes
    <3>4. Seen(ts, page, w, level, t) = Through(e, w[level - 1][e.addr])
      BY <2>2, <2>3, <2>7 DEF Seen
    <3> QED
      BY <2>4, <3>3, <3>4
  <2>8. CASE ~(IsLink(e, level) /\ e.addr \in D /\ e.present)
    <3>1. Seen(ts, page, w, level, t) \in {{}, Leaf(e, level, page)}
      BY <2>2, <2>3, <2>8 DEF Seen
    <3> QED
      BY <2>4, <2>5, <2>6, <3>1
  <2> QED
    BY <2>7, <2>8
<1> HIDE DEF Typed
<1>4. Good = Nat
  <2>1. 0 \in Good
    <3>1. PICK z : z = 0 + 1 /\ ~(z - 1 \in 1..LEVELS)
      OBVIOUS
    <3>2. z \in 1..LEVELS => Typed(z)
      BY <1>3, <3>1
    <3> QED
      BY <3>1, <3>2
  <2>2. ASSUME NEW n \in Good PROVE n + 1 \in Good
    <3>1. n \in Nat /\ (n + 1 \in 1..LEVELS => Typed(n + 1))
      OBVIOUS
    <3>2. (n + 1) + 1 \in 1..LEVELS => Typed((n + 1) + 1)
      <4>1. ((n + 1) + 1) - 1 = n + 1
        BY <3>1
      <4> QED
        BY <1>3, <3>1, <4>1
    <3> QED
      BY <3>1, <3>2
  <2>3. Good \subseteq Nat
    OBVIOUS
  <2> HIDE DEF Good
  <2> QED
    BY <2>1, <2>2, <2>3, NatSets
<1>5. ASSUME NEW level \in 1..LEVELS PROVE Typed(level)
  <2>1. level - 1 \in Nat /\ (level - 1) + 1 = level
    BY <1>2
  <2>2. level - 1 \in Good
    BY <1>4, <2>1
  <2> QED
    BY <2>1, <2>2
<1> QED
  BY <1>1, <1>5 DEF Typed, Finds

-----------------------------------------------------------------------------
(* Page numbers that begin alike at a level do so at each above it.        *)
LEMMA SamePlace ==
  ASSUME NEW p \in Nat, NEW q \in Nat, NEW level \in Nat \ {0}, Place(p, level) = Place(q, level),
         NEW m \in Nat, level <= m
  PROVE  Place(p, m) = Place(q, m) /\ Index(p, m) = Index(q, m)
<1> DEFINE Good == {n \in Nat : Place(p, level + n) = Place(q, level + n)}
<1>1. 0 \in Good
  <2>1. level + 0 = level
    OBVIOUS
  <2> QED
    BY <2>1
<1>2. ASSUME NEW n \in Good PROVE n + 1 \in Good
  <2>1. PICK k \in Nat \ {0} : k = level + n
    OBVIOUS
  <2>2. Place(p, k) = Place(q, k) /\ level + (n + 1) = k + 1
    BY <2>1
  <2>3. Place(p, k + 1) = Place(p, k) \div FAN /\ Place(q, k + 1) = Place(q, k) \div FAN
    BY PlaceStep
  <2> QED
    BY <2>2, <2>3
<1>3. Good \subseteq Nat
  OBVIOUS
<1> HIDE DEF Good
<1>4. Good = Nat
  BY <1>1, <1>2, <1>3, NatSets
<1>5. Place(p, m) = Place(q, m)
  <2>1. m - level \in Nat /\ level + (m - level) = m
    OBVIOUS
  <2>2. m - level \in Good
    BY <1>4, <2>1
  <2> QED
    BY <2>1, <2>2 DEF Good
<1> QED
  BY <1>5 DEF Place, Index

LEMMA ThroughPermitted ==
  ASSUME NEW e \in EntryT, Permits(e), NEW x \in FoundT
  PROVE  Through(e, {x}) = {x}
<1>1. e.write = TRUE /\ e.nx = FALSE
  BY DEF Permits, EntryT
<1>2. (x.write /\ e.write) = x.write /\ (x.nx \/ e.nx) = x.nx
  BY <1>1 DEF FoundT
<1>3. [x EXCEPT !.write = @ /\ e.write, !.nx = @ \/ e.nx] = [x EXCEPT !.write = x.write, !.nx = x.nx]
  BY <1>2, Zenon
<1>4. [x EXCEPT !.write = x.write, !.nx = x.nx] = x
  BY DEF FoundT
<1> QED
  BY <1>3, <1>4 DEF Through

(* What is found at the end of a way is found from the root.               *)
FindsAt(p, w, level, t, x) == Finds(tables, p, w) /\ x \in FoundT /\ w[level][t] = {x}

AlsoFor(root, q, level, p) ==
  root \in Nat /\ q \in Nat /\ level \in 1..LEVELS /\ p \in Nat /\ Place(p, level) = Place(q, level)

LEMMA WayFinds ==
  ASSUME TablesType, NEW root, NEW depth, NEW base, NEW q, NEW level, NEW way,
         Way(root, depth, base, q, level, way), NEW p, AlsoFor(root, q, level, p),
         NEW w, NEW x, FindsAt(p, w, level, way[level], x)
  PROVE  FindsAt(p, w, LEVELS, root, x)
<1> USE DEF FindsAt, AlsoFor
<1> DEFINE own == root..(NewTable - 1)
           Good == {n \in Nat : level + n <= LEVELS => w[level + n][way[level + n]] = {x}}
<1>1. /\ LEVELS \in Nat /\ level \in Nat \ {0} /\ NewTable \in Nat
      /\ DOMAIN tables = Numbers /\ Numbers = 0..(NewTable - 1)
  BY PagingAssumption DEF TablesType, Numbers
<1>2. way \in [level..LEVELS -> own] /\ way[LEVELS] = root
  BY DEF Way
<1>3. 0 \in Good
  <2>1. level + 0 = level
    BY <1>1
  <2> QED
    BY <2>1
<1>4. ASSUME NEW n \in Good PROVE n + 1 \in Good
  <2>1. SUFFICES ASSUME level + (n + 1) <= LEVELS
                 PROVE  w[level + (n + 1)][way[level + (n + 1)]] = {x}
    OBVIOUS
  <2>2. PICK m : m = level + (n + 1)
    OBVIOUS
  <2>3. /\ m \in (level + 1)..LEVELS /\ m \in level..LEVELS /\ m \in 1..LEVELS /\ m \in Nat
        /\ m - 1 = level + n /\ m - 1 \in level..LEVELS /\ level + n <= LEVELS /\ level <= m
    BY <1>1, <2>1, <2>2
  <2>4. w[m - 1][way[m - 1]] = {x}
    BY <2>3
  <2>5. Index(p, m) = Index(q, m)
    BY <1>1, <2>3, SamePlace
  <2>6. PICK t \in Numbers, u \in Numbers : t = way[m] /\ u = way[m - 1]
    BY <1>1, <1>2, <2>3
  <2>7. PICK i \in Indices : i = Index(p, m)
    BY <2>3, IndexInTable DEF Indices
  <2>8. PICK e \in EntryT : e = tables[t][i]
    BY DEF TablesType
  <2>9. IsLink(e, m) /\ Permits(e) /\ e.addr = u
    BY <2>3, <2>5, <2>6, <2>7, <2>8 DEF Way, PageEntry
  <2>10. e.present
    BY <2>9 DEF IsLink
  <2>11. Seen(tables, p, w, m, t) = Through(e, {x})
    BY <1>1, <2>4, <2>6, <2>7, <2>8, <2>9, <2>10 DEF Seen
  <2>12. w[m][t] = Through(e, {x})
    BY <1>1, <2>3, <2>11 DEF Finds
  <2>13. w[m][t] = {x}
    BY <2>9, <2>12, ThroughPermitted
  <2> QED
    BY <2>2, <2>6, <2>13
<1>5. Good \subseteq Nat
  OBVIOUS
<1> HIDE DEF Good
<1>6. Good = Nat
  BY <1>3, <1>4, <1>5, NatSets
<1>7. LEVELS - level \in Nat /\ level + (LEVELS - level) = LEVELS
  BY <1>1
<1>8. LEVELS - level \in Good
  BY <1>6, <1>7
<1> QED
  BY <1>1, <1>2, <1>7, <1>8 DEF Good

(* add_to_hhdm (paging.c): a page that it has returned can be used as it   *)
(* was asked for, with these permissions and no others.                    *)
LEMMA ServedIsUsable ==
  ASSUME TablesType, NEW root \in Nat, NEW depth, NEW base, OwnDirect(root, depth, base),
         NEW r \in Requests, Served(root, depth, base, r),
         NEW p \in Pages, InGranule(p, r)
  PROVE  Translate(tables, root, p) =
           {[page |-> p, write |-> "write" \in r.flags, nx |-> "exec" \notin r.flags]}
<1>1. PICK q, level : q = r.page /\ level = r.granularity + 1
  OBVIOUS
<1>2. /\ q \in Nat /\ p \in Nat /\ level \in 1..LEVELS /\ LEVELS \in Nat /\ level \in Nat \ {0}
      /\ FAN \in Nat /\ NewTable \in Nat
  <2>1. q \in Pages /\ r.granularity \in 0..(LEVELS - 1) /\ LEVELS \in Nat
    BY <1>1, RequestsAssumption, PagingAssumption
  <2> QED
    BY <1>1, <2>1, PagingAssumption DEF Pages, TablesType
<1>3. Place(p, level) = Place(q, level)
  BY <1>1 DEF InGranule, Place
<1>4. PICK way : Way(root, depth, base, q, level, way) /\ Asked(PageEntry(way, q, level), r)
  BY <1>1 DEF Served
<1>5. tables \in [DOMAIN tables -> [Indices -> EntryT]] /\ DOMAIN tables = 0..(NewTable - 1)
  BY DEF TablesType, Numbers
<1>6. PICK w : Walks(tables, p, w) /\ \A t : Translate(tables, t, p) = w[LEVELS][t]
  BY <1>2, <1>5, TranslateIsWalk
<1>7. Finds(tables, p, w)
  BY <1>2, <1>5, <1>6, WalkFinds
<1>8. PICK t \in root..(NewTable - 1) :
        t = way[level] /\ depth[t] = level /\ base[t] = Place(q, level + 1)
  <2>1. level \in level..LEVELS
    BY <1>2
  <2> QED
    BY <1>4, <2>1 DEF Way
<1>9. PICK i \in Indices : i = Index(p, level) /\ i = Index(q, level)
  <2>1. Index(p, level) = Index(q, level)
    BY <1>2, <1>3, SamePlace
  <2> QED
    BY <1>2, <2>1, IndexInTable DEF Indices
<1>10. t \in DOMAIN tables
  BY <1>2, <1>5
<1>11. PICK e \in EntryT : e = tables[t][i]
  BY <1>5, <1>10
<1>12. /\ e.present /\ ~IsLink(e, level)
       /\ e.write = ("write" \in r.flags) /\ e.nx = ("exec" \notin r.flags)
  BY <1>1, <1>4, <1>8, <1>9, <1>11 DEF Asked, PageEntry
<1>13. e.addr + (p % Span[level]) = p
  <2>1. InPlace(e, level, base, base[t] * FAN + i)
    BY <1>8, <1>11 DEF OwnDirect
  <2>2. base[t] * FAN + i = Place(q, level)
    BY <1>2, <1>8, <1>9, PlaceStep
  <2>3. e.addr = Place(p, level) * Span[level]
    BY <1>3, <1>12, <2>1, <2>2 DEF InPlace
  <2>4. PICK s \in Nat \ {0} : s = Span[level]
    BY <1>2, SpanType
  <2>5. p = (p \div s) * s + (p % s)
    BY <1>2, Divided
  <2>6. e.addr = (p \div s) * s
    BY <2>3, <2>4 DEF Place
  <2>7. e.addr + (p % s) = p
    BY <2>5, <2>6, Zenon
  <2> QED
    BY <2>4, <2>7
<1> DEFINE x == [page |-> p, write |-> "write" \in r.flags, nx |-> "exec" \notin r.flags]
<1>14. x \in FoundT
  BY <1>2 DEF FoundT
<1>15. Leaf(e, level, p) = {x}
  BY <1>12, <1>13, Zenon DEF Leaf
<1> HIDE DEF x
<1>16. Seen(tables, p, w, level, t) = {x}
  BY <1>9, <1>11, <1>12, <1>15 DEF Seen
<1>17. FindsAt(p, w, level, way[level], x)
  BY <1>2, <1>7, <1>8, <1>10, <1>14, <1>16 DEF Finds, FindsAt
<1>18. AlsoFor(root, q, level, p)
  BY <1>2, <1>3 DEF AlsoFor
<1>19. FindsAt(p, w, LEVELS, root, x)
  BY <1>4, <1>17, <1>18, WayFinds, Zenon
<1> QED
  BY <1>6, <1>19 DEF x, FindsAt

(* add_to_hhdm (paging.c): a page that it has returned can be used as it   *)
(* was asked for, with these permissions and no others, whatever else is   *)
(* asked for since.                                                        *)
THEOREM AddedIsUsableTheorem == ImageSpec => []AddedIsUsable
<1>1. ImageInv /\ UseInv => AddedIsUsable
  <2> SUFFICES ASSUME UseInv, Running, NEW r \in added, NEW p \in Pages, InGranule(p, r)
               PROVE  Translate(tables, cr3, p) =
                        {[page |-> p, write |-> "write" \in r.flags, nx |-> "exec" \notin r.flags]}
    BY DEF AddedIsUsable
  <2>1. TablesType /\ r \in Requests
    BY DEF UseInv
  <2>2. PICK root, depth, base : Holds(root, depth) /\ Maps(root, depth, base)
    BY DEF UseInv
  <2>3. cr3 = root /\ root \in Nat
    BY <2>1, <2>2 DEF Holds, AtStage, Running, Tree, TablesType
  <2>4. OwnDirect(root, depth, base) /\ Served(root, depth, base, r)
    BY <2>2 DEF Maps
  <2>5. Translate(tables, root, p) =
          {[page |-> p, write |-> "write" \in r.flags, nx |-> "exec" \notin r.flags]}
    BY <2>1, <2>3, <2>4, ServedIsUsable
  <2> QED
    BY <2>3, <2>5
<1> QED
  BY <1>1, UseInvariant, PTL

-----------------------------------------------------------------------------
(* What is found before a step of add_to_hhdm, and what after.             *)
Better(A, B) ==
  /\ A = {} => B = {}
  /\ \A x \in A : \E y \in B : y.page = x.page /\ (x.write => y.write) /\ (y.nx => x.nx)

Alike(e, f) ==
  /\ f.present = e.present /\ f.ps = e.ps /\ f.addr = e.addr
  /\ (e.write => f.write) /\ (f.nx => e.nx)

LEMMA ThroughField ==
  ASSUME NEW e \in EntryT, NEW x \in FoundT
  PROVE  LET y == [x EXCEPT !.write = @ /\ e.write, !.nx = @ \/ e.nx]
         IN  /\ y.page = x.page
             /\ y.write = (x.write /\ e.write) /\ y.nx = (x.nx \/ e.nx)
<1>1. PICK u \in BOOLEAN, v \in BOOLEAN : u = (x.write /\ e.write) /\ v = (x.nx \/ e.nx)
  <2>1. (x.write /\ e.write) \in BOOLEAN /\ (x.nx \/ e.nx) \in BOOLEAN
    BY DEF FoundT, EntryT
  <2> QED
    BY <2>1, Zenon
<1>2. [x EXCEPT !.write = @ /\ e.write, !.nx = @ \/ e.nx] = [x EXCEPT !.write = u, !.nx = v]
  BY <1>1, Zenon
<1>3. /\ [x EXCEPT !.write = u, !.nx = v].page = x.page
      /\ [x EXCEPT !.write = u, !.nx = v].write = u
      /\ [x EXCEPT !.write = u, !.nx = v].nx = v
  BY DEF FoundT
<1> QED
  BY <1>1, <1>2, <1>3, Zenon

LEMMA BetterThrough ==
  ASSUME NEW e \in EntryT, NEW f \in EntryT, Alike(e, f),
         NEW A \in SUBSET FoundT, NEW B \in SUBSET FoundT, Better(A, B)
  PROVE  Better(Through(e, A), Through(f, B))
<1> DEFINE X(a) == [a EXCEPT !.write = @ /\ e.write, !.nx = @ \/ e.nx]
           Y(b) == [b EXCEPT !.write = @ /\ f.write, !.nx = @ \/ f.nx]
<1>1. Through(e, A) = {X(a) : a \in A} /\ Through(f, B) = {Y(b) : b \in B}
  BY Zenon DEF Through
<1>2. ASSUME NEW a \in FoundT
      PROVE  /\ X(a).page = a.page /\ X(a).write = (a.write /\ e.write) /\ X(a).nx = (a.nx \/ e.nx)
             /\ Y(a).page = a.page /\ Y(a).write = (a.write /\ f.write) /\ Y(a).nx = (a.nx \/ f.nx)
  BY ThroughField, Zenon
<1> HIDE DEF X, Y
<1>3. Through(e, A) = {} => Through(f, B) = {}
  BY <1>1 DEF Better
<1>4. ASSUME NEW a \in A
      PROVE  \E y \in Through(f, B) :
               y.page = X(a).page /\ (X(a).write => y.write) /\ (y.nx => X(a).nx)
  <2>1. PICK b \in B : b.page = a.page /\ (a.write => b.write) /\ (b.nx => a.nx)
    BY DEF Better
  <2>2. a \in FoundT /\ b \in FoundT
    OBVIOUS
  <2>3. Y(b).page = X(a).page /\ (X(a).write => Y(b).write) /\ (Y(b).nx => X(a).nx)
    BY <1>2, <2>1, <2>2, Zenon DEF Alike
  <2>4. Y(b) \in Through(f, B)
    BY <1>1
  <2> QED
    BY <2>3, <2>4, Zenon
<1> QED
  BY <1>1, <1>3, <1>4 DEF Better

LEMMA BetterLeaf ==
  ASSUME NEW e \in EntryT, NEW f \in EntryT, Alike(e, f), NEW level, NEW p
  PROVE  Better(Leaf(e, level, p), Leaf(f, level, p))
<1> DEFINE X(g) == [page |-> g.addr + (p % Span[level]), write |-> g.write, nx |-> g.nx]
<1>1. Leaf(e, level, p) = {X(e)} /\ Leaf(f, level, p) = {X(f)}
  BY Zenon DEF Leaf
<1>2. X(f).page = X(e).page /\ (X(e).write => X(f).write) /\ (X(f).nx => X(e).nx)
  BY DEF Alike
<1> HIDE DEF X
<1> QED
  BY <1>1, <1>2, Zenon DEF Better

(* A step that makes no entry for a page worse makes what is found of it   *)
(* no worse.                                                               *)
Harmless(root, depth, base, p, ts, v) ==
  \A t \in root..(NewTable - 1), level \in 1..LEVELS :
    depth[t] = level /\ base[t] = Place(p, level + 1) =>
      \/ Alike(tables[t][Index(p, level)], ts[t][Index(p, level)])
      \/ ~tables[t][Index(p, level)].present /\ v[level][t] = {}

Changed(p, w, ts, v) ==
  /\ p \in Nat /\ Place(p, LEVELS + 1) = 0
  /\ ts \in [DOMAIN ts -> [Indices -> EntryT]] /\ DOMAIN tables \subseteq DOMAIN ts
  /\ Finds(tables, p, w) /\ Finds(ts, p, v)

LEMMA KeptFinds ==
  ASSUME TablesType, NEW root, NEW depth, NEW base, Holds(root, depth), Running,
         OwnDirect(root, depth, base), NEW p, NEW w, NEW ts, NEW v, Changed(p, w, ts, v),
         Harmless(root, depth, base, p, ts, v)
  PROVE  Better(w[LEVELS][root], v[LEVELS][root])
<1> DEFINE own == root..(NewTable - 1)
           Same(level) == \A t \in own : depth[t] = level /\ base[t] = Place(p, level + 1) =>
                            Better(w[level][t], v[level][t])
           Good == {n \in Nat : n + 1 \in 1..LEVELS => Same(n + 1)}
<1>1. /\ root \in Nat /\ NewTable \in Nat /\ root < NewTable /\ depth[root] = LEVELS
      /\ stack = <<>> /\ Tree(root, depth) /\ LEVELS \in Nat \ {0}
      /\ DOMAIN tables = Numbers /\ Numbers = 0..(NewTable - 1)
  BY PagingAssumption DEF Holds, AtStage, Running, Tree, TablesType, Numbers
<1>2. /\ p \in Nat /\ Place(p, LEVELS + 1) = 0
      /\ ts \in [DOMAIN ts -> [Indices -> EntryT]] /\ DOMAIN tables \subseteq DOMAIN ts
      /\ Finds(tables, p, w) /\ Finds(ts, p, v)
  BY DEF Changed
<1>3. ASSUME NEW level \in 1..LEVELS, level - 1 \in 1..LEVELS => Same(level - 1)
      PROVE  Same(level)
  <2>1. SUFFICES ASSUME NEW t \in own, depth[t] = level, base[t] = Place(p, level + 1)
                 PROVE  Better(w[level][t], v[level][t])
    OBVIOUS
  <2>2. PICK i \in Indices : i = Index(p, level)
    BY <1>1, <1>2, IndexInTable DEF Indices
  <2>3. t \in DOMAIN tables /\ t \in DOMAIN ts
    BY <1>1, <1>2
  <2>4. PICK e \in EntryT, f \in EntryT : e = tables[t][i] /\ f = ts[t][i]
    <3>1. tables[t][i] \in EntryT
      BY <1>1, <2>3 DEF TablesType
    <3>2. ts[t][i] \in EntryT
      BY <1>2, <2>3
    <3> QED
      BY <3>1, <3>2
  <2>5. /\ w[level][t] = Seen(tables, p, w, level, t)
        /\ v[level][t] = Seen(ts, p, v, level, t)
    BY <1>2, <2>3 DEF Finds
  <2>6. CASE ~e.present /\ v[level][t] = {}
    <3>1. w[level][t] = {}
      BY <2>2, <2>4, <2>5, <2>6 DEF Seen
    <3> QED
      BY <2>6, <3>1 DEF Better
  <2>7. CASE Alike(e, f)
    <3>1. f.present = e.present /\ f.addr = e.addr /\ IsLink(f, level) = IsLink(e, level)
      BY <2>7 DEF Alike, IsLink
    <3>2. CASE ~e.present
      <4>1. w[level][t] = {} /\ v[level][t] = {}
        BY <2>2, <2>4, <2>5, <3>1, <3>2 DEF Seen
      <4> QED
        BY <4>1 DEF Better
    <3>3. CASE e.present /\ ~IsLink(e, level)
      <4>1. w[level][t] = Leaf(e, level, p) /\ v[level][t] = Leaf(f, level, p)
        BY <2>2, <2>4, <2>5, <3>1, <3>3 DEF Seen
      <4> QED
        BY <2>7, <4>1, BetterLeaf
    <3>4. CASE IsLink(e, level)
      <4>1. e.present /\ level - 1 \in 1..LEVELS
        BY <1>1, <3>4 DEF IsLink
      <4>2. PICK a \in own : a = e.addr /\ depth[a] = level - 1
        <5>1. Settled(t, i)
          BY <1>1, AllSettled
        <5>2. /\ tables[t][i].addr \in (root + 1)..(NewTable - 1)
              /\ depth[tables[t][i].addr] = depth[t] - 1
          BY <1>1, <2>1, <2>4, <3>4, <5>1 DEF Tree, OwnTree
        <5>3. \A x \in (root + 1)..(NewTable - 1) : x \in own
          BY <1>1
        <5> HIDE DEF own
        <5> QED
          BY <2>1, <2>4, <5>2, <5>3
      <4>3. base[a] = Place(p, (level - 1) + 1)
        <5>1. InPlace(e, level, base, base[t] * FAN + i)
          BY <2>1, <2>4 DEF OwnDirect
        <5>2. PICK l \in Nat \ {0} : l = level
          BY <1>1
        <5>3. Place(p, level) = base[t] * FAN + i
          BY <1>2, <2>1, <2>2, <5>2, PlaceStep
        <5>4. (level - 1) + 1 = level
          BY <5>2
        <5> QED
          BY <3>4, <4>1, <4>2, <5>1, <5>3, <5>4 DEF InPlace
      <4>4. Better(w[level - 1][a], v[level - 1][a])
        BY <1>3, <4>1, <4>2, <4>3
      <4>5. a \in DOMAIN tables /\ a \in DOMAIN ts
        BY <1>1, <1>2
      <4>6. /\ w[level - 1][a] \in SUBSET FoundT /\ v[level - 1][a] \in SUBSET FoundT
        BY <1>2, <4>1, <4>5 DEF Finds
      <4>7. Seen(tables, p, w, level, t) = Through(e, w[level - 1][a])
        BY <2>2, <2>4, <3>4, <4>1, <4>2, <4>5 DEF Seen
      <4>8. Seen(ts, p, v, level, t) = Through(f, v[level - 1][a])
        BY <2>2, <2>4, <3>1, <3>4, <4>1, <4>2, <4>5 DEF Seen
      <4>9. Better(Through(e, w[level - 1][a]), Through(f, v[level - 1][a]))
        BY <2>7, <4>4, <4>6, BetterThrough
      <4> QED
        BY <2>5, <4>7, <4>8, <4>9
    <3> QED
      BY <3>2, <3>3, <3>4
  <2> QED
    BY <2>1, <2>2, <2>4, <2>6, <2>7 DEF Harmless
<1> HIDE DEF Same
<1>4. Good = Nat
  <2>1. 0 \in Good
    <3>1. PICK z : z = 0 + 1 /\ ~(z - 1 \in 1..LEVELS)
      OBVIOUS
    <3>2. z \in 1..LEVELS => Same(z)
      BY <1>3, <3>1
    <3> QED
      BY <3>1, <3>2
  <2>2. ASSUME NEW n \in Good PROVE n + 1 \in Good
    <3>1. n \in Nat /\ (n + 1 \in 1..LEVELS => Same(n + 1))
      OBVIOUS
    <3>2. (n + 1) + 1 \in 1..LEVELS => Same((n + 1) + 1)
      <4>1. ((n + 1) + 1) - 1 = n + 1
        BY <3>1
      <4> QED
        BY <1>3, <3>1, <4>1
    <3> QED
      BY <3>1, <3>2
  <2>3. Good \subseteq Nat
    OBVIOUS
  <2> HIDE DEF Good
  <2> QED
    BY <2>1, <2>2, <2>3, NatSets
<1>5. Same(LEVELS)
  <2>1. LEVELS - 1 \in Nat /\ (LEVELS - 1) + 1 = LEVELS /\ LEVELS \in 1..LEVELS
    BY <1>1
  <2>2. LEVELS - 1 \in Good
    BY <1>4, <2>1
  <2> QED
    BY <2>1, <2>2
<1>6. root \in own /\ base[root] = Place(p, LEVELS + 1)
  BY <1>1, <1>2 DEF OwnDirect
<1> QED
  BY <1>1, <1>5, <1>6 DEF Same

(* The entry that add_to_hhdm makes for a table refers to it.              *)
LEMMA TableLinks == TableLink.present /\ ~TableLink.ps
<1>1. PICK f \in EntryT : f = SetFlags(Absent, request.flags, TRUE) /\ ~f.ps
  <2>1. Absent \in EntryT /\ ~Absent.ps
    BY MoreTypes DEF Absent
  <2>2. /\ SetFlags(Absent, request.flags, TRUE) \in EntryT
        /\ SetFlags(Absent, request.flags, TRUE).ps = Absent.ps
    BY <2>1, SetFlagsType, Zenon
  <2> QED
    BY <2>1, <2>2
<1>2. TableLink = [f EXCEPT !.present = TRUE, !.addr = NewTable]
  BY <1>1 DEF TableLink
<1> QED
  BY <1>1, <1>2 DEF EntryT

(* What add_to_hhdm sets an entry to is no harm to another page: the entry *)
(* is on the way to it and loses nothing, or is not.                       *)
LEMMA EntryHarmless ==
  ASSUME TablesType, NEW root, NEW depth, NEW base, NEW way, AtEntry(root, depth),
         AtPlace(root, depth, base, way), NEW e, OnlyEntry(call.page_table, entry_idx, e),
         NEW p \in Nat, NEW ts, ts = tables', NEW v,
         Alike(entry, e) \/ (level_matches_granularity /\ ~InGranule(p, request))
  PROVE  Harmless(root, depth, base, p, ts, v)
<1>1. /\ root \in Nat /\ NewTable \in Nat /\ depth[call.page_table] = call.cur_level
      /\ LEVELS \in Nat
  BY PagingAssumption DEF AtEntry
<1>2. ASSUME NEW t \in root..(NewTable - 1), NEW level \in 1..LEVELS,
             depth[t] = level, base[t] = Place(p, level + 1)
      PROVE  Alike(tables[t][Index(p, level)], ts[t][Index(p, level)])
  <2>1. level \in Nat \ {0} /\ t \in Numbers
    BY <1>1 DEF Numbers
  <2>2. PICK i \in Indices : i = Index(p, level)
    BY <2>1, IndexInTable DEF Indices
  <2>3. CASE t = call.page_table /\ i = entry_idx
    <3>1. level = call.cur_level /\ ts[t][i] = e /\ tables[t][i] = entry
      BY <1>1, <1>2, <2>3 DEF OnlyEntry, entry
    <3>2. Place(request.page, level) = Place(p, level + 1) * FAN + i
      BY <1>2, <2>3, <3>1 DEF AtPlace
    <3>3. Place(p, level) = Place(p, level + 1) * FAN + i
      BY <2>1, <2>2, PlaceStep
    <3>4. Place(p, level) = Place(request.page, level)
      BY <3>2, <3>3
    <3>5. ~(level_matches_granularity /\ ~InGranule(p, request))
      BY <3>1, <3>4 DEF level_matches_granularity, InGranule, Place
    <3> QED
      BY <2>2, <3>1, <3>5
  <2>4. CASE ~(t = call.page_table /\ i = entry_idx)
    <3>1. ts[t][i] = tables[t][i]
      BY <2>1, <2>4 DEF OnlyEntry
    <3> QED
      BY <2>2, <3>1 DEF Alike
  <2> QED
    BY <2>3, <2>4
<1> QED
  BY <1>2 DEF Harmless

(* Nor is a table more, in which there is no page yet.                     *)
LEMMA TableHarmless ==
  ASSUME TablesType, NEW root, NEW depth, NEW base, AtEntry(root, depth), AddTable,
         NEW p \in Nat, NEW ts, ts = tables', NEW v, Finds(ts, p, v)
  PROVE  Harmless(root, depth, base, p, ts, v)
<1>1. /\ root \in Nat /\ NewTable \in Nat /\ depth[call.page_table] = call.cur_level
      /\ LEVELS \in Nat /\ call.cur_level \in 1..LEVELS /\ call.cur_level > 1
      /\ request.granularity \in Nat /\ ~entry.present
  BY PagingAssumption DEF AtEntry, AddTable, level_matches_granularity
<1>2. /\ TablesType' /\ Numbers' = 0..NewTable /\ TableLink \in EntryT
      /\ TableLink.addr = NewTable /\ tables'[NewTable] = Empty
      /\ OnlyEntry(call.page_table, entry_idx, TableLink)
  BY TableWritten
<1>3. DOMAIN ts = 0..NewTable
  BY <1>2 DEF TablesType
<1>4. ASSUME NEW level \in 1..LEVELS PROVE v[level][NewTable] = {}
  <2>1. PICK i \in Indices : i = Index(p, level)
    BY <1>1, IndexInTable DEF Indices
  <2>2. ts[NewTable][i] = Absent /\ ~Absent.present
    BY <1>2, MoreTypes
  <2>3. NewTable \in DOMAIN ts
    BY <1>1, <1>3
  <2>4. Seen(ts, p, v, level, NewTable) = {}
    BY <2>1, <2>2 DEF Seen
  <2> QED
    BY <2>3, <2>4 DEF Finds
<1>5. ASSUME NEW t \in root..(NewTable - 1), NEW level \in 1..LEVELS, depth[t] = level
      PROVE  \/ Alike(tables[t][Index(p, level)], ts[t][Index(p, level)])
             \/ ~tables[t][Index(p, level)].present /\ v[level][t] = {}
  <2>1. level \in Nat \ {0} /\ t \in Numbers /\ t \in DOMAIN ts
    BY <1>1, <1>3 DEF Numbers
  <2>2. PICK i \in Indices : i = Index(p, level)
    BY <2>1, IndexInTable DEF Indices
  <2>3. CASE t = call.page_table /\ i = entry_idx
    <3>1. level = call.cur_level /\ ts[t][i] = TableLink /\ tables[t][i] = entry
      BY <1>1, <1>2, <1>5, <2>3 DEF OnlyEntry, entry
    <3>2. v[level][t] = Seen(ts, p, v, level, t)
      BY <2>1 DEF Finds
    <3>3. level - 1 \in 1..LEVELS
      BY <1>1, <3>1
    <3>4. v[level - 1][NewTable] = {}
      BY <1>4, <3>3
    <3>5. Through(TableLink, {}) = {}
      BY DEF Through
    <3>6. CASE IsLink(TableLink, level)
      <4>1. Seen(ts, p, v, level, t) \in {{}, Through(TableLink, {})}
        BY <1>2, <2>2, <3>1, <3>4, <3>6 DEF Seen
      <4> QED
        BY <1>1, <2>2, <3>1, <3>2, <3>5, <4>1
    <3>7. IsLink(TableLink, level)
      BY <1>1, <3>1, TableLinks DEF IsLink
    <3> QED
      BY <3>6, <3>7
  <2>4. CASE ~(t = call.page_table /\ i = entry_idx)
    <3>1. ts[t][i] = tables[t][i]
      BY <1>2, <2>1, <2>4 DEF OnlyEntry
    <3> QED
      BY <2>2, <3>1 DEF Alike
  <2> QED
    BY <2>3, <2>4
<1> QED
  BY <1>5 DEF Harmless

(* AddPage sets an entry.                                                  *)
LEMMA PageSet ==
  ASSUME TablesType, NEW root, NEW depth, AtEntry(root, depth), request.page \in Nat, AddPage
  PROVE  \E e \in EntryT : SetEntry(e)
<1> DEFINE f == SetFlags(Absent, request.flags, FALSE)
           a == (request.page \div Span[call.cur_level]) * Span[call.cur_level]
           large == call.cur_level # 1
           e == [f EXCEPT !.present = TRUE, !.ps = large, !.addr = a]
<1>1. SetEntry(e)
  BY DEF AddPage
<1>2. f \in EntryT
  BY MoreTypes, SetFlagsType
<1>3. a \in Nat
  <2>1. call.cur_level \in Nat
    BY PagingAssumption DEF AtEntry
  <2>2. PICK s \in Nat \ {0} : Span[call.cur_level] = s
    BY <2>1, SpanType
  <2>3. PICK q \in Nat : q = request.page \div s
    BY Divided
  <2>4. q * s \in Nat
    BY Products
  <2> QED
    BY <2>2, <2>3, <2>4
<1>4. large \in BOOLEAN
  OBVIOUS
<1> HIDE DEF a, f, large
<1>5. e \in EntryT
  BY <1>2, <1>3, <1>4 DEF EntryT
<1> QED
  BY <1>1, <1>5

LEMMA BetterSame ==
  ASSUME NEW A PROVE Better(A, A)
BY Zenon DEF Better

(* A step of add_to_hhdm, for a page that the call is not for.             *)
LEMMA AddStepHarmless ==
  ASSUME TablesType, TablesType', NEW root, NEW depth, NEW base, Holds(root, depth), Maps(root, depth, base),
         AddStep, ~AddHalts, NEW p \in Nat, ~InGranule(p, request),
         NEW ts, ts = tables', NEW v, Finds(ts, p, v)
  PROVE  Harmless(root, depth, base, p, ts, v) /\ DOMAIN tables \subseteq DOMAIN ts
<1>1. stage = "add"
  BY DEF AddStep, AddPresent, AddDescend, AddPage, AddTable
<1>2. AtEntry(root, depth) /\ entry \in EntryT
  BY <1>1, EntryFacts DEF AtEntry
<1>3. PICK way : AtPlace(root, depth, base, way)
  BY <1>1, PlaceFacts
<1>4. ASSUME NEW e \in EntryT, SetEntry(e),
             Alike(entry, e) \/ (level_matches_granularity /\ ~InGranule(p, request))
      PROVE  Harmless(root, depth, base, p, ts, v) /\ DOMAIN tables \subseteq DOMAIN ts
  <2>1. OnlyEntry(call.page_table, entry_idx, e) /\ Numbers' = Numbers
    BY <1>2, <1>4, EntryWritten
  <2>2. Harmless(root, depth, base, p, ts, v)
    BY <1>2, <1>3, <1>4, <2>1, EntryHarmless
  <2> QED
    BY <2>1, <2>2 DEF TablesType
<1>5. CASE AddPresent
  <2>1. PICK e \in EntryT : e = SetFlags(entry, request.flags, FALSE)
    BY <1>2, SetFlagsType
  <2>2. SetEntry(e) /\ level_matches_granularity
    BY <1>5, <2>1 DEF AddPresent
  <2> QED
    BY <1>4, <2>2
<1>6. CASE AddPage
  <2>1. level_matches_granularity
    BY <1>6 DEF AddPage
  <2>2. PICK e \in EntryT : SetEntry(e)
    BY <1>2, <1>6, <1>3, PageSet DEF AtPlace
  <2> QED
    BY <1>4, <2>1, <2>2
<1>7. CASE AddDescend
  <2>1. PICK e \in EntryT : e = SetFlags(entry, request.flags, TRUE)
    BY <1>2, SetFlagsType
  <2>2. e.present = entry.present /\ e.ps = entry.ps /\ e.addr = entry.addr
    BY <1>2, <2>1, SetFlagsType
  <2>3. Permits(e)
    BY <1>2, <2>1, FlagsSet
  <2>4. SetEntry(e)
    BY <1>7, <2>1 DEF AddDescend
  <2>5. Alike(entry, e)
    BY <2>2, <2>3 DEF Alike, Permits
  <2> QED
    BY <1>4, <2>4, <2>5
<1>8. CASE AddTable
  <2>1. Numbers' = 0..NewTable /\ NewTable \in Nat
    BY <1>2, <1>8, TableWritten DEF AtEntry
  <2>2. DOMAIN tables = 0..(NewTable - 1) /\ DOMAIN ts = 0..NewTable
    BY <2>1 DEF TablesType, Numbers
  <2>3. DOMAIN tables \subseteq DOMAIN ts
    BY <2>1, <2>2
  <2>4. Harmless(root, depth, base, p, ts, v)
    BY <1>2, <1>8, TableHarmless
  <2> QED
    BY <2>3, <2>4
<1> QED
  BY <1>5, <1>6, <1>7, <1>8 DEF AddStep

LEMMA StepBetters ==
  ASSUME TablesType, TablesType', NEW root, NEW depth, NEW base, Holds(root, depth), Maps(root, depth, base),
         AddStep, NEW p \in Pages, ~InGranule(p, request)
  PROVE  Better(Translate(tables, cr3, p), Translate(tables', cr3, p))
<1>1. stage = "add" /\ Running
  BY DEF AddStep, AddPresent, AddDescend, AddHalts, AddPage, AddTable, Running
<1>2. cr3 = root /\ p \in Nat /\ Place(p, LEVELS + 1) = 0 /\ OwnDirect(root, depth, base)
  BY <1>1, PlaceInRoot DEF Holds, AtStage, Maps
<1>3. CASE AddHalts
  <2>1. tables' = tables
    BY <1>3 DEF AddHalts
  <2> QED
    BY <2>1, BetterSame
<1>4. CASE ~AddHalts
  <2>1. PICK old, new : old = tables /\ new = tables'
    OBVIOUS
  <2>2. /\ old \in [DOMAIN old -> [Indices -> EntryT]]
        /\ new \in [DOMAIN new -> [Indices -> EntryT]]
    <3>1. Indices' = Indices
      BY DEF Indices
    <3>2. tables' \in [Numbers' -> [Indices -> EntryT]]
      BY <3>1 DEF TablesType
    <3> QED
      BY <2>1, <3>2 DEF TablesType
  <2>3. PICK w : Walks(old, p, w) /\ \A t : Translate(old, t, p) = w[LEVELS][t]
    BY <1>2, <2>2, TranslateIsWalk
  <2>4. PICK v : Walks(new, p, v) /\ \A t : Translate(new, t, p) = v[LEVELS][t]
    BY <1>2, <2>2, TranslateIsWalk
  <2>5. Finds(old, p, w) /\ Finds(new, p, v)
    BY <1>2, <2>2, <2>3, <2>4, WalkFinds
  <2>6. Harmless(root, depth, base, p, new, v) /\ DOMAIN tables \subseteq DOMAIN new
    BY <1>2, <1>4, <2>1, <2>5, AddStepHarmless
  <2>7. Changed(p, w, new, v)
    BY <1>2, <2>1, <2>2, <2>5, <2>6 DEF Changed
  <2>8. Better(w[LEVELS][root], v[LEVELS][root])
    BY <1>1, <1>2, <2>6, <2>7, KeptFinds
  <2> QED
    BY <1>2, <2>1, <2>3, <2>4, <2>8
<1> QED
  BY <1>3, <1>4

(* add_to_hhdm (paging.c): at no step of a call does a page that it is not *)
(* for lose its memory or a permission, and none that was not mapped is    *)
(* mapped.                                                                 *)
THEOREM OthersKeptTheorem == ImageSpec => OthersKept
<1> DEFINE Unharmed(p) == LET before == Translate(tables, cr3, p)
                              after  == Translate(tables', cr3, p)
                          IN  /\ before = {} => after = {}
                              /\ \A x \in before : \E y \in after :
                                   /\ y.page = x.page
                                   /\ x.write => y.write
                                   /\ y.nx => x.nx
           Keeps == stage = "add" => \A p \in {q \in Pages : ~InGranule(q, request)} : Unharmed(p)
<1>1. ASSUME NEW p, Better(Translate(tables, cr3, p), Translate(tables', cr3, p))
      PROVE  Unharmed(p)
  BY <1>1 DEF Better
<1>2. ImageInv /\ UseInv /\ TablesType' /\ [ImageNext]_image_vars => [Keeps]_paging_vars
  <2> SUFFICES ASSUME ImageInv, UseInv, TablesType', [ImageNext]_image_vars, paging_vars' # paging_vars,
                      stage = "add", NEW p \in Pages, ~InGranule(p, request)
               PROVE  Unharmed(p)
    OBVIOUS
  <2> HIDE DEF Unharmed
  <2>1. lpc = "kmain" /\ Running /\ TablesType
    BY DEF ImageInv, UseInv, Running
  <2>2. AddStep
    BY <2>1 DEF ImageNext, LoaderMapElf, CheckHeaders, MakeWritable, CopySegment, SetSegmentFlags,
                Kstart, image_vars, paging_vars, PagingNext, Clone, StartClone, CloneEntry,
                CloneTable, CloneReturn, Add
  <2>3. PICK root, depth, base : Holds(root, depth) /\ Maps(root, depth, base)
    BY <2>1 DEF UseInv
  <2>4. Better(Translate(tables, cr3, p), Translate(tables', cr3, p))
    BY <2>1, <2>2, <2>3, StepBetters
  <2> QED
    BY <1>1, <2>4
<1>3. ImageInv => TablesType
  BY DEF ImageInv, PagingInv
<1> QED
  BY <1>2, <1>3, UseInvariant, PTL DEF ImageSpec, OthersKept


-----------------------------------------------------------------------------
LEMMA Digits ==
  ASSUME NEW a \in Nat, NEW n \in Nat \ {0}
  PROVE  \E x \in Nat, r \in 0..(n - 1) : x = a \div n /\ r = a % n /\ a = x * n + r
<1>1. a \div n \in Nat /\ a % n \in 0..(n - 1) /\ a = (a \div n) * n + (a % n)
  BY Divided
<1> QED
  BY <1>1, Zenon

(* The digits of a page number that lies some multiple of pages on.        *)
LEMMA ShiftedQuotient ==
  ASSUME NEW a \in Nat, NEW n \in Nat \ {0}, NEW k \in Nat
  PROVE  (a + k * n) \div n = a \div n + k /\ (a + k * n) % n = a % n
<1>1. PICK x \in Nat, r \in 0..(n - 1) : x = a \div n /\ r = a % n /\ a = x * n + r
  BY Divided
<1>2. PICK b \in Nat : b = a + k * n
  <2>1. k * n \in Nat
    BY Products
  <2> QED
    BY <2>1
<1>3. b = (x + k) * n + r
  <2>1. (x + k) * n = x * n + k * n
    BY Products
  <2>2. PICK c \in Nat, d \in Nat : c = x * n /\ d = k * n
    BY Products
  <2> QED
    BY <1>1, <1>2, <2>1, <2>2
<1>4. PICK y \in Nat : y = x + k
  OBVIOUS
<1>5. b \div n = y
  <2>1. b = y * n + r
    BY <1>3, <1>4
  <2> QED
    BY <2>1, QuotientIs
<1>6. b % n = r
  <2>1. b = y * n + (b % n) /\ b % n \in 0..(n - 1)
    BY <1>5, Divided
  <2>2. PICK c \in Nat : c = y * n
    BY Products
  <2> QED
    BY <1>3, <1>4, <2>1, <2>2
<1> QED
  BY <1>1, <1>2, <1>4, <1>5, <1>6

(* The pages of an entry of a level are a multiple of those of one below.  *)
Multiple(a, n) == \E k \in Nat : a = k * n

LEMMA MultipleIs ==
  ASSUME NEW a \in Nat, NEW n \in Nat \ {0}
  PROVE  (a % n = 0) <=> Multiple(a, n)
<1>1. ASSUME a % n = 0 PROVE Multiple(a, n)
  <2>1. a = (a \div n) * n + (a % n) /\ a \div n \in Nat
    BY Divided
  <2>2. PICK x \in Nat : x = a \div n
    BY <2>1
  <2>3. x * n \in Nat
    BY Products
  <2> QED
    BY <1>1, <2>1, <2>2, <2>3 DEF Multiple
<1>2. ASSUME NEW k \in Nat, a = k * n PROVE a % n = 0
  <2>1. (0 + k * n) % n = 0 % n
    BY ShiftedQuotient
  <2>2. 0 % n = 0
    OBVIOUS
  <2>3. k * n \in Nat
    BY Products
  <2> QED
    BY <1>2, <2>1, <2>2, <2>3
<1> QED
  BY <1>1, <1>2 DEF Multiple

LEMMA SpanMultiple ==
  ASSUME NEW level \in Nat \ {0}, NEW m \in Nat, level <= m
  PROVE  Multiple(Span[m], Span[level])
<1> DEFINE Good == {n \in Nat : Multiple(Span[level + n], Span[level])}
<1>1. 0 \in Good
  <2>1. level + 0 = level /\ Span[level] \in Nat
    BY SpanType
  <2>2. Span[level] = 1 * Span[level]
    BY <2>1
  <2> QED
    BY <2>1, <2>2 DEF Multiple
<1>2. ASSUME NEW n \in Good PROVE n + 1 \in Good
  <2>1. PICK k \in Nat : Span[level + n] = k * Span[level]
    BY DEF Multiple
  <2>2. PICK l \in Nat \ {0} : l = level + n
    OBVIOUS
  <2>3. Span[l + 1] = FAN * Span[l] /\ FAN \in Nat
    BY SpanStep, PagingAssumption
  <2>4. PICK s \in Nat : s = Span[level]
    BY SpanType
  <2>5. FAN * (k * s) = (FAN * k) * s /\ FAN * k \in Nat
    BY <2>3, Products
  <2>6. level + (n + 1) = l + 1
    BY <2>2
  <2>7. Span[level + (n + 1)] = (FAN * k) * Span[level]
    BY <2>1, <2>2, <2>3, <2>4, <2>5, <2>6
  <2> QED
    BY <2>5, <2>7 DEF Multiple
<1>3. Good \subseteq Nat
  OBVIOUS
<1> HIDE DEF Good
<1>4. Good = Nat
  BY <1>1, <1>2, <1>3, NatSets
<1>5. m - level \in Good /\ level + (m - level) = m
  BY <1>4
<1> QED
  BY <1>5 DEF Good

LEMMA MultipleOf ==
  ASSUME NEW a \in Nat, NEW b \in Nat, NEW n \in Nat, Multiple(a, b), Multiple(b, n)
  PROVE  Multiple(a, n)
<1>1. PICK j \in Nat : a = j * b
  BY DEF Multiple
<1>2. PICK k \in Nat : b = k * n
  BY DEF Multiple
<1>3. j * (k * n) = (j * k) * n /\ j * k \in Nat
  BY Products
<1> QED
  BY <1>1, <1>2, <1>3 DEF Multiple

(* So many pages on, the digits below are the same.                        *)
LEMMA SameDigit ==
  ASSUME NEW p \in Nat, NEW level \in Nat \ {0}, NEW m \in Nat, level < m
  PROVE  Index(p + Span[m], level) = Index(p, level) /\ Place(p + Span[m], m) = Place(p, m) + 1
<1>1. PICK s \in Nat \ {0}, l \in Nat \ {0} : s = Span[level] /\ l = level + 1
  BY SpanType
<1>2. PICK k \in Nat : Span[m] = k * Span[l]
  BY <1>1, SpanMultiple DEF Multiple
<1>3. Span[l] = FAN * s /\ FAN \in Nat \ {0}
  BY <1>1, SpanStep, PagingAssumption
<1>4. PICK j \in Nat : j = k * FAN
  BY <1>3, Products
<1>5. Span[m] = j * s
  BY <1>2, <1>3, <1>4, Products
<1>6. (p + j * s) \div s = p \div s + j
  BY ShiftedQuotient
<1>7. PICK x \in Nat : x = p \div s
  BY Divided
<1>8. (x + k * FAN) % FAN = x % FAN
  BY <1>3, ShiftedQuotient
<1>9. Index(p + Span[m], level) = Index(p, level)
  <2>1. (p + Span[m]) \div Span[level] = (p + j * s) \div s
    BY <1>1, <1>5, Zenon
  <2>2. (p + j * s) \div s = x + k * FAN
    BY <1>4, <1>6, <1>7, Zenon
  <2>3. p \div Span[level] = x
    BY <1>1, <1>7, Zenon
  <2> QED
    BY <1>8, <2>1, <2>2, <2>3, Zenon DEF Index
<1>10. PICK z \in Nat \ {0} : z = Span[m]
  BY SpanType
<1>13. (p + z) \div z = p \div z + 1
  <2>1. PICK v \in Nat, r \in 0..(z - 1) : v = p \div z /\ p = v * z + r
    BY Divided
  <2>2. (v + 1) * z = v * z + z
    OBVIOUS
  <2>3. PICK c \in Nat, y \in Nat, a \in Nat : c = v * z /\ y = v + 1 /\ a = p + z
    BY Products
  <2>4. a = y * z + r
    BY <2>1, <2>2, <2>3
  <2>5. a \div z = y
    BY <2>4, QuotientIs
  <2> QED
    BY <2>1, <2>3, <2>5
<1>14. Place(p + Span[m], m) = Place(p, m) + 1
  BY <1>10, <1>13, Zenon DEF Place
<1> QED
  BY <1>9, <1>14

-----------------------------------------------------------------------------
(* Where a loop leads from an entry: to pages of the same entry above, or  *)
(* past the end of its table, where the index begins anew.                 *)
Onward(a, c, level) ==
  /\ a <= c /\ c < a + Span[level + 1]
  /\ c = a \/ Multiple(c, Span[level])

Behind(q, c, m) == c = q + Span[m]

LEMMA PastTheEnd ==
  ASSUME NEW level \in Nat \ {0}, NEW a \in Nat, NEW c \in Nat, Onward(a, c, level),
         Place(c, level + 1) # Place(a, level + 1)
  PROVE  /\ Multiple(c, Span[level]) /\ ~Multiple(a, Span[level + 1])
         /\ \E q \in Nat : Behind(q, c, level + 1) /\ Place(q, level + 1) = Place(a, level + 1)
<1>1. PICK l \in Nat \ {0}, n \in Nat \ {0} : l = level + 1 /\ n = Span[l]
  <2>1. level + 1 \in Nat \ {0}
    OBVIOUS
  <2> QED
    BY <2>1, SpanType
<1>2. a \in Nat /\ c \in Nat /\ a <= c /\ c < a + n /\ (c = a \/ Multiple(c, Span[level]))
  BY <1>1 DEF Onward
<1>3. Place(c, l) = c \div n /\ Place(a, l) = a \div n /\ Place(c, l) # Place(a, l)
  BY <1>1 DEF Place
<1>4. PICK x \in Nat, r \in 0..(n - 1) : x = a \div n /\ r = a % n /\ a = x * n + r
  BY Digits, Zenon
<1>5. PICK b \in Nat : b = x * n
  BY Products
<1>6. b + n <= c
  <2>1. SUFFICES ASSUME c < b + n PROVE FALSE
    BY <1>2, <1>5
  <2>2. PICK e \in 0..(n - 1) : c = b + e
    <3>1. c - b \in 0..(n - 1) /\ c = b + (c - b)
      BY <1>2, <1>4, <1>5, <2>1
    <3> QED
      BY <3>1
  <2>3. c \div n = x
    BY <1>2, <1>5, <2>2, QuotientIs
  <2> QED
    BY <1>3, <1>4, <2>3
<1>7. PICK q \in Nat, e \in 0..(n - 1) : c = q + n /\ q = b + e
  <2>1. c - n \in Nat /\ c = (c - n) + n /\ (c - n) - b \in 0..(n - 1) /\ c - n = b + ((c - n) - b)
    BY <1>2, <1>4, <1>5, <1>6
  <2> QED
    BY <2>1
<1>8. q \div n = x
  BY <1>5, <1>7, QuotientIs
<1>9. ~Multiple(a, n)
  <2>1. a % n # 0
    BY <1>2, <1>4, <1>5, <1>6
  <2> QED
    BY <1>2, <2>1, MultipleIs
<1>10. c # a
  BY <1>3
<1> QED
  BY <1>1, <1>2, <1>3, <1>4, <1>7, <1>8, <1>9, <1>10, Zenon DEF Behind, Place

(* From an entry to which the loop came that way it goes on with the pages *)
(* that are as many behind.                                                *)
LEMMA StaysBehind ==
  ASSUME NEW level \in Nat \ {0}, NEW a \in Nat, NEW c \in Nat, Onward(a, c, level),
         NEW q \in Nat, NEW m \in Nat, level + 1 < m, Behind(q, a, m), Multiple(a, Span[level + 1])
  PROVE  /\ Multiple(c, Span[level])
         /\ \E r \in Nat : Behind(r, c, m) /\ Place(r, level + 1) = Place(q, level + 1)
<1>1. PICK l \in Nat \ {0}, n \in Nat \ {0}, d \in Nat \ {0} :
        l = level + 1 /\ n = Span[l] /\ d = Span[m]
  <2>1. level + 1 \in Nat \ {0}
    OBVIOUS
  <2> QED
    BY <2>1, SpanType
<1>2. a \in Nat /\ c \in Nat /\ a <= c /\ c < a + n /\ (c = a \/ Multiple(c, Span[level]))
  BY <1>1 DEF Onward
<1>3. a = q + d
  BY <1>1 DEF Behind
<1>4. PICK j \in Nat, k \in Nat : a = j * n /\ d = k * n
  <2>1. Multiple(a, n)
    BY <1>1
  <2>2. Multiple(d, n)
    <3>1. l <= m
      BY <1>1
    <3> QED
      BY <1>1, <3>1, SpanMultiple
  <2> QED
    BY <2>1, <2>2 DEF Multiple
<1>5. PICK r \in Nat, e \in 0..(n - 1) : r = q + (c - a) /\ e = c - a
  BY <1>2
<1>6. c = r + d
  BY <1>2, <1>3, <1>5
<1>7. PICK i \in Nat : q = i * n
  <2>1. PICK x \in Nat, y \in 0..(n - 1) : x = q \div n /\ y = q % n /\ q = x * n + y
    BY Digits, Zenon
  <2>2. (q + k * n) % n = q % n
    BY ShiftedQuotient
  <2>3. a % n = 0
    BY <1>2, <1>4, MultipleIs DEF Multiple
  <2>4. y = 0
    BY <1>3, <1>4, <2>1, <2>2, <2>3, Zenon
  <2>5. x * n \in Nat
    BY Products
  <2>6. q = x * n
    BY <2>1, <2>4, <2>5
  <2> QED
    BY <2>6
<1>8. q \div n = i /\ r \div n = i
  <2>1. PICK b \in Nat : b = i * n
    BY Products
  <2>2. PICK o \in 0..(n - 1) : o = 0
    OBVIOUS
  <2>3. q = i * n + o /\ r = i * n + e
    BY <1>5, <1>7, <2>1, <2>2
  <2>4. q \div n = i
    BY <2>3, QuotientIs
  <2>5. r \div n = i
    BY <2>3, QuotientIs
  <2> QED
    BY <2>4, <2>5
<1>9. Multiple(c, Span[level])
  <2>1. PICK s \in Nat : s = Span[level]
    BY SpanType
  <2>2. Multiple(n, s)
    <3>1. level <= l /\ l \in Nat
      BY <1>1
    <3> QED
      BY <1>1, <2>1, <3>1, SpanMultiple
  <2>3. Multiple(a, n)
    BY <1>1
  <2>4. Multiple(a, s)
    BY <1>2, <2>2, <2>3, MultipleOf
  <2> QED
    BY <1>2, <2>1, <2>4
<1> QED
  BY <1>1, <1>6, <1>8, <1>9, Zenon DEF Behind, Place

-----------------------------------------------------------------------------
(* Of the pages from first on to a page q, the one with which the entry    *)
(* that is for q begins.                                                   *)
Floor(q, level) == Place(q, level) * Span[level]
Top(first, q, level) == IF first <= Floor(q, level) THEN Floor(q, level) ELSE first

LEMMA FloorFacts ==
  ASSUME NEW level \in Nat \ {0}, NEW q \in Nat
  PROVE  /\ Floor(q, level) \in Nat /\ Floor(q, level) <= q /\ q < Floor(q, level) + Span[level]
         /\ Multiple(Floor(q, level), Span[level])
<1>1. PICK n \in Nat \ {0} : n = Span[level]
  BY SpanType
<1>2. PICK x \in Nat, r \in 0..(n - 1) : x = q \div n /\ r = q % n /\ q = x * n + r
  BY Digits, Zenon
<1>3. PICK b \in Nat : b = x * n
  BY Products
<1>4. Floor(q, level) = x * n
  BY <1>1, <1>2, Zenon DEF Floor, Place
<1>5. Multiple(b, n)
  BY <1>3 DEF Multiple
<1>6. b <= q /\ q < b + n
  BY <1>2, <1>3
<1> QED
  BY <1>1, <1>3, <1>4, <1>5, <1>6, Zenon

LEMMA BetweenFloors ==
  ASSUME NEW level \in Nat \ {0}, NEW q \in Nat, NEW p \in Nat,
         Floor(q, level) <= p, p < Floor(q, level) + Span[level]
  PROVE  Place(p, level) = Place(q, level)
<1>1. PICK n \in Nat \ {0} : n = Span[level]
  BY SpanType
<1>2. PICK x \in Nat : x = q \div n
  BY Digits, Zenon
<1>3. PICK b \in Nat : b = x * n
  BY Products
<1>4. Floor(q, level) = b
  BY <1>1, <1>2, <1>3, Zenon DEF Floor, Place
<1>5. PICK e \in 0..(n - 1) : p = b + e
  <2>1. p - b \in 0..(n - 1) /\ p = b + (p - b)
    BY <1>1, <1>4
  <2> QED
    BY <2>1
<1>6. p \div n = x
  <2>1. p = x * n + e
    BY <1>3, <1>5
  <2> QED
    BY <2>1, QuotientIs
<1> QED
  BY <1>1, <1>2, <1>6, Zenon DEF Place

LEMMA FloorStep ==
  ASSUME NEW level \in Nat \ {0}, NEW q \in Nat
  PROVE  /\ Floor(q, level + 1) <= Floor(q, level)
         /\ Floor(q, level) < Floor(q, level + 1) + Span[level + 1]
<1>1. PICK l \in Nat \ {0} : l = level + 1
  OBVIOUS
<1>2. PICK n \in Nat \ {0}, k \in Nat \ {0} : n = Span[level] /\ k = Span[l]
  BY SpanType
<1>3. FAN \in Nat \ {0} /\ k = FAN * n
  BY <1>1, <1>2, SpanStep, PagingAssumption
<1>4. PICK x \in Nat, y \in Nat : x = Place(q, level) /\ y = Place(q, l)
  BY <1>1, PlaceStep
<1>5. PICK i \in 0..(FAN - 1) : i = Index(q, level)
  BY IndexInTable
<1>6. x = y * FAN + i
  BY <1>1, <1>4, <1>5, PlaceStep
<1>7. x * n = y * k + i * n
  <2>1. PICK c \in Nat : c = y * FAN
    BY <1>3, Products
  <2>2. (c + i) * n = c * n + i * n
    BY Products
  <2>3. (y * FAN) * n = y * (FAN * n)
    BY <1>3, Products
  <2>4. x = c + i
    BY <1>6, <2>1
  <2>5. c * n = y * k
    BY <1>3, <2>1, <2>3, Zenon
  <2> QED
    BY <2>2, <2>4, <2>5, Zenon
<1>8. i * n < k
  <2>1. i + 1 \in Nat /\ i + 1 <= FAN /\ FAN \in Nat
    BY <1>3
  <2>2. (i + 1) * n <= FAN * n
    BY <2>1, Products
  <2>3. (i + 1) * n = i * n + n
    OBVIOUS
  <2>4. PICK c \in Nat : c = i * n
    BY Products
  <2> QED
    BY <1>3, <2>2, <2>3, <2>4
<1>9. PICK b \in Nat, d \in Nat : b = y * k /\ d = i * n
  BY Products
<1>10. Floor(q, level) = x * n /\ Floor(q, l) = y * k
  BY <1>2, <1>4 DEF Floor
<1>11. Floor(q, level) = b + d /\ Floor(q, l) = b /\ d < k
  BY <1>7, <1>8, <1>9, <1>10
<1>12. b <= b + d /\ b + d < b + k
  BY <1>11
<1> QED
  BY <1>1, <1>2, <1>11, <1>12

LEMMA TopFacts ==
  ASSUME NEW level \in Nat \ {0}, NEW first \in Nat, NEW q \in Nat, first <= q
  PROVE  LET a == Top(first, q, level) IN
         /\ a \in Nat /\ first <= a /\ a <= q /\ Place(a, level) = Place(q, level)
         /\ a = first \/ Multiple(a, Span[level])
<1>1. PICK a \in Nat, b \in Nat, n \in Nat \ {0} :
        a = Top(first, q, level) /\ b = Floor(q, level) /\ n = Span[level]
  BY FloorFacts, SpanType DEF Top
<1>2. b <= q /\ q < b + n /\ Multiple(b, n)
  BY <1>1, FloorFacts
<1>3. (a = b /\ first <= b) \/ (a = first /\ b < first)
  BY <1>1 DEF Top
<1>4. first <= a /\ a <= q /\ b <= a /\ a < b + n
  BY <1>2, <1>3
<1>5. Place(a, level) = Place(q, level)
  BY <1>1, <1>4, BetweenFloors
<1>6. a = first \/ Multiple(a, n)
  BY <1>2, <1>3
<1> QED
  BY <1>1, <1>4, <1>5, <1>6

LEMMA TopStep ==
  ASSUME NEW level \in Nat \ {0}, NEW first \in Nat, NEW q \in Nat, first <= q
  PROVE  Onward(Top(first, q, level + 1), Top(first, q, level), level)
<1>1. PICK l \in Nat \ {0} : l = level + 1
  OBVIOUS
<1>2. PICK b \in Nat, d \in Nat, n \in Nat \ {0}, k \in Nat \ {0} :
        b = Floor(q, level) /\ d = Floor(q, l) /\ n = Span[level] /\ k = Span[l]
  BY FloorFacts, SpanType
<1>3. d <= b /\ b < d + k /\ Multiple(b, n)
  BY <1>1, <1>2, FloorStep, FloorFacts
<1>4. PICK a \in Nat, c \in Nat : a = Top(first, q, l) /\ c = Top(first, q, level)
  BY <1>2 DEF Top
<1>5. (c = b /\ first <= b) \/ (c = first /\ b < first)
  BY <1>2, <1>4 DEF Top
<1>6. (a = d /\ first <= d) \/ (a = first /\ d < first)
  BY <1>2, <1>4 DEF Top
<1>7. a <= c /\ c < a + k
  BY <1>3, <1>5, <1>6
<1>9. c = a \/ Multiple(c, n)
  BY <1>3, <1>5, <1>6
<1> QED
  BY <1>1, <1>2, <1>4, <1>7, <1>9 DEF Onward

-----------------------------------------------------------------------------
(* What vprotect comes by, level by level.                                 *)
VisitT(ts) == [table : DOMAIN ts, addr : Nat, up : Nat]

InTheRoot(root, first, last) ==
  {[table |-> root, addr |-> a, up |-> a] : a \in Steps(first, Span[LEVELS], last)}

Below(ts, last, level, v) ==
  LET e == ts[v.table][Index(v.addr, level + 1)] IN
  {[table |-> e.addr, addr |-> a, up |-> v.addr] :
     a \in IF e.ps \/ e.addr \notin DOMAIN ts THEN {}
           ELSE Steps(v.addr, Span[level], LoopEnd(level, v, last))}

Opened(ts, root, first, last, V) ==
  V = [level \in 1..LEVELS |->
         IF level = LEVELS THEN InTheRoot(root, first, last)
         ELSE UNION {Below(ts, last, level, v) : v \in V[level + 1]}]

LEMMA StepsTypes ==
  ASSUME NEW from \in Nat, NEW span, NEW end \in Int
  PROVE  Steps(from, span, end) \subseteq Nat
BY DEF Steps

LEMMA BelowTypes ==
  ASSUME NEW ts, ts \in [DOMAIN ts -> [Indices -> EntryT]], NEW last \in Int,
         NEW level \in Nat \ {0}, NEW v \in VisitT(ts)
  PROVE  Below(ts, last, level, v) \subseteq VisitT(ts)
<1>1. PICK l \in Nat \ {0} : l = level + 1
  OBVIOUS
<1>2. PICK i \in Indices : i = Index(v.addr, l)
  BY IndexInTable DEF Indices, VisitT
<1>3. PICK e \in EntryT : e = ts[v.table][i]
  BY DEF VisitT
<1>4. v.addr \in Nat /\ v.up \in Nat
  BY DEF VisitT
<1>5. PICK s \in Nat, k \in Nat : s = Span[l] /\ k = Span[2]
  BY SpanType
<1>6. LoopEnd(level, v, last) \in Int
  BY <1>1, <1>4, <1>5 DEF LoopEnd, Lesser
<1>7. Steps(v.addr, Span[level], LoopEnd(level, v, last)) \subseteq Nat
  BY <1>4, <1>6, StepsTypes
<1>8. Below(ts, last, level, v) =
        {[table |-> e.addr, addr |-> a, up |-> v.addr] :
           a \in IF e.ps \/ e.addr \notin DOMAIN ts THEN {}
                 ELSE Steps(v.addr, Span[level], LoopEnd(level, v, last))}
  BY <1>1, <1>2, <1>3, Zenon DEF Below
<1>9. ASSUME NEW a \in Nat, e.addr \in DOMAIN ts
      PROVE  [table |-> e.addr, addr |-> a, up |-> v.addr] \in VisitT(ts)
  BY <1>4, <1>9 DEF VisitT
<1> QED
  BY <1>7, <1>8, <1>9

LEMMA VisitedOpens ==
  ASSUME NEW ts, ts \in [DOMAIN ts -> [Indices -> EntryT]], NEW root \in DOMAIN ts,
         NEW first \in Nat, NEW last \in Int
  PROVE  Opened(ts, root, first, last, Visited(ts, root, first, last))
<1> DEFINE S == SUBSET VisitT(ts)
           c == InTheRoot(root, first, last)
           Next1(n, s) == IF n + 1 < LEVELS
                          THEN UNION {Below(ts, last, LEVELS - (n + 1), v) : v \in s} ELSE {}
           g == [p \in Nat \X S |-> Next1(p[1], p[2])]
<1>1. LEVELS \in Nat \ {0}
  BY PagingAssumption
<1>2. c \in S
  <2>1. Steps(first, Span[LEVELS], last) \subseteq Nat
    BY StepsTypes
  <2> QED
    BY <2>1 DEF InTheRoot, VisitT
<1>3. ASSUME NEW n \in Nat, NEW s \in S PROVE Next1(n, s) \in S
  <2>1. CASE n + 1 < LEVELS
    <3>1. PICK l \in Nat \ {0} : l = LEVELS - (n + 1)
      BY <1>1, <2>1
    <3>2. ASSUME NEW v \in s PROVE Below(ts, last, l, v) \subseteq VisitT(ts)
      BY BelowTypes
    <3>3. UNION {Below(ts, last, l, v) : v \in s} \subseteq VisitT(ts)
      BY <3>2
    <3>4. Next1(n, s) = UNION {Below(ts, last, l, v) : v \in s}
      BY <2>1, <3>1
    <3> HIDE DEF Next1
    <3> QED
      BY <3>3, <3>4
  <2>2. CASE ~(n + 1 < LEVELS)
    BY <2>2
  <2> QED
    BY <2>1, <2>2
<1> HIDE DEF Next1
<1>4. g \in StepsOn(S)
  <2> HIDE DEF S
  <2>1. ASSUME NEW p \in Nat \X S PROVE Next1(p[1], p[2]) \in S
    BY <1>3
  <2> QED
    BY <2>1 DEF StepsOn
<1>5. PICK f \in [Nat -> S] : f[0] = c /\ \A n \in Nat : f[n + 1] = g[<<n, f[n]>>]
  <2> HIDE DEF S, g, c
  <2>1. Recursion(S, c, g)
    BY <1>2, <1>4, PrimRec, Zenon
  <2> QED
    BY <2>1 DEF Recursion
<1> DEFINE w == [level \in 1..LEVELS |-> f[LEVELS - level]]
<1>6. w = [level \in 1..LEVELS |->
             IF level = LEVELS THEN InTheRoot(root, first, last)
             ELSE UNION {Below(ts, last, level, v) : v \in w[level + 1]}]
  <2> HIDE DEF S, g, c
  <2>1. ASSUME NEW level \in 1..LEVELS, level = LEVELS PROVE w[level] = InTheRoot(root, first, last)
    <3>1. LEVELS - level = 0
      BY <1>1, <2>1
    <3>2. w[level] = f[0]
      BY <3>1
    <3> QED
      BY <1>5, <3>2 DEF c
  <2>2. ASSUME NEW level \in 1..LEVELS, level # LEVELS
        PROVE  w[level] = UNION {Below(ts, last, level, v) : v \in w[level + 1]}
    <3>1. PICK n \in Nat : n = LEVELS - (level + 1)
      BY <1>1, <2>2
    <3>2. LEVELS - level = n + 1 /\ level + 1 \in 1..LEVELS /\ n + 1 < LEVELS /\ LEVELS - (n + 1) = level
      BY <1>1, <2>2, <3>1
    <3>3. w[level] = f[n + 1] /\ w[level + 1] = f[n]
      BY <3>1, <3>2
    <3>4. f[n] \in S /\ f[n + 1] = g[<<n, f[n]>>]
      BY <1>5
    <3>5. g[<<n, f[n]>>] = Next1(n, f[n])
      BY <3>4 DEF g
    <3>6. Next1(n, f[n]) = UNION {Below(ts, last, level, v) : v \in f[n]}
      BY <3>2 DEF Next1
    <3> HIDE DEF w
    <3> QED
      BY <3>3, <3>4, <3>5, <3>6, Zenon
  <2>3. w = [level \in 1..LEVELS |-> w[level]]
    OBVIOUS
  <2> HIDE DEF w
  <2> QED
    BY <2>1, <2>2, <2>3
<1> HIDE DEF w
<1>7. Opened(ts, root, first, last, w)
  BY <1>6, Zenon DEF Opened
<1> DEFINE V == CHOOSE x : Opened(ts, root, first, last, x)
<1>8. Opened(ts, root, first, last, V)
  BY <1>7
<1>9. Visited(ts, root, first, last) = V
  BY Zenon DEF Visited, Opened, Below, InTheRoot
<1> QED
  BY <1>8, <1>9, Zenon

-----------------------------------------------------------------------------
(* The page q, if any, of the entry that the loop comes by with address a. *)
IsAt(first, level, a, q) ==
  \/ q = a
  \/ /\ Multiple(a, Span[level])
     /\ \E m \in (level + 1)..LEVELS : Behind(q, a, m) /\ Place(q, m) = Place(first, m)

LEMMA AtChild ==
  ASSUME NEW level \in Nat \ {0}, level + 1 <= LEVELS, NEW first \in Nat,
         NEW a \in Nat, NEW c \in Nat, Onward(a, c, level),
         a = first \/ Multiple(a, Span[level + 1]), NEW q \in Nat, IsAt(first, level + 1, a, q)
  PROVE  \E r \in Nat : /\ IsAt(first, level, c, r) /\ Place(r, level + 1) = Place(q, level + 1)
                        /\ Index(r, level) = Index(c, level)
<1>1. LEVELS \in Nat
  BY PagingAssumption
<1>2. PICK l \in Nat \ {0} : l = level + 1
  OBVIOUS
<1>3. CASE q = a
  <2>1. CASE Place(c, l) = Place(a, l)
    BY <1>2, <1>3, <2>1 DEF IsAt
  <2>2. CASE Place(c, l) # Place(a, l)
    <3>1. /\ Multiple(c, Span[level]) /\ ~Multiple(a, Span[l])
          /\ \E r \in Nat : Behind(r, c, l) /\ Place(r, l) = Place(a, l)
      BY <1>2, <2>2, PastTheEnd
    <3>2. PICK r \in Nat : Behind(r, c, l) /\ Place(r, l) = Place(a, l)
      BY <3>1
    <3>3. l \in (level + 1)..LEVELS /\ level < l
      BY <1>1, <1>2
    <3>4. Place(r, l) = Place(first, l)
      BY <1>2, <3>1, <3>2
    <3>5. IsAt(first, level, c, r)
      BY <3>1, <3>2, <3>3, <3>4, Zenon DEF IsAt
    <3>6. Index(r + Span[l], level) = Index(r, level)
      BY <3>3, SameDigit
    <3>7. Index(c, level) = Index(r, level)
      BY <3>2, <3>6, Zenon DEF Behind
    <3> QED
      BY <1>2, <1>3, <3>2, <3>5, <3>7
  <2> QED
    BY <2>1, <2>2
<1>4. ASSUME Multiple(a, Span[l]), NEW m \in (l + 1)..LEVELS, Behind(q, a, m),
             Place(q, m) = Place(first, m)
      PROVE  \E r \in Nat : /\ IsAt(first, level, c, r) /\ Place(r, l) = Place(q, l)
                            /\ Index(r, level) = Index(c, level)
  <2>1. m \in Nat /\ level + 1 < m /\ l <= m /\ level < m /\ m \in (level + 1)..LEVELS
    BY <1>1, <1>2
  <2>2. /\ Multiple(c, Span[level])
        /\ \E r \in Nat : Behind(r, c, m) /\ Place(r, level + 1) = Place(q, level + 1)
    BY <1>2, <1>4, <2>1, StaysBehind
  <2>3. PICK r \in Nat : Behind(r, c, m) /\ Place(r, l) = Place(q, l)
    BY <1>2, <2>2
  <2>4. Place(r, m) = Place(q, m)
    BY <2>1, <2>3, SamePlace
  <2>5. IsAt(first, level, c, r)
    BY <1>4, <2>1, <2>2, <2>3, <2>4, Zenon DEF IsAt
  <2>6. Index(r + Span[m], level) = Index(r, level)
    BY <2>1, SameDigit
  <2>7. Index(c, level) = Index(r, level)
    BY <2>3, <2>6, Zenon DEF Behind
  <2> QED
    BY <2>3, <2>5, <2>7
<1> QED
  BY <1>2, <1>3, <1>4 DEF IsAt

(* It is one of those that the entries are assumed to be for.              *)
Ranged(im, s, first, last) ==
  /\ first = FirstPage(im, s) /\ last = LastPage(im, s) /\ first \in Nat /\ last \in Int
  /\ first < last => last \in Pages

LEMMA AtIsVisited ==
  ASSUME NEW im, NEW s, NEW first, NEW last, Ranged(im, s, first, last),
         NEW level \in Nat \ {0}, NEW a \in Nat, first <= a, a < last,
         NEW q \in Nat, IsAt(first, level, a, q)
  PROVE  q \in MayVisit(im, s)
<1>1. LEVELS \in Nat \ {0} /\ first \in Nat /\ last \in Int /\ last \in Pages
  BY PagingAssumption DEF Ranged
<1>2. PICK n \in Nat : n = FAN * Span[LEVELS]
  <2>1. FAN \in Nat /\ Span[LEVELS] \in Nat
    BY <1>1, SpanType, PagingAssumption
  <2> QED
    BY <2>1
<1>3. q <= a
  <2>1. ASSUME NEW m \in (level + 1)..LEVELS, Behind(q, a, m) PROVE q <= a
    <3>1. PICK d \in Nat : d = Span[m]
      BY <1>1, SpanType
    <3> QED
      BY <2>1, <3>1 DEF Behind
  <2> QED
    BY <2>1 DEF IsAt
<1>4. q \in Pages /\ q < last
  BY <1>1, <1>2, <1>3 DEF Pages
<1>5. CASE q = a
  BY <1>4, <1>5 DEF MayVisit, Ranged
<1>6. ASSUME NEW m \in (level + 1)..LEVELS, Behind(q, a, m), Place(q, m) = Place(first, m)
      PROVE  q \in MayVisit(im, s)
  <2>1. m \in 2..LEVELS
    BY <1>1
  <2>2. q + Span[m] < last
    BY <1>6 DEF Behind
  <2>3. q \div Span[m] = first \div Span[m]
    BY <1>6 DEF Place
  <2> QED
    BY <1>4, <2>1, <2>2, <2>3 DEF MayVisit, Ranged
<1> QED
  BY <1>5, <1>6 DEF IsAt

-----------------------------------------------------------------------------
(* The boot loader's tables, of which each is for one range of pages.      *)
BootLinks(depth, base) ==
  /\ TablesType /\ depth \in [Numbers -> 1..LEVELS] /\ base \in [Numbers -> Nat]
  /\ cr3 = 0 /\ 0 \in Numbers /\ depth[0] = LEVELS /\ base[0] = 0
  /\ \A t \in Numbers, i \in Indices : IsLink(tables[t][i], depth[t]) =>
       tables[t][i].addr \in Numbers /\ depth[tables[t][i].addr] = depth[t] - 1
  /\ \A t \in Numbers, i \in Indices : InPlace(tables[t][i], depth[t], base, base[t] * FAN + i)

PageOf(t, depth, p) == tables[t][Index(p, depth[t])]

Mapped(depth, base, im, s) ==
  \A t \in Numbers : \A p \in MayVisit(im, s) :
    IsFor(depth, base, t, p) => PageOf(t, depth, p).present

(* What is the case of an entry that vprotect comes by.                    *)
ComesBy(depth, base, first, last, level, v) ==
  /\ v.table \in Numbers /\ depth[v.table] = level
  /\ v.addr \in Nat /\ first <= v.addr /\ v.addr < last
  /\ v.up \in Nat /\ v.up <= v.addr
  /\ v.addr = first \/ Multiple(v.addr, Span[level])
  /\ \E q \in Nat : /\ IsAt(first, level, v.addr, q) /\ Index(q, level) = Index(v.addr, level)
                    /\ base[v.table] = Place(q, level + 1)

LEMMA LoopBounds ==
  ASSUME NEW level \in Nat \ {0}, NEW v, v.addr \in Nat, v.up \in Nat, v.up <= v.addr,
         NEW last \in Int, NEW c \in Steps(v.addr, Span[level], LoopEnd(level, v, last))
  PROVE  c \in Nat /\ c < last /\ Onward(v.addr, c, level)
<1>1. PICK l \in Nat \ {0}, n \in Nat \ {0}, d \in Nat \ {0}, k \in Nat \ {0} :
        l = level + 1 /\ n = Span[level] /\ d = Span[l] /\ k = Span[2]
  <2>1. level + 1 \in Nat \ {0} /\ 2 \in Nat
    OBVIOUS
  <2> QED
    BY <2>1, SpanType
<1>2. PICK a \in Nat, b \in Nat : a = v.addr /\ b = v.up /\ b <= a
  OBVIOUS
<1>3. PICK end \in Int : end = LoopEnd(level, v, last) /\ end <= last /\ end <= a + d
  <2>1. CASE level = 1
    <3>1. LoopEnd(level, v, last) = IF last < b + k THEN last ELSE b + k
      BY <1>1, <1>2, <2>1 DEF LoopEnd, Lesser
    <3>2. k = d
      BY <1>1, <2>1
    <3> QED
      BY <1>2, <3>1, <3>2
  <2>2. CASE level # 1
    <3>1. LoopEnd(level, v, last) = IF last < a + d THEN last ELSE a + d
      BY <1>1, <1>2, <2>2 DEF LoopEnd, Lesser
    <3> QED
      BY <1>2, <3>1
  <2> QED
    BY <2>1, <2>2
<1>4. c \in a..(end - 1) /\ (c = a \/ c % n = 0)
  BY <1>1, <1>2, <1>3 DEF Steps
<1>5. c \in Nat /\ a <= c /\ c < end
  BY <1>2, <1>3, <1>4
<1>6. c = a \/ Multiple(c, n)
  BY <1>4, <1>5, MultipleIs
<1>7. a <= c /\ c < a + d /\ c < last
  BY <1>1, <1>3, <1>5
<1> QED
  BY <1>1, <1>2, <1>5, <1>6, <1>7 DEF Onward

LEMMA ChildComes ==
  ASSUME NEW depth, NEW base, BootLinks(depth, base), NEW im, NEW s, Mapped(depth, base, im, s),
         NEW first, NEW last, Ranged(im, s, first, last), NEW level \in Nat \ {0}, level + 1 <= LEVELS,
         NEW v, ComesBy(depth, base, first, last, level + 1, v), NEW x \in Below(tables, last, level, v)
  PROVE  ComesBy(depth, base, first, last, level, x)
<1>1. PICK l \in Nat \ {0} : l = level + 1 /\ l > 1 /\ l - 1 = level
  OBVIOUS
<1>2. PICK t \in Numbers, a \in Nat :
        /\ t = v.table /\ a = v.addr /\ depth[t] = l /\ first <= a /\ a < last
        /\ v.up \in Nat /\ v.up <= a /\ (a = first \/ Multiple(a, Span[l]))
        /\ \E q \in Nat : /\ IsAt(first, l, a, q) /\ Index(q, l) = Index(a, l)
                          /\ base[t] = Place(q, l + 1)
  BY <1>1, Zenon DEF ComesBy
<1>3. PICK q \in Nat : IsAt(first, l, a, q) /\ Index(q, l) = Index(a, l) /\ base[t] = Place(q, l + 1)
  BY <1>2
<1>4. PICK i \in Indices : i = Index(q, l)
  BY IndexInTable DEF Indices
<1>5. PICK e \in EntryT : e = tables[t][i]
  <2>1. tables[t][i] \in EntryT
    BY DEF BootLinks, TablesType
  <2> QED
    BY <2>1
<1>6. first \in Nat /\ last \in Int
  BY DEF Ranged
<1>7. e.present
  <2>1. q \in MayVisit(im, s)
    BY <1>2, <1>3, <1>6, AtIsVisited
  <2>2. IsFor(depth, base, t, q)
    BY <1>2, <1>3, Zenon DEF IsFor, Place
  <2>3. PageOf(t, depth, q).present
    BY <2>1, <2>2 DEF Mapped
  <2> QED
    BY <1>2, <1>4, <1>5, <2>3, Zenon DEF PageOf
<1>8. /\ ~e.ps /\ x.table = e.addr
      /\ x.addr \in Steps(a, Span[level], LoopEnd(level, v, last)) /\ x.up = a
  <2>1. Below(tables, last, level, v) =
          {[table |-> e.addr, addr |-> c, up |-> a] :
             c \in IF e.ps \/ e.addr \notin DOMAIN tables THEN {}
                   ELSE Steps(a, Span[level], LoopEnd(level, v, last))}
    BY <1>1, <1>2, <1>3, <1>4, <1>5, Zenon DEF Below
  <2>2. PICK c \in IF e.ps \/ e.addr \notin DOMAIN tables THEN {}
                   ELSE Steps(a, Span[level], LoopEnd(level, v, last)) :
          x = [table |-> e.addr, addr |-> c, up |-> a]
    BY <2>1
  <2> QED
    BY <2>2
<1>9. PICK c \in Nat : c = x.addr /\ c < last /\ Onward(a, c, level)
  BY <1>2, <1>6, <1>8, LoopBounds
<1>10. PICK u \in Numbers : u = e.addr /\ depth[u] = level /\ base[u] = Place(q, l)
  <2>1. IsLink(e, l)
    BY <1>1, <1>7, <1>8 DEF IsLink
  <2>2. tables[t][i].addr \in Numbers /\ depth[tables[t][i].addr] = depth[t] - 1
    BY <1>2, <1>5, <2>1, Zenon DEF BootLinks
  <2>3. InPlace(e, l, base, base[t] * FAN + i)
    BY <1>2, <1>5, Zenon DEF BootLinks
  <2>4. base[e.addr] = base[t] * FAN + i
    BY <1>7, <2>1, <2>3 DEF InPlace
  <2>5. Place(q, l) = Place(q, l + 1) * FAN + Index(q, l)
    BY PlaceStep
  <2>6. base[e.addr] = Place(q, l)
    BY <1>3, <1>4, <2>4, <2>5, Zenon
  <2>7. e.addr \in Numbers /\ depth[e.addr] = level
    BY <1>1, <1>2, <1>5, <2>2
  <2> QED
    BY <2>6, <2>7
<1>11. PICK r \in Nat : /\ IsAt(first, level, c, r) /\ Place(r, level + 1) = Place(q, level + 1)
                        /\ Index(r, level) = Index(c, level)
  <2>1. IsAt(first, level + 1, a, q) /\ (a = first \/ Multiple(a, Span[level + 1]))
    BY <1>1, <1>2, <1>3
  <2> QED
    BY <1>6, <1>9, <2>1, AtChild
<1>12. base[u] = Place(r, level + 1)
  BY <1>1, <1>10, <1>11
<1>13. c = first \/ Multiple(c, Span[level])
  <2>1. CASE c = a /\ Multiple(a, Span[l])
    <3>1. PICK n \in Nat, d \in Nat : n = Span[level] /\ d = Span[l]
      BY SpanType
    <3>2. Multiple(d, n)
      <4>1. level <= l /\ l \in Nat
        BY <1>1
      <4> QED
        BY <3>1, <4>1, SpanMultiple
    <3> QED
      BY <2>1, <3>1, <3>2, MultipleOf
  <2> QED
    BY <1>2, <1>9, <2>1 DEF Onward
<1>14. first <= c /\ a <= c
  BY <1>2, <1>6, <1>9 DEF Onward
<1> QED
  BY <1>8, <1>9, <1>10, <1>11, <1>12, <1>13, <1>14, Zenon DEF ComesBy

LEMMA VisitedComes ==
  ASSUME NEW depth, NEW base, BootLinks(depth, base), NEW im, NEW s, Mapped(depth, base, im, s),
         NEW first, NEW last, Ranged(im, s, first, last), NEW V, Opened(tables, cr3, first, last, V),
         NEW level \in 1..LEVELS, NEW v \in V[level]
  PROVE  ComesBy(depth, base, first, last, level, v)
<1> DEFINE Good == {n \in Nat : n < LEVELS => \A x \in V[LEVELS - n] :
                       ComesBy(depth, base, first, last, LEVELS - n, x)}
<1>1. LEVELS \in Nat \ {0} /\ first \in Nat /\ last \in Int
  BY PagingAssumption DEF Ranged
<1>2. 0 \in Good
  <2>1. SUFFICES ASSUME NEW x \in V[LEVELS] PROVE ComesBy(depth, base, first, last, LEVELS, x)
    BY <1>1
  <2>2. V[LEVELS] = InTheRoot(cr3, first, last)
    BY <1>1 DEF Opened
  <2>3. PICK a \in Steps(first, Span[LEVELS], last) : x = [table |-> cr3, addr |-> a, up |-> a]
    BY <2>2 DEF InTheRoot
  <2>4. a \in Nat /\ first <= a /\ a < last /\ (a = first \/ a % Span[LEVELS] = 0)
    BY <1>1, <2>3 DEF Steps
  <2>5. a = first \/ Multiple(a, Span[LEVELS])
    <3>1. PICK n \in Nat \ {0} : n = Span[LEVELS]
      BY <1>1, SpanType
    <3> QED
      BY <2>4, <3>1, MultipleIs
  <2>6. IsAt(first, LEVELS, a, a)
    BY DEF IsAt
  <2>7. Place(a, LEVELS + 1) = 0
    <3>1. last \in Pages
      BY <1>1, <2>4 DEF Ranged
    <3>2. PICK n \in Nat : n = FAN * Span[LEVELS]
      <4>1. FAN \in Nat /\ Span[LEVELS] \in Nat
        BY <1>1, SpanType, PagingAssumption
      <4> QED
        BY <4>1
    <3>3. a \in Pages
      BY <1>1, <2>4, <3>1, <3>2 DEF Pages
    <3> QED
      BY <3>3, PlaceInRoot
  <2>8. cr3 \in Numbers /\ depth[cr3] = LEVELS /\ base[cr3] = 0
    BY DEF BootLinks
  <2>9. x.table = cr3 /\ x.addr = a /\ x.up = a /\ a <= a
    BY <2>3, <2>4
  <2> QED
    BY <2>4, <2>5, <2>6, <2>7, <2>8, <2>9, Zenon DEF ComesBy
<1>3. ASSUME NEW n \in Good PROVE n + 1 \in Good
  <2>1. SUFFICES ASSUME n + 1 < LEVELS, NEW x \in V[LEVELS - (n + 1)]
                 PROVE  ComesBy(depth, base, first, last, LEVELS - (n + 1), x)
    OBVIOUS
  <2>2. PICK l \in Nat \ {0} : /\ l = LEVELS - (n + 1) /\ l + 1 = LEVELS - n /\ l \in 1..LEVELS
                               /\ l # LEVELS /\ l + 1 <= LEVELS /\ n < LEVELS
    BY <1>1, <2>1
  <2>3. V[l] = UNION {Below(tables, last, l, y) : y \in V[l + 1]}
    <3>1. V[l] = IF l = LEVELS THEN InTheRoot(cr3, first, last)
                 ELSE UNION {Below(tables, last, l, y) : y \in V[l + 1]}
      BY <2>2, Zenon DEF Opened
    <3> QED
      BY <2>2, <3>1, Zenon
  <2>4. PICK y \in V[l + 1] : x \in Below(tables, last, l, y)
    BY <2>1, <2>2, <2>3
  <2>5. ComesBy(depth, base, first, last, l + 1, y)
    BY <2>2, <2>4
  <2>6. ComesBy(depth, base, first, last, l, x)
    BY <2>2, <2>4, <2>5, ChildComes
  <2> QED
    BY <2>2, <2>6
<1>4. Good \subseteq Nat
  OBVIOUS
<1> HIDE DEF Good
<1>5. Good = Nat
  BY <1>2, <1>3, <1>4, NatSets
<1>6. LEVELS - level \in Good /\ LEVELS - level < LEVELS /\ LEVELS - (LEVELS - level) = level
  BY <1>1, <1>5
<1> QED
  BY <1>6 DEF Good

-----------------------------------------------------------------------------
(* What vprotect comes by is a matter of the links alone.                  *)
LEMMA OpenedAt ==
  ASSUME NEW ts, NEW root, NEW first, NEW last, NEW V, Opened(ts, root, first, last, V), NEW level \in 1..LEVELS
  PROVE  /\ level = LEVELS => V[level] = InTheRoot(root, first, last)
         /\ level # LEVELS => V[level] = UNION {Below(ts, last, level, v) : v \in V[level + 1]}
<1>1. V[level] = IF level = LEVELS THEN InTheRoot(root, first, last)
                 ELSE UNION {Below(ts, last, level, v) : v \in V[level + 1]}
  BY Zenon DEF Opened
<1> QED
  BY <1>1, Zenon

LEMMA BelowSame ==
  ASSUME SameLinks, TablesType, NEW ts, ts = tables', NEW last, NEW level \in Nat \ {0},
         NEW v, v.table \in Numbers, v.addr \in Nat
  PROVE  Below(ts, last, level, v) = Below(tables, last, level, v)
<1>1. PICK i \in Indices : i = Index(v.addr, level + 1)
  <2>1. level + 1 \in Nat
    OBVIOUS
  <2> QED
    BY <2>1, IndexInTable DEF Indices
<1>2. DOMAIN ts = DOMAIN tables
  <2>1. DOMAIN tables = Numbers /\ DOMAIN tables' = Numbers' /\ Numbers' = Numbers
    BY DEF SameLinks, TablesType
  <2> QED
    BY <2>1
<1>3. /\ ts[v.table][i].ps = tables[v.table][i].ps
      /\ ts[v.table][i].addr = tables[v.table][i].addr
  BY DEF SameLinks
<1> QED
  BY <1>1, <1>2, <1>3, Zenon DEF Below

LEMMA VisitedSame ==
  ASSUME NEW depth, NEW base, BootLinks(depth, base), NEW im, NEW s, Mapped(depth, base, im, s),
         NEW first, NEW last, Ranged(im, s, first, last), SameLinks, UNCHANGED cr3
  PROVE  Visited(tables, cr3, first, last)' = Visited(tables, cr3, first, last)
<1>1. LEVELS \in Nat \ {0} /\ first \in Nat /\ last \in Int /\ TablesType /\ cr3 \in Numbers
  BY PagingAssumption DEF Ranged, BootLinks
<1>2. PICK ts : ts = tables'
  OBVIOUS
<1>3. /\ DOMAIN tables = Numbers /\ DOMAIN ts = Numbers
      /\ tables \in [DOMAIN tables -> [Indices -> EntryT]] /\ ts \in [DOMAIN ts -> [Indices -> EntryT]]
  <2>1. /\ tables \in [Numbers -> [Indices -> EntryT]] /\ Numbers' = Numbers
        /\ tables' \in [Numbers' -> [Indices -> EntryT]]
    BY <1>1 DEF SameLinks, TablesType
  <2> QED
    BY <1>2, <2>1
<1>4. PICK V : V = Visited(tables, cr3, first, last) /\ Opened(tables, cr3, first, last, V)
  <2>1. cr3 \in DOMAIN tables
    BY <1>1, <1>3
  <2> QED
    BY <1>1, <1>3, <2>1, VisitedOpens, Zenon
<1>5. PICK W : W = Visited(ts, cr3, first, last) /\ Opened(ts, cr3, first, last, W)
  <2>1. cr3 \in DOMAIN ts
    BY <1>1, <1>3
  <2> QED
    BY <1>1, <1>3, <2>1, VisitedOpens, Zenon
<1> DEFINE Good == {n \in Nat : n < LEVELS => W[LEVELS - n] = V[LEVELS - n]}
<1>6. 0 \in Good
  <2>1. LEVELS \in 1..LEVELS /\ LEVELS - 0 = LEVELS
    BY <1>1
  <2>2. W[LEVELS] = InTheRoot(cr3, first, last) /\ V[LEVELS] = InTheRoot(cr3, first, last)
    BY <1>4, <1>5, <2>1, OpenedAt
  <2> QED
    BY <2>1, <2>2
<1>7. ASSUME NEW n \in Good PROVE n + 1 \in Good
  <2>1. SUFFICES ASSUME n + 1 < LEVELS PROVE W[LEVELS - (n + 1)] = V[LEVELS - (n + 1)]
    OBVIOUS
  <2>2. PICK l \in Nat \ {0} : /\ l = LEVELS - (n + 1) /\ l + 1 = LEVELS - n /\ l \in 1..LEVELS
                               /\ l # LEVELS /\ n < LEVELS /\ l + 1 \in 1..LEVELS
    BY <1>1, <2>1
  <2>3. /\ V[l] = UNION {Below(tables, last, l, v) : v \in V[l + 1]}
        /\ W[l] = UNION {Below(ts, last, l, v) : v \in W[l + 1]}
    BY <1>4, <1>5, <2>2, OpenedAt
  <2>4. W[l + 1] = V[l + 1]
    BY <2>2
  <2>5. ASSUME NEW v \in V[l + 1] PROVE Below(ts, last, l, v) = Below(tables, last, l, v)
    <3>1. PICK m \in 1..LEVELS : m = l + 1
      BY <2>2
    <3>2. ComesBy(depth, base, first, last, m, v)
      BY <1>4, <2>5, <3>1, VisitedComes
    <3>3. v.table \in Numbers /\ v.addr \in Nat
      BY <3>2 DEF ComesBy
    <3> QED
      BY <1>1, <1>2, <3>3, BelowSame
  <2>6. W[l] = V[l]
    BY <2>3, <2>4, <2>5
  <2> QED
    BY <2>2, <2>6
<1>8. Good \subseteq Nat
  OBVIOUS
<1> HIDE DEF Good
<1>9. Good = Nat
  BY <1>6, <1>7, <1>8, NatSets
<1>10. W = V
  <2>1. ASSUME NEW level \in 1..LEVELS PROVE W[level] = V[level]
    <3>1. LEVELS - level \in Good /\ LEVELS - level < LEVELS /\ LEVELS - (LEVELS - level) = level
      BY <1>1, <1>9
    <3> QED
      BY <3>1 DEF Good
  <2>2. V = [level \in 1..LEVELS |-> V[level]]
    BY <1>4, Zenon DEF Opened
  <2>3. W = [level \in 1..LEVELS |-> W[level]]
    BY <1>5, Zenon DEF Opened
  <2> QED
    BY <2>1, <2>2, <2>3
<1>11. Visited(tables, cr3, first, last)' = Visited(ts, cr3, first, last)
  <2>1. cr3' = cr3
    OBVIOUS
  <2> QED
    BY <1>2, <2>1, Zenon
<1> QED
  BY <1>4, <1>5, <1>10, <1>11, Zenon

-----------------------------------------------------------------------------
(* Each table but the root is referred to.                                 *)
Parents(depth) ==
  \A t \in Numbers : t # 0 => \E u \in Numbers, i \in Indices :
    IsLink(tables[u][i], depth[u]) /\ tables[u][i].addr = t

Refers(u, page, level, t) ==
  LET e == tables[u][Index(page, level)] IN IsLink(e, level) /\ e.addr = t

LEMMA ParentFor ==
  ASSUME NEW depth, NEW base, BootLinks(depth, base), Parents(depth),
         NEW t \in Numbers, t # 0, NEW level \in Nat \ {0}, depth[t] = level,
         NEW q \in Nat, base[t] = Place(q, level + 1)
  PROVE  \E u \in Numbers :
           /\ depth[u] = level + 1 /\ base[u] = Place(q, (level + 1) + 1)
           /\ Refers(u, q, level + 1, t)
<1>1. PICK u \in Numbers, i \in Indices : IsLink(tables[u][i], depth[u]) /\ tables[u][i].addr = t
  BY DEF Parents
<1>2. PICK l \in Nat \ {0} : l = level + 1
  OBVIOUS
<1>3. depth[u] = l
  <2>1. depth[t] = depth[u] - 1 /\ depth[u] \in 1..LEVELS
    BY <1>1 DEF BootLinks
  <2>2. LEVELS \in Nat
    BY PagingAssumption
  <2> QED
    BY <1>2, <2>1, <2>2
<1>4. PICK x \in Nat : x = base[u]
  BY DEF BootLinks
<1>5. base[t] = x * FAN + i
  <2>1. InPlace(tables[u][i], depth[u], base, base[u] * FAN + i)
    BY DEF BootLinks
  <2>2. tables[u][i].present
    BY <1>1 DEF IsLink
  <2> QED
    BY <1>1, <1>4, <2>1, <2>2 DEF InPlace
<1>6. PICK y \in Nat, z \in Nat : y = Place(q, l) /\ z = Place(q, l + 1)
  BY <1>2, PlaceStep
<1>7. FAN \in Nat \ {0} /\ i \in 0..(FAN - 1)
  BY PagingAssumption DEF Indices
<1>8. y = x * FAN + i
  BY <1>2, <1>5, <1>6
<1>9. y \div FAN = x
  BY <1>7, <1>8, QuotientIs
<1>10. z = y \div FAN /\ y = z * FAN + Index(q, l)
  BY <1>6, PlaceStep
<1>11. z = x
  BY <1>9, <1>10
<1>12. Index(q, l) = i
  <2>1. PICK j \in Nat : j = Index(q, l)
    BY IndexInTable
  <2>2. PICK n \in Nat : n = x * FAN
    BY <1>7, Products
  <2>3. y = n + j /\ y = n + i
    BY <1>8, <1>10, <1>11, <2>1, <2>2
  <2> QED
    BY <1>7, <2>1, <2>2, <2>3
<1> QED
  BY <1>1, <1>2, <1>3, <1>4, <1>6, <1>11, <1>12, Zenon DEF Refers

(* An entry above those for pages is come by, if it is for a page on from  *)
(* the first, before the last.                                             *)
Came(V, level, t, i) == \E v \in V[level] : v.table = t /\ Index(v.addr, level) = i

LEMMA StepsTo ==
  ASSUME NEW level \in Nat \ {0}, NEW from \in Nat, NEW end \in Int, NEW a \in Nat,
         from <= a, a < end, a = from \/ Multiple(a, Span[level])
  PROVE  a \in Steps(from, Span[level], end)
<1>1. PICK n \in Nat \ {0} : n = Span[level]
  BY SpanType
<1>2. a = from \/ a % n = 0
  BY <1>1, MultipleIs
<1>3. a \in from..(end - 1)
  OBVIOUS
<1> QED
  BY <1>1, <1>2, <1>3 DEF Steps

Ahead(first, last, q) == first \in Nat /\ last \in Int /\ q \in Nat /\ first <= q /\ q < last
AtTop(first, q, level, t, v) == Refers(v.table, q, level, t) /\ v.addr = Top(first, q, level)
GoesOn(first, last, q, level, t, v) ==
  \E x \in Below(tables, last, level, v) : x.table = t /\ x.addr = Top(first, q, level)

LEMMA ChildCovers ==
  ASSUME NEW depth, NEW base, BootLinks(depth, base), NEW first, NEW last, NEW q,
         Ahead(first, last, q), NEW level \in Nat \ {0, 1}, NEW t \in Numbers,
         NEW v, AtTop(first, q, level + 1, t, v)
  PROVE  GoesOn(first, last, q, level, t, v)
<1>0. /\ first \in Nat /\ last \in Int /\ q \in Nat /\ first <= q /\ q < last
      /\ level \in Nat \ {0} /\ level > 1
  BY DEF Ahead
<1>14. Refers(v.table, q, level + 1, t) /\ v.addr = Top(first, q, level + 1)
  BY DEF AtTop
<1>1. PICK l \in Nat \ {0} : l = level + 1
  OBVIOUS
<1> DEFINE u == v.table
<1>2. PICK a \in Nat, c \in Nat : /\ a = Top(first, q, l) /\ c = Top(first, q, level)
                                  /\ Place(a, l) = Place(q, l) /\ first <= a
                                  /\ c <= q
  BY <1>0, <1>1, TopFacts
<1>3. Onward(a, c, level)
  BY <1>0, <1>1, <1>2, TopStep
<1>4. PICK e : e = tables[u][Index(q, l)]
  OBVIOUS
<1>5. ~e.ps /\ e.addr = t /\ e.addr \in DOMAIN tables
  <2>1. DOMAIN tables = Numbers
    BY DEF BootLinks, TablesType
  <2> QED
    BY <1>14, <1>1, <1>4, <2>1 DEF IsLink, Refers
<1>6. Index(a, l) = Index(q, l)
  BY <1>2 DEF Index, Place
<1>7. v.addr = a
  BY <1>14, <1>1, <1>2
<1>8. PICK d \in Nat : d = Span[l]
  BY SpanType
<1>9. PICK end \in Int : end = LoopEnd(level, v, last) /\ c < end
  <2>1. LoopEnd(level, v, last) = IF last < a + d THEN last ELSE a + d
    BY <1>0, <1>1, <1>7, <1>8 DEF LoopEnd, Lesser
  <2>2. c < last
    BY <1>0, <1>2
  <2>3. c < a + d
    BY <1>1, <1>3, <1>8 DEF Onward
  <2> QED
    BY <1>0, <2>1, <2>2, <2>3
<1>10. c \in Steps(a, Span[level], end)
  <2>1. a <= c /\ (c = a \/ Multiple(c, Span[level]))
    BY <1>3 DEF Onward
  <2> QED
    BY <1>0, <1>9, <2>1, StepsTo
<1>11. Below(tables, last, level, v) =
         {[table |-> e.addr, addr |-> x, up |-> a] :
            x \in IF e.ps \/ e.addr \notin DOMAIN tables THEN {} ELSE Steps(a, Span[level], end)}
  BY <1>1, <1>4, <1>6, <1>7, <1>9, Zenon DEF Below
<1> DEFINE y == [table |-> t, addr |-> c, up |-> a]
<1>12. y \in Below(tables, last, level, v)
  BY <1>5, <1>10, <1>11
<1> QED
  BY <1>2, <1>12 DEF GoesOn

LEMMA Covers ==
  ASSUME NEW depth, NEW base, BootLinks(depth, base), Parents(depth),
         NEW first \in Nat, NEW last \in Int, NEW V, Opened(tables, cr3, first, last, V),
         NEW q \in Nat, first <= q, q < last,
         NEW level \in 2..LEVELS, NEW t \in Numbers, depth[t] = level, base[t] = Place(q, level + 1)
  PROVE  Came(V, level, t, Index(q, level))
<1> DEFINE Good == {n \in Nat : n + 1 < LEVELS => \A u \in Numbers :
             depth[u] = LEVELS - n /\ base[u] = Place(q, (LEVELS - n) + 1) =>
               \E v \in V[LEVELS - n] : v.table = u /\ v.addr = Top(first, q, LEVELS - n)}
<1>1. LEVELS \in Nat \ {0} /\ cr3 = 0 /\ depth[0] = LEVELS
  BY PagingAssumption DEF BootLinks
<1>2. 0 \in Good
  <2>1. LEVELS - 0 = LEVELS /\ LEVELS \in 1..LEVELS
    BY <1>1
  <2>2. SUFFICES ASSUME NEW u \in Numbers, depth[u] = LEVELS
                 PROVE  \E v \in V[LEVELS] : v.table = u /\ v.addr = Top(first, q, LEVELS)
    BY <2>1
  <2>3. u = 0
    <3>1. SUFFICES ASSUME u # 0 PROVE FALSE
      OBVIOUS
    <3>2. PICK x \in Numbers, i \in Indices : IsLink(tables[x][i], depth[x]) /\ tables[x][i].addr = u
      BY <3>1 DEF Parents
    <3>3. depth[u] = depth[x] - 1 /\ depth[x] \in 1..LEVELS
      BY <3>2 DEF BootLinks
    <3> QED
      BY <1>1, <2>2, <3>3
  <2>4. PICK a \in Nat : /\ a = Top(first, q, LEVELS) /\ first <= a /\ a <= q
                         /\ a = first \/ Multiple(a, Span[LEVELS])
    BY <1>1, TopFacts
  <2>5. a \in Steps(first, Span[LEVELS], last)
    <3>1. a < last
      BY <2>4
    <3> QED
      BY <1>1, <2>4, <3>1, StepsTo
  <2>6. V[LEVELS] = InTheRoot(cr3, first, last)
    BY <2>1, OpenedAt
  <2>7. [table |-> cr3, addr |-> a, up |-> a] \in V[LEVELS]
    BY <2>5, <2>6 DEF InTheRoot
  <2> QED
    BY <1>1, <2>3, <2>4, <2>7
<1>3. ASSUME NEW n \in Good PROVE n + 1 \in Good
  <2>1. SUFFICES ASSUME (n + 1) + 1 < LEVELS, NEW u \in Numbers, depth[u] = LEVELS - (n + 1),
                        base[u] = Place(q, (LEVELS - (n + 1)) + 1)
                 PROVE  \E v \in V[LEVELS - (n + 1)] :
                          v.table = u /\ v.addr = Top(first, q, LEVELS - (n + 1))
    OBVIOUS
  <2>2. PICK l \in Nat \ {0} : /\ l = LEVELS - (n + 1) /\ l + 1 = LEVELS - n /\ l \in 1..LEVELS
                               /\ l # LEVELS /\ l > 1 /\ n + 1 < LEVELS
    BY <1>1, <2>1
  <2>3. u # 0
    BY <1>1, <2>1, <2>2
  <2>4. PICK w \in Numbers :
           /\ depth[w] = l + 1 /\ base[w] = Place(q, (l + 1) + 1)
           /\ Refers(w, q, l + 1, u)
    BY <2>1, <2>2, <2>3, ParentFor
  <2>5. PICK v \in V[l + 1] : v.table = w /\ v.addr = Top(first, q, l + 1)
    BY <2>2, <2>4
  <2>6. \E x \in Below(tables, last, l, v) : x.table = u /\ x.addr = Top(first, q, l)
    <3> HIDE DEF Good
    <3>1. AtTop(first, q, l + 1, u, v)
      BY <2>4, <2>5 DEF AtTop
    <3>2. Ahead(first, last, q)
      BY DEF Ahead
    <3>3. l \in Nat \ {0, 1}
      BY <2>2
    <3>4. GoesOn(first, last, q, l, u, v)
      BY <3>1, <3>2, <3>3, ChildCovers, Zenon
    <3> QED
      BY <3>4, Zenon DEF GoesOn
  <2>7. V[l] = UNION {Below(tables, last, l, x) : x \in V[l + 1]}
    BY <2>2, OpenedAt
  <2> QED
    BY <2>2, <2>5, <2>6, <2>7
<1>4. Good \subseteq Nat
  OBVIOUS
<1> HIDE DEF Good
<1>5. Good = Nat
  BY <1>2, <1>3, <1>4, NatSets
<1>6. LEVELS - level \in Good /\ (LEVELS - level) + 1 < LEVELS /\ LEVELS - (LEVELS - level) = level
  BY <1>1, <1>5
<1>7. PICK v \in V[level] : v.table = t /\ v.addr = Top(first, q, level)
  BY <1>6 DEF Good
<1>8. Place(v.addr, level) = Place(q, level)
  <2>1. level \in Nat \ {0}
    BY <1>1
  <2> QED
    BY <1>7, <2>1, TopFacts
<1>9. Index(v.addr, level) = Index(q, level)
  BY <1>8 DEF Index, Place
<1> QED
  BY <1>7, <1>9 DEF Came


-----------------------------------------------------------------------------
(* The loading of the kernel. The pages of a segment are mapped with what  *)
(* it needs, except that some may not yet be executed: those for which     *)
(* vprotect has still to come by, and those of the segment in hand while   *)
(* it is copied.                                                           *)
VisitOf(s) == Visited(tables, cr3, FirstPage(image, s), LastPage(image, s))

Done(n) == n < segment \/ lpc \in {"relr", "kmain"}

Covered(s, p, level) ==
  level > 1 /\ \E q \in FirstPage(image, s)..(LastPage(image, s) - 1) : Place(q, level) = Place(p, level)

Excused(n, t, p, level) ==
  \/ ~Done(n) /\ Covered(image.segments[n], p, level)
  \/ /\ lpc \in {"copy", "flags"} /\ "exec" \in Phdr.flags
     /\ level = 1 /\ Came(VisitOf(Phdr), 1, t, Index(p, 1))

Granted(depth, base, n) ==
  \A t \in Numbers : \A p \in SegmentPages(image, image.segments[n]) :
    IsFor(depth, base, t, p) =>
      LET e == PageOf(t, depth, p) IN
      /\ e.present
      /\ "write" \in image.segments[n].flags => e.write
      /\ "exec" \in image.segments[n].flags /\ e.nx => Excused(n, t, p, depth[t])

Loading(depth, base) ==
  /\ Holds(NewTable, depth) /\ BootDirect(NewTable, depth, base) /\ Parents(depth)
  /\ \A n \in DOMAIN image.segments :
       Mapped(depth, base, image, image.segments[n]) /\ Granted(depth, base, n)

InHand ==
  /\ image \in Images /\ segment \in DOMAIN image.segments
  /\ lpc \in {"check", "rw", "copy", "flags", "relr", "kmain", "hcf"}

LEMMA LoadingLinks ==
  ASSUME TablesType, stage = "boot", NEW depth, NEW base, Loading(depth, base)
  PROVE  BootLinks(depth, base)
<1>1. /\ NewTable \in Nat /\ cr3 = 0 /\ 0 < NewTable /\ depth[0] = LEVELS
      /\ depth \in [Numbers -> 1..LEVELS] /\ BootTree(NewTable, depth)
  BY DEF Loading, Holds, AtStage, Tree, TablesType
<1>2. 0 \in Numbers /\ Numbers = 0..(NewTable - 1)
  BY <1>1 DEF Numbers
<1>3. /\ base \in [Numbers -> Nat] /\ base[0] = 0
      /\ \A t \in Numbers, i \in Indices :
           InPlace(tables[t][i], depth[t], base, base[t] * FAN + i)
  BY <1>2 DEF Loading, BootDirect
<1>4. \A t \in Numbers, i \in Indices : IsLink(tables[t][i], depth[t]) =>
        tables[t][i].addr \in Numbers /\ depth[tables[t][i].addr] = depth[t] - 1
  BY <1>1, <1>2 DEF BootTree
<1> QED
  BY <1>1, <1>2, <1>3, <1>4 DEF BootLinks

-----------------------------------------------------------------------------
(* The pages of a segment.                                                 *)
LEMMA SegmentFacts ==
  ASSUME NEW im \in Images, NEW n \in DOMAIN im.segments
  PROVE  LET s == im.segments[n] IN
         /\ s \in PhdrT /\ s.filesz <= s.memsz /\ SegmentPages(im, s) \subseteq Pages
         /\ im.root \in Nat /\ WORDS \in Nat \ {0}
<1>1. im.segments \in Seq(PhdrT) /\ im.root \in Nat /\ WORDS \in Nat \ {0}
  BY ImageAssumption
<1>2. im.segments[n] \in PhdrT
  BY <1>1
<1>3. im.segments[n].filesz <= im.segments[n].memsz /\ SegmentPages(im, im.segments[n]) \subseteq Pages
  BY ImageAssumption
<1> QED
  BY <1>1, <1>2, <1>3

LEMMA SegmentRanged ==
  ASSUME NEW im \in Images, NEW n \in DOMAIN im.segments,
         NEW s, s = im.segments[n], NEW first, first = FirstPage(im, s), NEW last, last = LastPage(im, s)
  PROVE  Ranged(im, s, first, last)
<1>1. /\ s \in PhdrT /\ SegmentPages(im, s) \subseteq Pages /\ im.root \in Nat /\ WORDS \in Nat \ {0}
  BY SegmentFacts
<1>2. PICK root \in Nat, W \in Nat \ {0}, a \in Nat, m \in Nat :
        root = im.root /\ W = WORDS /\ a = s.paddr /\ m = s.memsz
  BY <1>1 DEF PhdrT
<1>3. PICK x \in Nat, r \in 0..(W - 1) : x = a \div W /\ r = a % W /\ a = x * W + r
  BY Digits, Zenon
<1>4. PICK b \in Nat : b = (a + m) + W - 1
  BY <1>2
<1>5. PICK y \in Nat, e \in 0..(W - 1) : y = b \div W /\ e = b % W /\ b = y * W + e
  BY Digits, Zenon
<1>6. first = root + x /\ last = root + y - 1
  BY <1>2, <1>3, <1>4, <1>5 DEF FirstPage, LastPage, SegmentEnd
<1>7. CASE m = 0
  <2>1. y <= x + 1
    <3>1. SUFFICES ASSUME x + 2 <= y PROVE FALSE
      BY <1>3, <1>5
    <3>2. (x + 2) * W <= y * W
      BY <3>1, Products
    <3>3. (x + 2) * W = x * W + 2 * W
      OBVIOUS
    <3>4. PICK c \in Nat, d \in Nat : c = x * W /\ d = y * W
      BY Products
    <3> QED
      BY <1>3, <1>4, <1>5, <1>7, <3>2, <3>3, <3>4
  <2>2. ~(first < last)
    BY <1>6, <2>1
  <2> QED
    BY <1>6, <2>2 DEF Ranged
<1>8. CASE m # 0
  <2>1. PICK w \in Nat : w = a + m - 1 /\ w \in a..(a + m - 1)
    BY <1>8
  <2>2. root + (w \div W) \in SegmentPages(im, s)
    BY <1>2, <2>1 DEF SegmentPages, SegmentEnd
  <2>3. w \div W = y - 1
    <3>1. PICK c \in Nat : c = y * W
      BY Products
    <3>2. y # 0
      <4>1. y = 0 => c = 0
        BY <3>1
      <4> QED
        BY <1>4, <1>5, <1>8, <3>1, <4>1
    <3>3. PICK z \in Nat : z = y - 1
      BY <3>2
    <3>4. (z + 1) * W = z * W + W
      OBVIOUS
    <3>5. z + 1 = y
      BY <3>3
    <3>6. PICK d \in Nat : d = z * W
      BY Products
    <3>7. w = d + e
      BY <1>4, <1>5, <2>1, <3>1, <3>4, <3>5, <3>6
    <3>8. w \div W = z
      BY <3>6, <3>7, QuotientIs
    <3> QED
      BY <3>3, <3>8
  <2>4. last \in SegmentPages(im, s)
    BY <1>6, <2>2, <2>3
  <2> QED
    BY <1>1, <1>6, <2>4 DEF Ranged
<1> QED
  BY <1>7, <1>8

LEMMA HandRange ==
  ASSUME InHand
  PROVE  /\ page_begin = FirstPage(image, Phdr)
         /\ page_begin + total_len - 1 = LastPage(image, Phdr)
<1>1. Phdr \in PhdrT /\ image.root \in Nat /\ WORDS \in Nat \ {0}
  BY SegmentFacts DEF InHand, Phdr
<1>2. PICK root \in Nat, W \in Nat \ {0}, a \in Nat, m \in Nat :
        root = image.root /\ W = WORDS /\ a = Phdr.paddr /\ m = Phdr.memsz
  BY <1>1 DEF PhdrT
<1>3. PICK x \in Nat : x = a \div W
  BY Digits, Zenon
<1>4. PICK b \in Nat : b = (a + m) + W - 1
  BY <1>2
<1>5. PICK y \in Nat : y = b \div W
  BY Digits, Zenon
<1>6. page_begin = root + x /\ total_len = y - x
  BY <1>2, <1>3, <1>4, <1>5 DEF page_begin, base_rpa, total_len, SegmentEnd
<1>7. FirstPage(image, Phdr) = root + x /\ LastPage(image, Phdr) = root + y - 1
  BY <1>2, <1>3, <1>4, <1>5 DEF FirstPage, LastPage, SegmentEnd
<1> QED
  BY <1>6, <1>7

-----------------------------------------------------------------------------
(* What vprotect makes of an entry.                                        *)
SetNx(V, t, i, flags, old) ==
  IF \E level \in 2..LEVELS : Came(V, level, t, i) THEN FALSE
  ELSE IF Came(V, 1, t, i) THEN "exec" \notin flags ELSE old

Resets(V, flags) ==
  \A t \in Numbers, i \in Indices :
    /\ tables'[t][i].write = tables[t][i].write
    /\ tables'[t][i].nx = SetNx(V, t, i, flags, tables[t][i].nx)

LEMMA VprotectSets ==
  ASSUME TablesType, NEW base, NEW count, NEW flags, tables' = Vprotect(base, count, flags),
         NEW V, V = Visited(tables, cr3, base, base + count - 1)
  PROVE  Resets(V, flags)
<1> SUFFICES ASSUME NEW t \in Numbers, NEW i \in Indices
             PROVE  /\ tables'[t][i].write = tables[t][i].write
                    /\ tables'[t][i].nx = SetNx(V, t, i, flags, tables[t][i].nx)
  BY DEF Resets
<1> DEFINE e == tables[t][i]
           b == SetNx(V, t, i, flags, e.nx)
           New == IF \E level \in 2..LEVELS : Came(V, level, t, i) THEN [e EXCEPT !.nx = FALSE]
                  ELSE IF Came(V, 1, t, i) THEN [e EXCEPT !.nx = "exec" \notin flags] ELSE e
<1>1. e \in EntryT /\ DOMAIN tables = Numbers
  BY DEF TablesType
<1>2. tables'[t][i] = New
  <2>1. tables' = [u \in DOMAIN tables |-> [j \in 0..(FAN - 1) |->
          IF \E level \in 2..LEVELS : Came(V, level, u, j) THEN [tables[u][j] EXCEPT !.nx = FALSE]
          ELSE IF Came(V, 1, u, j) THEN [tables[u][j] EXCEPT !.nx = "exec" \notin flags]
          ELSE tables[u][j]]]
    BY Zenon DEF Vprotect, Came
  <2>2. t \in DOMAIN tables /\ i \in 0..(FAN - 1)
    BY <1>1 DEF Indices
  <2> QED
    BY <2>1, <2>2, Zenon
<1>3. New.write = e.write /\ New.nx = b
  <2> HIDE DEF e
  <2>1. [e EXCEPT !.nx = FALSE].write = e.write /\ [e EXCEPT !.nx = FALSE].nx = FALSE
    BY <1>1 DEF EntryT
  <2>2. /\ [e EXCEPT !.nx = "exec" \notin flags].write = e.write
        /\ [e EXCEPT !.nx = "exec" \notin flags].nx = ("exec" \notin flags)
    BY <1>1 DEF EntryT
  <2> QED
    BY <2>1, <2>2, Zenon DEF SetNx
<1> QED
  BY <1>2, <1>3, Zenon

(* The page, if the table is for pages alone. *)
LEMMA SpanOne == Span[1] = 1
<1>1. Span[1] = IF 1 <= 1 THEN 1 ELSE FAN * Span[1 - 1]
  BY SpanIs, Zenon
<1> QED
  BY <1>1

LEMMA PlaceOne ==
  ASSUME NEW p \in Nat
  PROVE  Place(p, 1) = p
<1>1. p \div 1 = p
  OBVIOUS
<1> QED
  BY <1>1, SpanOne DEF Place

-----------------------------------------------------------------------------
(* The segment in hand, and what vprotect comes by for it.                 *)
Loads(depth, base, V) ==
  /\ TablesType /\ stage = "boot" /\ InHand /\ Loading(depth, base)
  /\ V = VisitOf(Phdr)

ForPage(depth, base, n, t, p) ==
  /\ n \in DOMAIN image.segments /\ t \in Numbers
  /\ p \in SegmentPages(image, image.segments[n]) /\ IsFor(depth, base, t, p)

LEMMA LoadsFacts ==
  ASSUME NEW depth, NEW base, NEW V, Loads(depth, base, V)
  PROVE  /\ BootLinks(depth, base) /\ Parents(depth) /\ Mapped(depth, base, image, Phdr)
         /\ \E first, last : /\ Ranged(image, Phdr, first, last)
                             /\ V = Visited(tables, cr3, first, last)
                             /\ Opened(tables, cr3, first, last, V)
<1>1. BootLinks(depth, base) /\ Parents(depth) /\ Mapped(depth, base, image, Phdr)
  BY LoadingLinks DEF Loads, Loading, InHand, Phdr
<1>2. PICK first, last : first = FirstPage(image, Phdr) /\ last = LastPage(image, Phdr)
  OBVIOUS
<1>3. Ranged(image, Phdr, first, last)
  <2>1. image \in Images /\ segment \in DOMAIN image.segments /\ Phdr = image.segments[segment]
    BY DEF Loads, InHand, Phdr
  <2> QED
    BY <1>2, <2>1, SegmentRanged, Zenon
<1>4. V = Visited(tables, cr3, first, last)
  BY <1>2 DEF Loads, VisitOf
<1>5. Opened(tables, cr3, first, last, Visited(tables, cr3, first, last))
  <2>1. tables \in [DOMAIN tables -> [Indices -> EntryT]] /\ cr3 \in DOMAIN tables
    BY <1>1 DEF BootLinks, TablesType
  <2>2. first \in Nat /\ last \in Int
    BY <1>3 DEF Ranged
  <2> QED
    BY <2>1, <2>2, VisitedOpens
<1> QED
  BY <1>1, <1>3, <1>4, <1>5, Zenon

LEMMA PageFacts ==
  ASSUME NEW depth, NEW base, NEW V, Loads(depth, base, V), NEW n, NEW t, NEW p,
         ForPage(depth, base, n, t, p)
  PROVE  /\ t \in Numbers /\ p \in Nat /\ depth[t] \in 1..LEVELS /\ depth[t] \in Nat \ {0}
         /\ base[t] = Place(p, depth[t] + 1)
<1>1. image \in Images /\ n \in DOMAIN image.segments
  BY DEF Loads, InHand, ForPage
<1>2. p \in Nat
  <2>1. p \in Pages
    BY <1>1, SegmentFacts DEF ForPage
  <2> QED
    BY <2>1, PlaceInRoot
<1>3. depth[t] \in 1..LEVELS /\ LEVELS \in Nat
  BY LoadsFacts, PagingAssumption DEF BootLinks, ForPage
<1> QED
  BY <1>2, <1>3 DEF ForPage, IsFor, Place

LEMMA CameDepth ==
  ASSUME NEW depth, NEW base, NEW V, Loads(depth, base, V),
         NEW level \in 1..LEVELS, NEW t, NEW i, Came(V, level, t, i)
  PROVE  depth[t] = level
<1>1. PICK first, last : /\ Ranged(image, Phdr, first, last)
                         /\ Opened(tables, cr3, first, last, V)
  BY LoadsFacts
<1>2. PICK v \in V[level] : v.table = t
  BY DEF Came
<1>3. BootLinks(depth, base) /\ Mapped(depth, base, image, Phdr)
  BY LoadsFacts
<1>4. ComesBy(depth, base, first, last, level, v)
  BY <1>1, <1>2, <1>3, VisitedComes
<1> QED
  BY <1>2, <1>4 DEF ComesBy

(* It comes by a page of code only if it is for code.                      *)
LEMMA CameSafe ==
  ASSUME NEW depth, NEW base, NEW V, Loads(depth, base, V), NEW n, NEW t, NEW p,
         ForPage(depth, base, n, t, p), depth[t] = 1, "exec" \in image.segments[n].flags,
         Came(V, 1, t, Index(p, 1))
  PROVE  "exec" \in Phdr.flags
<1>1. PICK first, last : /\ Ranged(image, Phdr, first, last)
                         /\ Opened(tables, cr3, first, last, V)
  BY LoadsFacts
<1>2. PICK one \in 1..LEVELS : one = 1 /\ one \in Nat \ {0}
  BY PagingAssumption
<1>3. PICK v \in V[one] : v.table = t /\ Index(v.addr, one) = Index(p, one)
  BY <1>2 DEF Came
<1>4. BootLinks(depth, base) /\ Mapped(depth, base, image, Phdr)
  BY LoadsFacts
<1>5. ComesBy(depth, base, first, last, one, v)
  BY <1>1, <1>3, <1>4, VisitedComes
<1>6. PICK q \in Nat : /\ IsAt(first, one, v.addr, q) /\ Index(q, one) = Index(v.addr, one)
                       /\ base[t] = Place(q, one + 1)
  BY <1>3, <1>5 DEF ComesBy
<1>7. p \in Nat /\ base[t] = Place(p, one + 1)
  BY <1>2, PageFacts
<1>8. q = p
  <2>1. Place(q, one) = Place(q, one + 1) * FAN + Index(q, one)
    BY <1>2, PlaceStep
  <2>2. Place(p, one) = Place(p, one + 1) * FAN + Index(p, one)
    BY <1>2, <1>7, PlaceStep
  <2>3. Place(q, one) = Place(p, one)
    BY <1>3, <1>6, <1>7, <2>1, <2>2, Zenon
  <2>4. Place(q, 1) = q /\ Place(p, 1) = p
    BY <1>7, PlaceOne
  <2> QED
    BY <1>2, <2>3, <2>4
<1>9. p \in MayVisit(image, Phdr)
  <2>1. v.addr \in Nat /\ first <= v.addr /\ v.addr < last
    BY <1>5 DEF ComesBy
  <2>2. q \in MayVisit(image, Phdr)
    BY <1>1, <1>2, <1>6, <2>1, AtIsVisited
  <2> QED
    BY <1>8, <2>2
<1>10. /\ image \in Images /\ n \in DOMAIN image.segments /\ segment \in DOMAIN image.segments
       /\ Phdr = image.segments[segment] /\ p \in SegmentPages(image, image.segments[n])
  BY DEF Loads, InHand, Phdr, ForPage
<1>11. CASE n = segment
  BY <1>10, <1>11
<1>12. CASE n # segment
  <2>1. "exec" \notin Phdr.flags =>
          SegmentPages(image, image.segments[n]) \intersect MayVisit(image, Phdr) = {}
    BY <1>10, <1>12, ImageAssumption, Zenon
  <2> QED
    BY <1>9, <1>10, <2>1
<1> QED
  BY <1>11, <1>12

(* Every entry above a page that is covered is come by.                    *)
LEMMA CoveredCame ==
  ASSUME NEW depth, NEW base, NEW V, Loads(depth, base, V), NEW n, NEW t, NEW p,
         ForPage(depth, base, n, t, p), Covered(Phdr, p, depth[t])
  PROVE  Came(V, depth[t], t, Index(p, depth[t]))
<1>1. PICK first, last : /\ Ranged(image, Phdr, first, last)
                         /\ Opened(tables, cr3, first, last, V)
  BY LoadsFacts
<1>2. first \in Nat /\ last \in Int /\ first = FirstPage(image, Phdr) /\ last = LastPage(image, Phdr)
  BY <1>1 DEF Ranged
<1>3. PICK level \in 2..LEVELS : level = depth[t] /\ level \in Nat \ {0}
  <2>1. depth[t] \in 1..LEVELS /\ depth[t] > 1 /\ LEVELS \in Nat
    BY PageFacts, PagingAssumption DEF Covered
  <2>2. depth[t] \in 2..LEVELS /\ depth[t] \in Nat \ {0}
    BY <2>1
  <2> QED
    BY <2>2
<1>4. PICK q \in Nat : first <= q /\ q < last /\ Place(q, level) = Place(p, level)
  <2>1. PICK q \in first..(last - 1) : Place(q, level) = Place(p, level)
    BY <1>2, <1>3 DEF Covered
  <2>2. q \in Nat /\ first <= q /\ q < last
    BY <1>2, <2>1
  <2> QED
    BY <2>1, <2>2
<1>5. p \in Nat /\ base[t] = Place(p, level + 1) /\ t \in Numbers
  BY <1>3, PageFacts
<1>6. level + 1 \in Nat /\ level <= level + 1 /\ level \in Nat /\ level <= level
  BY <1>3
<1>7. Place(q, level + 1) = Place(p, level + 1) /\ Index(q, level) = Index(p, level)
  BY <1>3, <1>4, <1>5, <1>6, SamePlace
<1>8. BootLinks(depth, base) /\ Parents(depth)
  BY LoadsFacts
<1>9. Came(V, level, t, Index(q, level))
  <2>1. base[t] = Place(q, level + 1) /\ depth[t] = level
    BY <1>3, <1>5, <1>7
  <2> QED
    BY <1>1, <1>2, <1>4, <1>5, <1>8, <2>1, Covers
<1> QED
  BY <1>3, <1>7, <1>9

-----------------------------------------------------------------------------
(* An entry for a page of code that forbids execution after vprotect did   *)
(* before, and was not come by; or is one for the segment in hand.         *)
LEMMA AfterVprotect ==
  ASSUME NEW depth, NEW base, NEW V, Loads(depth, base, V), NEW flags,
         tables' = Vprotect(page_begin, total_len, flags), NEW n, NEW t, NEW p,
         ForPage(depth, base, n, t, p), "exec" \in image.segments[n].flags,
         NEW level, level = depth[t], NEW i, i = Index(p, level), tables'[t][i].nx
  PROVE  \/ tables[t][i].nx /\ ~Came(V, level, t, i)
         \/ level = 1 /\ Came(V, 1, t, i) /\ "exec" \notin flags /\ "exec" \in Phdr.flags
<1>1. t \in Numbers /\ p \in Nat /\ level \in 1..LEVELS /\ level \in Nat /\ LEVELS \in Nat
  BY PageFacts, PagingAssumption
<1>2. i \in Indices
  BY <1>1, IndexInTable DEF Indices
<1>3. TablesType /\ V = Visited(tables, cr3, page_begin, page_begin + total_len - 1)
  BY HandRange DEF Loads, VisitOf
<1>4. tables'[t][i].nx = SetNx(V, t, i, flags, tables[t][i].nx)
  <2>1. PICK b, c : b = page_begin /\ c = total_len
    OBVIOUS
  <2>2. tables' = Vprotect(b, c, flags) /\ V = Visited(tables, cr3, b, b + c - 1)
    BY <1>3, <2>1, Zenon
  <2>3. Resets(V, flags)
    BY <1>3, <2>2, VprotectSets, Zenon
  <2> QED
    BY <1>1, <1>2, <2>3 DEF Resets
<1>5. ASSUME NEW m \in 2..LEVELS, Came(V, m, t, i) PROVE m = level
  <2>1. m \in 1..LEVELS
    BY <1>1
  <2> QED
    BY <1>5, <2>1, CameDepth
<1>6. ~(\E m \in 2..LEVELS : Came(V, m, t, i))
  BY <1>4 DEF SetNx
<1>7. CASE level = 1
  <2>1. CASE Came(V, 1, t, i)
    <3>1. "exec" \notin flags
      BY <1>4, <1>6, <2>1 DEF SetNx
    <3>2. "exec" \in Phdr.flags
      BY <1>7, <2>1, CameSafe
    <3> QED
      BY <1>7, <2>1, <3>1, <3>2
  <2>2. CASE ~Came(V, 1, t, i)
    BY <1>4, <1>6, <1>7, <2>2 DEF SetNx
  <2> QED
    BY <2>1, <2>2
<1>8. CASE level # 1
  <2>1. level \in 2..LEVELS
    BY <1>1, <1>8
  <2>2. ~Came(V, level, t, i)
    BY <1>6, <2>1
  <2>3. ~Came(V, 1, t, i)
    <3>1. PICK one \in 1..LEVELS : one = 1
      BY <1>1
    <3>2. Came(V, one, t, i) => one = level
      BY CameDepth
    <3> QED
      BY <1>8, <3>1, <3>2
  <2> QED
    BY <1>4, <1>6, <2>2, <2>3 DEF SetNx
<1> QED
  BY <1>7, <1>8

(* What vprotect leaves as it is.                                          *)
LEMMA LoadingLinked ==
  ASSUME TablesType, stage = "boot", NEW depth, NEW base, Loading(depth, base),
         SameLinks, UNCHANGED <<table_vars, image>>
  PROVE  /\ TablesType' /\ Holds(NewTable, depth)' /\ BootDirect(NewTable, depth, base)'
         /\ Parents(depth)' /\ stage' = "boot"
         /\ \A n \in DOMAIN image.segments : Mapped(depth, base, image, image.segments[n])'
<1>1. PICK root : root = NewTable
  OBVIOUS
<1>2. Holds(root, depth) /\ BootDirect(root, depth, base)
  BY <1>1 DEF Loading
<1>3. root \in Nat /\ NewTable' = root /\ Numbers' = Numbers /\ Numbers = 0..(root - 1)
  BY <1>1 DEF SameLinks, TablesType, Numbers
<1>4. TablesType' /\ Holds(root, depth)'
  BY <1>2, LoadingHolds
<1>5. \A t \in Numbers, i \in Indices :
        /\ tables'[t][i].present = tables[t][i].present /\ tables'[t][i].ps = tables[t][i].ps
        /\ tables'[t][i].addr = tables[t][i].addr
  BY DEF SameLinks
<1>6. BootDirect(root, depth, base)'
  BY <1>2, <1>3, <1>5, BootDirectKept
<1>7. Holds(NewTable, depth)' /\ BootDirect(NewTable, depth, base)'
  BY <1>3, <1>4, <1>6
<1>8. Parents(depth)'
  <2>1. SUFFICES ASSUME NEW t \in Numbers, t # 0
                 PROVE  \E u \in Numbers, i \in Indices :
                          IsLink(tables'[u][i], depth[u]) /\ tables'[u][i].addr = t
    BY <1>3 DEF Parents, Indices
  <2>2. PICK u \in Numbers, i \in Indices : IsLink(tables[u][i], depth[u]) /\ tables[u][i].addr = t
    BY <2>1 DEF Loading, Parents
  <2>3. IsLink(tables'[u][i], depth[u]) /\ tables'[u][i].addr = t
    BY <1>5, <2>2 DEF IsLink
  <2> QED
    BY <2>3
<1>9. ASSUME NEW n \in DOMAIN image.segments PROVE Mapped(depth, base, image, image.segments[n])'
  <2>1. SUFFICES ASSUME NEW t \in Numbers, NEW p \in MayVisit(image, image.segments[n]),
                        IsFor(depth, base, t, p)
                 PROVE  tables'[t][Index(p, depth[t])].present
    BY <1>3 DEF Mapped, PageOf
  <2>2. tables[t][Index(p, depth[t])].present
    BY <2>1 DEF Loading, Mapped, PageOf
  <2>3. Index(p, depth[t]) \in Indices
    <3>1. p \in Nat
      <4>1. p \in Pages
        BY DEF MayVisit
      <4> QED
        BY <4>1, PlaceInRoot
    <3>2. depth[t] \in 1..LEVELS /\ LEVELS \in Nat
      BY PagingAssumption DEF Loading, Holds, Tree
    <3>3. depth[t] \in Nat
      BY <3>2
    <3> QED
      BY <3>1, <3>3, IndexInTable DEF Indices
  <2> QED
    BY <1>5, <2>2, <2>3
<1>10. stage' = "boot"
  BY DEF table_vars
<1> QED
  BY <1>4, <1>7, <1>8, <1>9, <1>10

LEMMA VisitSame ==
  ASSUME NEW depth, NEW base, NEW V, Loads(depth, base, V), SameLinks,
         UNCHANGED <<cr3, image, segment>>
  PROVE  VisitOf(Phdr)' = V
<1>1. PICK first, last : /\ Ranged(image, Phdr, first, last)
                         /\ V = Visited(tables, cr3, first, last)
  BY LoadsFacts
<1>2. BootLinks(depth, base) /\ Mapped(depth, base, image, Phdr)
  BY LoadsFacts
<1>3. Visited(tables, cr3, first, last)' = V
  BY <1>1, <1>2, VisitedSame
<1>4. Phdr' = Phdr /\ image' = image
  BY DEF Phdr
<1>5. FirstPage(image, Phdr)' = first /\ LastPage(image, Phdr)' = last
  BY <1>1, <1>4 DEF Ranged
<1> QED
  BY <1>3, <1>5 DEF VisitOf

LEMMA StillGranted ==
  ASSUME NEW depth, NEW base, NEW V, Loads(depth, base, V), NEW flags,
         tables' = Vprotect(page_begin, total_len, flags), NEW n, NEW t, NEW p,
         ForPage(depth, base, n, t, p), NEW i, i = Index(p, depth[t])
  PROVE  /\ tables'[t][i].present
         /\ "write" \in image.segments[n].flags => tables'[t][i].write
         /\ "exec" \in image.segments[n].flags /\ tables[t][i].nx => Excused(n, t, p, depth[t])
<1>1. t \in Numbers /\ p \in Nat /\ depth[t] \in Nat /\ TablesType
  BY PageFacts DEF Loads
<1>2. i \in Indices
  BY <1>1, IndexInTable DEF Indices
<1>3. PICK b, c : b = page_begin /\ c = total_len
  OBVIOUS
<1>4. tables' = Vprotect(b, c, flags)
  BY <1>3
<1>5. SameLinks
  BY <1>1, <1>4, VprotectKeeps
<1>6. PICK W : W = Visited(tables, cr3, b, b + c - 1)
  OBVIOUS
<1>7. /\ tables'[t][i].write = tables[t][i].write
      /\ tables'[t][i].nx = SetNx(W, t, i, flags, tables[t][i].nx)
  <2>1. Resets(W, flags)
    BY <1>1, <1>4, <1>6, VprotectSets, Zenon
  <2> QED
    BY <1>1, <1>2, <2>1 DEF Resets
<1>8. tables'[t][i].present = tables[t][i].present
  BY <1>1, <1>2, <1>5 DEF SameLinks
<1>9. Granted(depth, base, n)
  BY DEF Loads, Loading, ForPage
<1>10. /\ tables[t][i].present /\ ("write" \in image.segments[n].flags => tables[t][i].write)
       /\ "exec" \in image.segments[n].flags /\ tables[t][i].nx => Excused(n, t, p, depth[t])
  BY <1>9, Zenon DEF Granted, ForPage, PageOf
<1> QED
  BY <1>7, <1>8, <1>10

LEMMA MakeWritableLoads ==
  ASSUME NEW depth, NEW base, NEW V, Loads(depth, base, V), MakeWritable,
         NEW n, NEW t, NEW p, ForPage(depth, base, n, t, p), "exec" \in image.segments[n].flags,
         PageOf(t, depth, p)'.nx
  PROVE  Excused(n, t, p, depth[t])'
<1>1. PICK level, i : level = depth[t] /\ i = Index(p, level)
  OBVIOUS
<1>2. PICK flags : flags = {"write"}
  OBVIOUS
<1>3. /\ lpc = "rw" /\ tables' = Vprotect(page_begin, total_len, flags) /\ lpc' = "copy"
      /\ UNCHANGED table_vars /\ image' = image /\ segment' = segment
  BY <1>2 DEF MakeWritable
<1>4. tables'[t][i].nx
  BY <1>1 DEF PageOf
<1>5. \/ tables[t][i].nx /\ ~Came(V, level, t, i)
      \/ level = 1 /\ Came(V, 1, t, i) /\ "exec" \notin flags /\ "exec" \in Phdr.flags
  BY <1>1, <1>3, <1>4, AfterVprotect
<1>6. Phdr' = Phdr
  BY <1>3 DEF Phdr
<1>7. CASE tables[t][i].nx
  <2>1. Excused(n, t, p, level)
    BY <1>1, <1>3, <1>7, StillGranted
  <2>2. ~Done(n) /\ Covered(image.segments[n], p, level)
    BY <1>3, <2>1 DEF Excused
  <2>3. ~Done(n)'
    BY <1>3, <2>2 DEF Done
  <2>4. Covered(image.segments[n], p, level)'
    BY <1>3, <2>2 DEF Covered
  <2> QED
    BY <1>1, <2>3, <2>4 DEF Excused
<1>8. CASE level = 1 /\ Came(V, 1, t, i) /\ "exec" \in Phdr.flags
  <2>1. SameLinks
    <3>1. PICK b, c : b = page_begin /\ c = total_len
      OBVIOUS
    <3> QED
      BY <1>3, <3>1, VprotectKeeps DEF Loads
  <2>2. VisitOf(Phdr)' = V
    <3>1. UNCHANGED <<cr3, image, segment>>
      BY <1>3 DEF table_vars
    <3> QED
      BY <2>1, <3>1, VisitSame
  <2>3. Came(VisitOf(Phdr), 1, t, Index(p, 1))'
    BY <1>1, <1>8, <2>2
  <2> QED
    BY <1>1, <1>3, <1>6, <1>8, <2>3 DEF Excused
<1> QED
  BY <1>5, <1>7, <1>8

LEMMA SetFlagsLoads ==
  ASSUME NEW depth, NEW base, NEW V, Loads(depth, base, V), SetSegmentFlags,
         NEW n, NEW t, NEW p, ForPage(depth, base, n, t, p), "exec" \in image.segments[n].flags,
         PageOf(t, depth, p)'.nx
  PROVE  Excused(n, t, p, depth[t])'
<1>1. PICK level, i : level = depth[t] /\ i = Index(p, level)
  OBVIOUS
<1>2. PICK flags : flags = Phdr.flags
  OBVIOUS
<1>3. /\ lpc = "flags" /\ tables' = Vprotect(page_begin, total_len, flags)
      /\ UNCHANGED table_vars /\ image' = image
      /\ IF segment < Len(image.segments)
         THEN segment' = segment + 1 /\ lpc' = "rw"
         ELSE lpc' = "relr" /\ UNCHANGED segment
  BY <1>2 DEF SetSegmentFlags
<1>4. tables'[t][i].nx
  BY <1>1 DEF PageOf
<1>5. tables[t][i].nx /\ ~Came(V, level, t, i)
  BY <1>1, <1>2, <1>3, <1>4, AfterVprotect
<1>6. Excused(n, t, p, level)
  BY <1>1, <1>3, <1>5, StillGranted
<1>7. ~Done(n) /\ Covered(image.segments[n], p, level)
  <2>1. CASE level = 1 /\ Came(VisitOf(Phdr), 1, t, Index(p, 1))
    BY <1>1, <1>5, <2>1 DEF Loads
  <2> QED
    BY <1>6, <2>1 DEF Excused
<1>8. n # segment
  <2>1. SUFFICES ASSUME n = segment PROVE FALSE
    OBVIOUS
  <2>2. Covered(Phdr, p, depth[t])
    BY <1>1, <1>7, <2>1 DEF Phdr
  <2> QED
    BY <1>1, <1>5, <2>2, CoveredCame
<1>9. segment < n /\ n <= Len(image.segments) /\ segment \in Nat /\ n \in Nat
  <2>1. DOMAIN image.segments = 1..Len(image.segments) /\ Len(image.segments) \in Nat
    <3>1. image.segments \in Seq(PhdrT)
      BY ImageAssumption DEF Loads, InHand
    <3> QED
      BY <3>1
  <2>2. n \in 1..Len(image.segments) /\ segment \in 1..Len(image.segments)
    BY <2>1 DEF ForPage, Loads, InHand
  <2> QED
    BY <1>7, <1>8, <2>1, <2>2 DEF Done
<1>10. segment' = segment + 1 /\ lpc' = "rw"
  <2>1. segment < Len(image.segments)
    <3>1. Len(image.segments) \in Nat
      <4>1. image.segments \in Seq(PhdrT)
        BY ImageAssumption DEF Loads, InHand
      <4> QED
        BY <4>1
    <3> QED
      BY <1>9, <3>1
  <2> QED
    BY <1>3, <2>1
<1>11. ~Done(n)'
  BY <1>9, <1>10 DEF Done
<1>12. Covered(image.segments[n], p, level)'
  BY <1>3, <1>7 DEF Covered
<1> QED
  BY <1>1, <1>11, <1>12 DEF Excused

-----------------------------------------------------------------------------
(* Loading, from the boot loader's tables to the last segment's flags.     *)
LEMMA LoadingInit ==
  ASSUME ImageInit
  PROVE  TablesType /\ InHand /\ \E depth, base : Loading(depth, base)
<1>1. PagingInit /\ image \in Images /\ lpc = "check" /\ segment = 1
  BY DEF ImageInit
<1>2. InHand
  <2>1. image.segments \in Seq(PhdrT) /\ image.segments # <<>>
    BY <1>1, ImageAssumption
  <2>2. 1 \in DOMAIN image.segments
    BY <2>1
  <2> QED
    BY <1>1, <2>2 DEF InHand
<1>3. PICK depth \in [DOMAIN tables -> 1..LEVELS], base \in [DOMAIN tables -> Pages] :
        /\ Leveled(tables, depth)
        /\ \A t \in DOMAIN tables \ {0} : \E u \in DOMAIN tables, i \in 0..(FAN - 1) :
             IsLink(tables[u][i], depth[u]) /\ tables[u][i].addr = t
        /\ Direct(tables, depth, base)
        /\ \A im \in Images : MapsImage(tables, depth, base, im)
  <2>1. tables \in BootTables
    BY <1>1 DEF PagingInit
  <2> QED
    BY <2>1, MappedAssumption
<1>4. TablesType /\ Holds(NewTable, depth)
  BY <1>1, <1>3, InitHolds DEF InitDepth
<1>5. DOMAIN tables = Numbers /\ Numbers = 0..(NewTable - 1)
  BY <1>4 DEF TablesType, Numbers
<1>6. BootDirect(NewTable, depth, base)
  <2>1. \A p \in Pages : p \in Nat
    BY DEF Pages
  <2>2. base \in [DOMAIN tables -> Nat]
    BY <1>3, <2>1
  <2> QED
    BY <1>3, <1>5, <2>2 DEF BootDirect, Direct, Indices
<1>7. Parents(depth)
  BY <1>3, <1>5 DEF Parents, Indices
<1>8. MapsImage(tables, depth, base, image)
  BY <1>1, <1>3
<1>9. ASSUME NEW n \in DOMAIN image.segments, NEW t \in Numbers, NEW p,
             IsFor(depth, base, t, p)
      PROVE  /\ p \in SegmentPages(image, image.segments[n]) \union MayVisit(image, image.segments[n])
                  => PageOf(t, depth, p).present
             /\ p \in SegmentPages(image, image.segments[n]) =>
                  Permissible(image, image.segments[n], p, PageOf(t, depth, p), depth[t])
  BY <1>5, <1>8, <1>9, Zenon DEF MapsImage, PageOf, Index
<1>10. ASSUME NEW n \in DOMAIN image.segments
       PROVE  Mapped(depth, base, image, image.segments[n])
  BY <1>9 DEF Mapped
<1>11. ASSUME NEW n \in DOMAIN image.segments
       PROVE  Granted(depth, base, n)
  <2>1. SUFFICES ASSUME NEW t \in Numbers, NEW p \in SegmentPages(image, image.segments[n]),
                        IsFor(depth, base, t, p)
                 PROVE  LET e == PageOf(t, depth, p) IN
                        /\ e.present
                        /\ "write" \in image.segments[n].flags => e.write
                        /\ "exec" \in image.segments[n].flags /\ e.nx => Excused(n, t, p, depth[t])
    BY DEF Granted
  <2>2. /\ PageOf(t, depth, p).present
        /\ Permissible(image, image.segments[n], p, PageOf(t, depth, p), depth[t])
    BY <1>9, <2>1
  <2>3. ~Done(n)
    <3>1. image.segments \in Seq(PhdrT)
      BY <1>1, ImageAssumption
    <3>2. n \in Nat /\ 1 <= n
      BY <3>1
    <3> QED
      BY <1>1, <3>2 DEF Done
  <2>4. "exec" \in image.segments[n].flags /\ PageOf(t, depth, p).nx =>
          Covered(image.segments[n], p, depth[t])
    BY <2>2, Zenon DEF Permissible, Covered, Place
  <2> QED
    BY <2>2, <2>3, <2>4 DEF Permissible, Excused
<1> QED
  BY <1>2, <1>4, <1>6, <1>7, <1>10, <1>11 DEF Loading

(* Steps that leave the tables as they are.                                *)
LEMMA LoadingStays ==
  ASSUME TablesType, NEW depth, NEW base, Loading(depth, base),
         UNCHANGED <<tables, table_vars, image, segment>>,
         \A n : Done(n)' => Done(n),
         lpc \in {"copy", "flags"} => lpc' \in {"copy", "flags"}
  PROVE  Loading(depth, base)'
<1>1. UNCHANGED paging_vars
  BY DEF paging_vars, table_vars
<1>2. PICK root : root = NewTable
  OBVIOUS
<1>3. Holds(root, depth) /\ BootDirect(root, depth, base)
  BY <1>2 DEF Loading
<1>4. TablesType' /\ NewTable' = root /\ Holds(root, depth)'
  BY <1>1, <1>2, <1>3, HoldsStill
<1>5. tables' = tables /\ Numbers' = Numbers /\ cr3' = cr3 /\ image' = image /\ Phdr' = Phdr
  BY <1>2, <1>4 DEF table_vars, Numbers, Phdr
<1>6. BootDirect(root, depth, base)'
  BY <1>3, <1>5 DEF BootDirect
<1>7. Parents(depth)'
  BY <1>5 DEF Loading, Parents
<1>8. ASSUME NEW n \in DOMAIN image.segments
      PROVE  Mapped(depth, base, image, image.segments[n])'
  BY <1>5 DEF Loading, Mapped, PageOf
<1>9. ASSUME NEW n, NEW t, NEW p, NEW level, Excused(n, t, p, level)
      PROVE  Excused(n, t, p, level)'
  <2>1. VisitOf(Phdr)' = VisitOf(Phdr)
    BY <1>5 DEF VisitOf
  <2>2. Covered(image.segments[n], p, level)' = Covered(image.segments[n], p, level)
    BY <1>5 DEF Covered
  <2> QED
    BY <1>5, <1>9, <2>1, <2>2 DEF Excused
<1>10. ASSUME NEW n \in DOMAIN image.segments PROVE Granted(depth, base, n)'
  BY <1>5, <1>9, Zenon DEF Loading, Granted, PageOf
<1> QED
  BY <1>4, <1>5, <1>6, <1>7, <1>8, <1>10 DEF Loading

LEMMA VprotectLoading ==
  ASSUME NEW depth, NEW base, NEW V, Loads(depth, base, V), MakeWritable \/ SetSegmentFlags
  PROVE  Loading(depth, base)'
<1>1. PICK flags : tables' = Vprotect(page_begin, total_len, flags)
  BY DEF MakeWritable, SetSegmentFlags
<1>2. UNCHANGED <<table_vars, image>>
  BY DEF MakeWritable, SetSegmentFlags
<1>3. SameLinks
  <2>1. PICK b, c : b = page_begin /\ c = total_len
    OBVIOUS
  <2> QED
    BY <1>1, <2>1, VprotectKeeps DEF Loads
<1>4. /\ TablesType' /\ Holds(NewTable, depth)' /\ BootDirect(NewTable, depth, base)'
      /\ Parents(depth)' /\ stage' = "boot"
      /\ \A n \in DOMAIN image.segments : Mapped(depth, base, image, image.segments[n])'
  BY <1>2, <1>3, LoadingLinked DEF Loads
<1>5. image' = image /\ Numbers' = Numbers
  BY <1>2, <1>3 DEF SameLinks, Numbers
<1>6. ASSUME NEW n \in DOMAIN image.segments, NEW t \in Numbers,
             NEW p \in SegmentPages(image, image.segments[n]), IsFor(depth, base, t, p)
      PROVE  LET e == PageOf(t, depth, p)' IN
             /\ e.present
             /\ "write" \in image.segments[n].flags => e.write
             /\ "exec" \in image.segments[n].flags /\ e.nx => Excused(n, t, p, depth[t])'
  <2>1. ForPage(depth, base, n, t, p)
    BY <1>6 DEF ForPage
  <2>2. PICK i : i = Index(p, depth[t])
    OBVIOUS
  <2>3. PageOf(t, depth, p)' = tables'[t][i]
    BY <2>2 DEF PageOf
  <2>4. tables'[t][i].present /\ ("write" \in image.segments[n].flags => tables'[t][i].write)
    BY <1>1, <2>1, <2>2, StillGranted
  <2>5. ASSUME "exec" \in image.segments[n].flags, PageOf(t, depth, p)'.nx
        PROVE  Excused(n, t, p, depth[t])'
    BY <2>1, <2>5, MakeWritableLoads, SetFlagsLoads
  <2> QED
    BY <2>3, <2>4, <2>5
<1>7. ASSUME NEW n \in DOMAIN image.segments PROVE Granted(depth, base, n)'
  BY <1>5, <1>6, Zenon DEF Granted
<1> QED
  BY <1>4, <1>5, <1>7 DEF Loading

LEMMA StaysInHand ==
  ASSUME InHand, [ImageNext]_image_vars
  PROVE  InHand'
<1>1. image.segments \in Seq(PhdrT)
  BY ImageAssumption DEF InHand
<1>2. DOMAIN image.segments = 1..Len(image.segments) /\ Len(image.segments) \in Nat
  BY <1>1
<1>3. CASE CheckHeaders
  BY <1>3 DEF InHand, CheckHeaders
<1>4. CASE MakeWritable
  BY <1>4 DEF InHand, MakeWritable
<1>5. CASE CopySegment
  BY <1>5 DEF InHand, CopySegment
<1>6. CASE SetSegmentFlags
  <2>1. PICK k \in Nat, j \in Nat : k = Len(image.segments) /\ j = segment /\ 1 <= j /\ j <= k
    BY <1>2 DEF InHand
  <2>2. j < k => j + 1 \in 1..k
    BY <2>1
  <2> QED
    BY <1>2, <1>6, <2>1, <2>2 DEF InHand, SetSegmentFlags
<1>7. CASE Kstart
  BY <1>7 DEF InHand, Kstart
<1>8. CASE UNCHANGED load_vars
  BY <1>8 DEF InHand, load_vars
<1> QED
  BY <1>3, <1>4, <1>5, <1>6, <1>7, <1>8 DEF ImageNext, LoaderMapElf, image_vars

(* Before the kernel is entered.                                           *)
LEMMA LoadingStep ==
  ASSUME TablesType, stage = "boot", InHand, NEW depth, NEW base, Loading(depth, base),
         lpc # "kmain", [ImageNext]_image_vars
  PROVE  Loading(depth, base)'
<1>1. PICK V : Loads(depth, base, V)
  BY DEF Loads
<1>2. CASE CheckHeaders
  <2>1. UNCHANGED <<tables, table_vars, image, segment>> /\ lpc = "check" /\ lpc' \in {"hcf", "rw"}
    BY <1>2 DEF CheckHeaders
  <2>2. \A n : Done(n)' => Done(n)
    BY <2>1 DEF Done
  <2> QED
    BY <2>1, <2>2, LoadingStays
<1>3. CASE MakeWritable \/ SetSegmentFlags
  BY <1>1, <1>3, VprotectLoading
<1>4. CASE CopySegment
  <2>1. UNCHANGED <<tables, table_vars, image, segment>> /\ lpc = "copy" /\ lpc' = "flags"
    BY <1>4 DEF CopySegment
  <2>2. \A n : Done(n)' => Done(n)
    BY <2>1 DEF Done
  <2> QED
    BY <2>1, <2>2, LoadingStays
<1>5. CASE Kstart
  <2>1. UNCHANGED <<tables, table_vars, image, segment>> /\ lpc = "relr" /\ lpc' = "kmain"
    BY <1>5 DEF Kstart
  <2>2. \A n : Done(n)' => Done(n)
    BY <2>1 DEF Done
  <2> QED
    BY <2>1, <2>2, LoadingStays
<1>6. CASE UNCHANGED image_vars
  <2>1. UNCHANGED <<tables, table_vars, image, segment>> /\ lpc' = lpc
    BY <1>6 DEF image_vars, paging_vars, load_vars, table_vars
  <2>2. \A n : Done(n)' => Done(n)
    BY <2>1 DEF Done
  <2> QED
    BY <2>1, <2>2, LoadingStays
<1> QED
  BY <1>2, <1>3, <1>4, <1>5, <1>6 DEF ImageNext, LoaderMapElf


-----------------------------------------------------------------------------
(* From the tables for pages up to the root.                               *)
LEMMA Upward ==
  ASSUME NEW S, \A level \in 1..LEVELS : (level - 1 \in 1..LEVELS => level - 1 \in S) => level \in S
  PROVE  \A level \in 1..LEVELS : level \in S
<1> DEFINE Good == {n \in Nat : n + 1 \in 1..LEVELS => n + 1 \in S}
<1>1. LEVELS \in Nat
  BY PagingAssumption
<1>2. 0 \in Good
  <2>1. PICK z : z = 0 + 1 /\ ~(z - 1 \in 1..LEVELS)
    OBVIOUS
  <2>2. z \in 1..LEVELS => z \in S
    BY <2>1
  <2> QED
    BY <2>1, <2>2
<1>3. ASSUME NEW n \in Good PROVE n + 1 \in Good
  <2>1. n \in Nat /\ (n + 1 \in 1..LEVELS => n + 1 \in S)
    OBVIOUS
  <2>2. ((n + 1) + 1) - 1 = n + 1
    BY <2>1
  <2>3. (n + 1) + 1 \in 1..LEVELS => (n + 1) + 1 \in S
    BY <2>1, <2>2
  <2> QED
    BY <2>1, <2>3
<1>4. Good \subseteq Nat
  OBVIOUS
<1>5. Good = Nat
  <2> HIDE DEF Good
  <2> QED
    BY <1>2, <1>3, <1>4, NatSets
<1>6. ASSUME NEW level \in 1..LEVELS PROVE level \in S
  <2>1. level - 1 \in Nat /\ (level - 1) + 1 = level
    BY <1>1
  <2>2. level - 1 \in Good
    BY <1>5, <2>1
  <2> QED
    BY <2>1, <2>2
<1> QED
  BY <1>6

(* What a page of a segment has to be found as.                            *)
Serves(s, p, found) ==
  \E x \in found : /\ x.page = p
                   /\ "exec" \in s.flags => ~x.nx
                   /\ "write" \in s.flags => x.write

Lets(e, s) == e.present /\ ("exec" \in s.flags => ~e.nx) /\ ("write" \in s.flags => e.write)

Allows(depth, base, s, p) ==
  \A t \in Numbers : IsFor(depth, base, t, p) => Lets(PageOf(t, depth, p), s)

LEMMA ThroughServes ==
  ASSUME NEW e \in EntryT, NEW s, Lets(e, s), NEW p, NEW found \in SUBSET FoundT, Serves(s, p, found)
  PROVE  Serves(s, p, Through(e, found))
<1>1. PICK x \in found : /\ x.page = p
                         /\ "exec" \in s.flags => ~x.nx
                         /\ "write" \in s.flags => x.write
  BY DEF Serves
<1>2. x \in FoundT
  OBVIOUS
<1>3. PICK y : y = [x EXCEPT !.write = @ /\ e.write, !.nx = @ \/ e.nx]
  OBVIOUS
<1>4. y.page = x.page /\ y.write = (x.write /\ e.write) /\ y.nx = (x.nx \/ e.nx)
  BY <1>2, <1>3, ThroughField
<1>5. y \in Through(e, found)
  BY <1>1, <1>3 DEF Through
<1> QED
  BY <1>1, <1>4, <1>5, Zenon DEF Serves, Lets

LEMMA LeafServes ==
  ASSUME NEW e \in EntryT, NEW s, Lets(e, s), NEW p \in Nat, NEW level \in Nat \ {0},
         e.addr = Place(p, level) * Span[level]
  PROVE  Serves(s, p, Leaf(e, level, p))
<1>1. PICK n \in Nat \ {0} : n = Span[level]
  BY SpanType
<1>2. p = (p \div n) * n + (p % n)
  BY <1>1, Divided
<1>3. e.addr = (p \div n) * n
  BY <1>1 DEF Place
<1>4. e.addr + (p % n) = p
  BY <1>2, <1>3, Zenon
<1>5. PICK x : x = [page |-> p, write |-> e.write, nx |-> e.nx]
  OBVIOUS
<1>6. x \in Leaf(e, level, p)
  BY <1>1, <1>4, <1>5 DEF Leaf
<1>7. x.page = p /\ x.write = e.write /\ x.nx = e.nx
  BY <1>5
<1> QED
  BY <1>6, <1>7, Zenon DEF Serves, Lets

(* If every entry for a page allows what the segment needs, the page is    *)
(* found so.                                                               *)
LEMMA AllowedIsFound ==
  ASSUME NEW depth, NEW base, BootLinks(depth, base), NEW s, NEW p \in Pages, Allows(depth, base, s, p)
  PROVE  Serves(s, p, Translate(tables, 0, p))
<1>1. p \in Nat /\ Place(p, LEVELS + 1) = 0 /\ LEVELS \in Nat \ {0}
  BY PlaceInRoot, PagingAssumption
<1>2. tables \in [DOMAIN tables -> [Indices -> EntryT]] /\ DOMAIN tables = Numbers
  BY DEF BootLinks, TablesType
<1>3. PICK w : Walks(tables, p, w) /\ \A t : Translate(tables, t, p) = w[LEVELS][t]
  BY <1>1, <1>2, TranslateIsWalk
<1>4. Finds(tables, p, w)
  BY <1>1, <1>2, <1>3, WalkFinds
<1> DEFINE For(level) == {t \in Numbers : depth[t] = level /\ base[t] = Place(p, level + 1)}
           S == {level \in 1..LEVELS : \A t \in For(level) : Serves(s, p, w[level][t])}
<1>5. ASSUME NEW level \in 1..LEVELS, level - 1 \in 1..LEVELS => level - 1 \in S
      PROVE  level \in S
  <2>1. SUFFICES ASSUME NEW t \in For(level) PROVE Serves(s, p, w[level][t])
    OBVIOUS
  <2>2. level \in Nat \ {0} /\ level \in Nat
    BY <1>1
  <2>3. t \in Numbers /\ depth[t] = level /\ base[t] = Place(p, level + 1)
    OBVIOUS
  <2>4. PICK i \in Indices : i = Index(p, level)
    BY <1>1, <2>2, IndexInTable DEF Indices
  <2>5. PICK e \in EntryT : e = tables[t][i]
    BY <1>2, <2>3
  <2>6. Lets(e, s)
    BY <2>3, <2>4, <2>5 DEF Allows, IsFor, PageOf, Place
  <2>7. InPlace(e, level, base, Place(p, level))
    <3>1. InPlace(tables[t][i], depth[t], base, base[t] * FAN + i)
      BY <2>3 DEF BootLinks
    <3>2. base[t] * FAN + i = Place(p, level)
      BY <1>1, <2>2, <2>3, <2>4, PlaceStep
    <3> QED
      BY <2>3, <2>5, <3>1, <3>2
  <2>8. w[level][t] = Seen(tables, p, w, level, t)
    BY <1>2, <1>4, <2>3 DEF Finds
  <2>9. CASE IsLink(e, level)
    <3>1. PICK m \in 1..LEVELS : m = level - 1 /\ m + 1 = level
      BY <1>1, <2>2, <2>9 DEF IsLink
    <3>2. e.addr \in Numbers /\ depth[e.addr] = m
      BY <2>3, <2>5, <2>9, <3>1 DEF BootLinks
    <3>3. base[e.addr] = Place(p, m + 1)
      BY <2>6, <2>7, <2>9, <3>1 DEF InPlace, Lets
    <3>4. Serves(s, p, w[m][e.addr])
      BY <1>5, <3>1, <3>2, <3>3
    <3>5. w[m][e.addr] \in SUBSET FoundT
      BY <1>2, <1>4, <3>2 DEF Finds
    <3>6. Seen(tables, p, w, level, t) = Through(e, w[m][e.addr])
      BY <1>2, <2>4, <2>5, <2>6, <2>9, <3>1, <3>2 DEF Seen, Lets
    <3> QED
      BY <2>6, <2>8, <3>4, <3>5, <3>6, ThroughServes
  <2>10. CASE ~IsLink(e, level)
    <3>1. e.addr = Place(p, level) * Span[level]
      BY <2>6, <2>7, <2>10 DEF InPlace, Lets
    <3>2. Seen(tables, p, w, level, t) = Leaf(e, level, p)
      BY <2>4, <2>5, <2>6, <2>10 DEF Seen, Lets
    <3> QED
      BY <1>1, <2>2, <2>6, <2>8, <3>1, <3>2, LeafServes
  <2> QED
    BY <2>9, <2>10
<1>6. \A level \in 1..LEVELS : level \in S
  <2> HIDE DEF S
  <2> QED
    BY <1>5, Upward
<1>7. LEVELS \in S
  BY <1>1, <1>6
<1>8. 0 \in For(LEVELS)
  BY <1>1 DEF BootLinks
<1> QED
  BY <1>3, <1>7, <1>8

(* While the boot loader's tables stay as they are, so does what is found  *)
(* through them.                                                           *)
BootOnly(root, depth, ts) ==
  /\ root \in Nat /\ 0 < root /\ root <= NewTable /\ depth[0] = LEVELS /\ BootTree(root, depth)
  /\ ts \in [DOMAIN ts -> [Indices -> EntryT]] /\ 0..(root - 1) \subseteq DOMAIN ts
  /\ \A t \in 0..(root - 1) : ts[t] = tables[t]

LEMMA BootTranslates ==
  ASSUME TablesType, NEW root, NEW depth, NEW ts, BootOnly(root, depth, ts), NEW p \in Nat
  PROVE  Translate(ts, 0, p) = Translate(tables, 0, p)
<1> USE DEF BootOnly
<1>1. /\ tables \in [DOMAIN tables -> [Indices -> EntryT]] /\ LEVELS \in Nat \ {0}
      /\ NewTable \in Nat /\ DOMAIN tables = 0..(NewTable - 1)
  BY PagingAssumption DEF TablesType, Numbers
<1>2. PICK w : Walks(tables, p, w) /\ \A t : Translate(tables, t, p) = w[LEVELS][t]
  BY <1>1, TranslateIsWalk
<1>3. PICK v : Walks(ts, p, v) /\ \A t : Translate(ts, t, p) = v[LEVELS][t]
  BY TranslateIsWalk
<1>4. Finds(tables, p, w) /\ Finds(ts, p, v)
  BY <1>1, <1>2, <1>3, WalkFinds
<1> DEFINE Boot == 0..(root - 1)
           S == {level \in 1..LEVELS : \A t \in Boot : depth[t] = level => v[level][t] = w[level][t]}
<1>5. Boot \subseteq DOMAIN tables /\ Boot \subseteq DOMAIN ts
  BY <1>1
<1>6. ASSUME NEW level \in 1..LEVELS, level - 1 \in 1..LEVELS => level - 1 \in S
      PROVE  level \in S
  <2>1. SUFFICES ASSUME NEW t \in Boot, depth[t] = level PROVE v[level][t] = w[level][t]
    OBVIOUS
  <2>2. level \in Nat \ {0} /\ level \in Nat
    BY <1>1
  <2>3. PICK i \in Indices : i = Index(p, level)
    BY <1>1, <2>2, IndexInTable DEF Indices
  <2>4. PICK e : e = tables[t][i] /\ e = ts[t][i]
    OBVIOUS
  <2>5. w[level][t] = Seen(tables, p, w, level, t) /\ v[level][t] = Seen(ts, p, v, level, t)
    BY <1>4, <1>5 DEF Finds
  <2>6. CASE IsLink(e, level)
    <3>1. e.addr \in Boot /\ depth[e.addr] = level - 1
      BY <2>1, <2>4, <2>6 DEF BootTree
    <3>2. level - 1 \in 1..LEVELS
      BY <1>1, <2>2, <2>6 DEF IsLink
    <3>3. v[level - 1][e.addr] = w[level - 1][e.addr]
      BY <1>6, <3>1, <3>2
    <3>4. e.addr \in DOMAIN tables /\ e.addr \in DOMAIN ts
      BY <1>5, <3>1
    <3> QED
      BY <2>3, <2>4, <2>5, <2>6, <3>3, <3>4 DEF Seen
  <2>7. CASE ~IsLink(e, level)
    BY <2>3, <2>4, <2>5, <2>7 DEF Seen
  <2> QED
    BY <2>6, <2>7
<1>7. \A level \in 1..LEVELS : level \in S
  <2> HIDE DEF S
  <2> QED
    BY <1>6, Upward
<1>8. LEVELS \in S /\ 0 \in Boot
  BY <1>1, <1>7
<1>9. v[LEVELS][0] = w[LEVELS][0]
  BY <1>8
<1> QED
  BY <1>2, <1>3, <1>9

LEMMA BootStepFinds ==
  ASSUME TablesType, TablesType', NEW root, NEW depth, Holds(root, depth), 0 < root, depth[0] = LEVELS,
         NEW d, Holds(root, d)', BootSame(root, depth, d), NEW p \in Nat
  PROVE  Translate(tables', 0, p) = Translate(tables, 0, p)
<1>1. PICK ts : ts = tables'
  OBVIOUS
<1>2. PICK new \in Nat : new = NewTable' /\ DOMAIN ts = 0..(new - 1)
  BY <1>1 DEF TablesType, Numbers
<1>3. NewTable \in Nat /\ root \in 0..NewTable /\ root \in 0..new /\ BootTree(root, depth)
  BY <1>2 DEF Holds, Tree, TablesType
<1>4. ts \in [DOMAIN ts -> [Indices -> EntryT]]
  <2>1. Indices' = Indices
    BY DEF Indices
  <2>2. tables' \in [Numbers' -> [Indices -> EntryT]]
    BY <2>1 DEF TablesType
  <2> QED
    BY <1>1, <2>2
<1>5. \A t \in 0..(root - 1) : ts[t] = tables[t]
  BY <1>1 DEF BootSame
<1>6. BootOnly(root, depth, ts)
  BY <1>2, <1>3, <1>4, <1>5 DEF BootOnly
<1> QED
  BY <1>1, <1>6, BootTranslates

LEMMA CloneRooted ==
  ASSUME TablesType, NEW root, NEW depth, NEW of, Holds(root, depth), Mirrors(root, depth, of),
         stage = "clone"
  PROVE  0 < root /\ depth[0] = LEVELS /\ cr3 = 0
<1>1. depth[root] = LEVELS /\ cr3 = 0 /\ stack # <<>> /\ stack \in Seq(FrameT)
  BY DEF Holds, AtStage, Frames
<1>2. Len(stack) \in 1..Len(stack) /\ stack[Len(stack)].new = root
  BY <1>1 DEF Holds, AtStage
<1>3. root \in root..(NewTable - 1) /\ root \in Nat
  BY <1>2 DEF Holds, Frames, Tree, TablesType
<1>4. of[root] \in 0..(root - 1) /\ of[root] = 0 /\ depth[of[root]] = depth[root]
  BY <1>3 DEF Mirrors
<1> QED
  BY <1>1, <1>3, <1>4

(* A step of the kernel, for a page it does not ask for.                   *)
LEMMA KernelBetters ==
  ASSUME TablesType, TablesType', UseInv, CopyInv, [PagingNext]_paging_vars,
         NEW p \in Pages, \A r \in Requests : ~InGranule(p, r)
  PROVE  Better(Translate(tables, cr3, p), Translate(tables', cr3', p))
<1>1. p \in Nat
  BY PlaceInRoot
<1>2. ASSUME Translate(tables', cr3', p) = Translate(tables, cr3, p)
      PROVE  Better(Translate(tables, cr3, p), Translate(tables', cr3', p))
  BY <1>2, BetterSame
<1>3. CASE StartClone
  <2>1. stage = "boot" /\ cr3' = cr3
    BY <1>3 DEF StartClone
  <2>2. PICK root, depth : Holds(root, depth)
    BY <2>1 DEF UseInv
  <2>3. 0 < root /\ depth[0] = LEVELS /\ cr3 = 0
    BY <2>1, <2>2 DEF Holds, AtStage
  <2>4. PICK d : Holds(root, d)' /\ BootSame(root, depth, d)
    BY <1>3, <2>2, StartMirrors
  <2> QED
    BY <1>1, <1>2, <2>1, <2>2, <2>3, <2>4, BootStepFinds
<1>4. CASE stage = "clone"
  <2>1. PICK root, depth, of : Holds(root, depth) /\ Mirrors(root, depth, of)
    BY <1>4 DEF CopyInv
  <2>2. 0 < root /\ depth[0] = LEVELS /\ cr3 = 0
    BY <1>4, <2>1, CloneRooted
  <2>3. CASE cr3' = cr3
    <3>1. PICK d : Holds(root, d)' /\ BootSame(root, depth, d)
      BY <1>4, <2>1, MirrorsStep
    <3> QED
      BY <1>1, <1>2, <2>1, <2>2, <2>3, <3>1, BootStepFinds
  <2>4. CASE cr3' # cr3
    <3>1. CloneReturn /\ Tail(stack) = <<>>
      BY <1>4, <2>4 DEF PagingNext, Clone, StartClone, CloneEntry, CloneTable, CloneReturn, Add,
             AddStep, AddPresent, AddDescend, AddHalts, AddPage, AddTable, paging_vars
    <3>2. tables' = tables /\ cr3' = Frame.new
      BY <3>1 DEF CloneReturn
    <3>3. /\ Frame.new = root /\ depth[root] = LEVELS /\ root \in Nat /\ root < NewTable
          /\ \A t \in root..(NewTable - 1), i \in Indices : Settled(t, i)
      BY <2>1, <3>1, LastReturn
    <3>4. Translate(tables, root, p) = Translate(tables, 0, p)
      BY <1>1, <2>1, <3>3, CopyTranslates DEF Holds
    <3> QED
      BY <1>2, <2>2, <3>2, <3>3, <3>4
  <2> QED
    BY <2>3, <2>4
<1>5. CASE AddStep
  <2>1. stage = "add" /\ Running /\ cr3' = cr3
    BY <1>5 DEF AddStep, AddPresent, AddDescend, AddHalts, AddPage, AddTable, Running
  <2>2. PICK root, depth, base : Holds(root, depth) /\ Maps(root, depth, base)
    BY <2>1 DEF UseInv
  <2>3. request \in Requests
    BY <2>1, <2>2 DEF Holds, AtStage, CallT, request
  <2>4. Better(Translate(tables, cr3, p), Translate(tables', cr3, p))
    BY <1>5, <2>2, <2>3, StepBetters
  <2> QED
    BY <2>1, <2>4
<1>6. CASE UNCHANGED <<tables, cr3>>
  BY <1>2, <1>6
<1>7. CASE \E r \in Requests : Add(r)
  BY <1>6, <1>7 DEF Add
<1>8. CASE UNCHANGED paging_vars
  BY <1>6, <1>8 DEF paging_vars
<1> QED
  BY <1>3, <1>4, <1>5, <1>7, <1>8 DEF PagingNext, Clone, CloneEntry, CloneTable, CloneReturn

-----------------------------------------------------------------------------
(* From the end of the loading on.                                         *)
PagesFound ==
  \A n \in DOMAIN image.segments : \A p \in SegmentPages(image, image.segments[n]) :
    Serves(image.segments[n], p, Translate(tables, cr3, p))

LEMMA KernelEntered ==
  ASSUME TablesType, stage = "boot", InHand, NEW depth, NEW base, Loading(depth, base), lpc = "relr"
  PROVE  PagesFound
<1>1. BootLinks(depth, base) /\ cr3 = 0
  BY LoadingLinks DEF BootLinks
<1>2. SUFFICES ASSUME NEW n \in DOMAIN image.segments, NEW p \in SegmentPages(image, image.segments[n])
               PROVE  Serves(image.segments[n], p, Translate(tables, 0, p))
  BY <1>1 DEF PagesFound
<1>3. p \in Pages
  BY SegmentFacts DEF InHand
<1>4. Granted(depth, base, n)
  BY DEF Loading
<1>5. \A t, level : ~Excused(n, t, p, level)
  BY DEF Excused, Done
<1>6. Allows(depth, base, image.segments[n], p)
  BY <1>4, <1>5, Zenon DEF Allows, Granted, Lets
<1> QED
  BY <1>1, <1>3, <1>6, AllowedIsFound

LEMMA BetterServes ==
  ASSUME NEW s, NEW p, NEW A, NEW B, Better(A, B), Serves(s, p, A)
  PROVE  Serves(s, p, B)
BY Zenon DEF Better, Serves

LoadInv ==
  /\ InHand
  /\ lpc # "kmain" => \E depth, base : Loading(depth, base)
  /\ lpc = "kmain" => PagesFound

LEMMA LoadStep ==
  ASSUME ImageInv, TablesType', UseInv, CopyInv, LoadInv, [ImageNext]_image_vars
  PROVE  LoadInv'
<1>1. TablesType /\ InHand /\ InHand'
  BY StaysInHand DEF ImageInv, PagingInv, LoadInv
<1>2. CASE lpc # "kmain"
  <2>1. stage = "boot"
    BY <1>2 DEF ImageInv
  <2>2. PICK depth, base : Loading(depth, base)
    BY <1>2 DEF LoadInv
  <2>3. Loading(depth, base)'
    BY <1>1, <1>2, <2>1, <2>2, LoadingStep
  <2>4. CASE lpc' # "kmain"
    BY <1>1, <2>3, <2>4 DEF LoadInv
  <2>5. CASE lpc' = "kmain"
    <3>1. Kstart
      BY <1>2, <2>5 DEF ImageNext, LoaderMapElf, CheckHeaders, MakeWritable, CopySegment,
             SetSegmentFlags, image_vars, load_vars
    <3>2. lpc = "relr" /\ tables' = tables /\ cr3' = cr3 /\ image' = image
      BY <3>1 DEF Kstart, table_vars
    <3>3. PagesFound
      BY <1>1, <2>1, <2>2, <3>2, KernelEntered
    <3>4. PagesFound'
      BY <3>2, <3>3 DEF PagesFound
    <3> QED
      BY <1>1, <2>5, <3>4 DEF LoadInv
  <2> QED
    BY <2>4, <2>5
<1>3. CASE lpc = "kmain"
  <2>1. [PagingNext]_paging_vars /\ image' = image /\ lpc' = "kmain"
    BY <1>3 DEF ImageNext, LoaderMapElf, CheckHeaders, MakeWritable, CopySegment,
           SetSegmentFlags, Kstart, image_vars, load_vars
  <2>2. SUFFICES ASSUME NEW n \in DOMAIN image.segments, NEW p \in SegmentPages(image, image.segments[n])
                 PROVE  Serves(image.segments[n], p, Translate(tables', cr3', p))
    BY <1>1, <2>1 DEF LoadInv, PagesFound
  <2>3. p \in Pages
    BY <1>1, SegmentFacts DEF InHand
  <2>4. \A r \in Requests : ~InGranule(p, r)
    BY <1>1, OutsideAssumption DEF InHand
  <2>5. Better(Translate(tables, cr3, p), Translate(tables', cr3', p))
    BY <1>1, <2>1, <2>3, <2>4, KernelBetters
  <2>6. Serves(image.segments[n], p, Translate(tables, cr3, p))
    BY <1>3 DEF LoadInv, PagesFound
  <2> QED
    BY <2>5, <2>6, BetterServes
<1> QED
  BY <1>2, <1>3

-----------------------------------------------------------------------------
(* The words of the image. A segment is copied when it is done, or has its *)
(* flags still to be set.                                                  *)
Copied(n) == Done(n) \/ (n = segment /\ lpc = "flags")

AsLinked(n) ==
  LET s == image.segments[n] IN
  \A w \in FileWords(s) :
    memory[w] = [file |-> s.offset + (w - s.paddr),
                 bases |-> IF lpc = "kmain" /\ \E j \in DOMAIN image.relr :
                                image.relr[j] = [kind |-> "address", where |-> w]
                           THEN 1 ELSE 0]

WordsInv ==
  /\ lpc = "check" => segment = 1
  /\ lpc \notin {"check", "hcf"} => \A n \in DOMAIN image.segments :
       FileWords(image.segments[n]) \subseteq DOMAIN memory /\ (Copied(n) => AsLinked(n))

(* The memory is allocated for every segment.                              *)
LEMMA LastEnd ==
  ASSUME NEW ends, NEW k \in Nat \ {0}, ends \in [1..k -> Nat]
  PROVE  \E i \in 1..k : \A j \in 1..k : ends[j] <= ends[i]
<1> DEFINE Good == {n \in Nat : n + 1 <= k => \E i \in 1..(n + 1) : \A j \in 1..(n + 1) : ends[j] <= ends[i]}
<1>1. 0 \in Good
  <2>1. 1 \in 1..(0 + 1) /\ \A j \in 1..(0 + 1) : j = 1
    OBVIOUS
  <2>2. ends[1] \in Nat
    OBVIOUS
  <2>3. ends[1] <= ends[1]
    BY <2>2
  <2>4. \A j \in 1..(0 + 1) : ends[j] <= ends[1]
    BY <2>1, <2>3
  <2> QED
    BY <2>1, <2>4
<1>2. ASSUME NEW n \in Good PROVE n + 1 \in Good
  <2>1. SUFFICES ASSUME (n + 1) + 1 <= k
                 PROVE  \E i \in 1..((n + 1) + 1) : \A j \in 1..((n + 1) + 1) : ends[j] <= ends[i]
    OBVIOUS
  <2>2. n \in Nat /\ n + 1 <= k
    BY <2>1
  <2>3. PICK i \in 1..(n + 1) : \A j \in 1..(n + 1) : ends[j] <= ends[i]
    BY <2>2
  <2>4. PICK m \in 1..k : m = (n + 1) + 1
    BY <2>1, <2>2
  <2>5. ends[m] \in Nat /\ ends[i] \in Nat /\ \A j \in 1..m : j = m \/ j \in 1..(n + 1)
    BY <2>1, <2>2, <2>3, <2>4
  <2>6. CASE ends[m] <= ends[i]
    <3>1. i \in 1..m /\ \A j \in 1..m : ends[j] <= ends[i]
      BY <2>2, <2>3, <2>4, <2>5, <2>6
    <3> QED
      BY <2>4, <3>1
  <2>7. CASE ~(ends[m] <= ends[i])
    <3>1. \A j \in 1..(n + 1) : ends[j] \in Nat
      BY <2>1, <2>2
    <3>2. \A j \in 1..(n + 1) : ends[j] <= ends[m]
      BY <2>3, <2>5, <2>7, <3>1
    <3>3. m \in 1..m /\ ends[m] <= ends[m]
      BY <2>5
    <3>4. \A j \in 1..m : ends[j] <= ends[m]
      BY <2>5, <3>2, <3>3
    <3> QED
      BY <2>4, <3>3, <3>4
  <2> QED
    BY <2>6, <2>7
<1>3. Good \subseteq Nat
  OBVIOUS
<1> HIDE DEF Good
<1>4. Good = Nat
  BY <1>1, <1>2, <1>3, NatSets
<1>5. PICK n \in Nat : n + 1 = k
  <2>1. k - 1 \in Nat /\ (k - 1) + 1 = k
    OBVIOUS
  <2> QED
    BY <2>1
<1>6. \E i \in 1..(n + 1) : \A j \in 1..(n + 1) : ends[j] <= ends[i]
  <2>1. n \in Good /\ n + 1 <= k
    BY <1>4, <1>5
  <2> QED
    BY <2>1 DEF Good
<1>7. 1..(n + 1) = 1..k
  BY <1>5
<1> QED
  BY <1>6, <1>7, Zenon

LEMMA AllAllocated ==
  ASSUME InHand, NEW n \in DOMAIN image.segments
  PROVE  FileWords(image.segments[n]) \subseteq 0..(LoadSize - 1)
<1>1. PICK k \in Nat \ {0} : DOMAIN image.segments = 1..k
  <2>1. image.segments \in Seq(PhdrT) /\ image.segments # <<>>
    BY ImageAssumption DEF InHand
  <2>2. DOMAIN image.segments = 1..Len(image.segments) /\ Len(image.segments) \in Nat \ {0}
    BY <2>1
  <2> QED
    BY <2>2
<1>2. PICK ends : ends = [i \in 1..k |-> SegmentEnd(image.segments[i])]
  OBVIOUS
<1>3. ASSUME NEW i \in 1..k PROVE ends[i] \in Nat /\ ends[i] = SegmentEnd(image.segments[i])
  <2>1. image.segments[i] \in PhdrT
    BY <1>1, SegmentFacts DEF InHand
  <2>2. SegmentEnd(image.segments[i]) \in Nat
    BY <2>1 DEF SegmentEnd, PhdrT
  <2>3. ends[i] = SegmentEnd(image.segments[i])
    BY <1>2, Zenon
  <2> QED
    BY <2>2, <2>3
<1>4. ends \in [1..k -> Nat]
  BY <1>2, <1>3
<1>5. PICK i \in 1..k : \A j \in 1..k : ends[j] <= ends[i]
  BY <1>4, LastEnd
<1> DEFINE Ends == {SegmentEnd(image.segments[j]) : j \in DOMAIN image.segments}
           Last(m) == \A j \in DOMAIN image.segments : SegmentEnd(image.segments[j]) <= m
<1>6. ends[i] \in Ends /\ Last(ends[i])
  BY <1>1, <1>3, <1>5
<1>7. LoadSize \in Ends /\ Last(LoadSize)
  BY <1>6, Zenon DEF LoadSize
<1>8. PICK s : s = image.segments[n]
  OBVIOUS
<1>9. PICK size \in Nat : size = LoadSize /\ SegmentEnd(s) <= size
  <2>1. LoadSize \in Nat
    BY <1>1, <1>3, <1>7
  <2> QED
    BY <1>7, <1>8, <2>1
<1>10. s \in PhdrT /\ s.filesz <= s.memsz
  BY <1>8, SegmentFacts DEF InHand
<1>11. FileWords(s) \subseteq 0..(size - 1)
  BY <1>9, <1>10 DEF FileWords, SegmentEnd, PhdrT
<1> QED
  BY <1>8, <1>9, <1>11

(* The places that the linker has the base added to.                       *)
LEMMA BaseOnce ==
  ASSUME InHand, NEW w \in Nat,
         NEW places, places = {i \in DOMAIN image.relr :
           image.relr[i].kind = "address" /\ image.relr[i].where = w}
  PROVE  Cardinality(places) = IF \E j \in DOMAIN image.relr :
                                    image.relr[j] = [kind |-> "address", where |-> w]
                               THEN 1 ELSE 0
<1>1. /\ \A i \in DOMAIN image.relr : image.relr[i] \in RelrT
      /\ \A i, j \in DOMAIN image.relr :
           image.relr[i].kind = "address" /\ image.relr[j] = image.relr[i] => i = j
  <2>1. image.relr \in Seq(RelrT)
    BY ImageAssumption DEF InHand
  <2> QED
    BY <2>1, ImageAssumption DEF InHand
<1>2. PICK place : place = [kind |-> "address", where |-> w]
  OBVIOUS
<1>3. ASSUME NEW i \in DOMAIN image.relr
      PROVE  i \in places <=> image.relr[i] = place
  <2>1. PICK r : r = image.relr[i] /\ r \in RelrT
    BY <1>1
  <2>2. (r.kind = "address" /\ r.where = w) <=> r = place
    BY <1>2, <2>1 DEF RelrT
  <2> QED
    BY <2>1, <2>2
<1>4. CASE \E j \in DOMAIN image.relr : image.relr[j] = place
  <2>1. PICK j \in DOMAIN image.relr : image.relr[j] = place
    BY <1>4
  <2>2. \A i \in DOMAIN image.relr : image.relr[i] = place => i = j
    BY <1>1, <1>2, <2>1
  <2>3. places = {j}
    BY <1>3, <2>1, <2>2
  <2>4. Cardinality(places) = 1
    BY <2>3, FS_Singleton
  <2> QED
    BY <1>2, <1>4, <2>4
<1>5. CASE ~\E j \in DOMAIN image.relr : image.relr[j] = place
  <2>1. places = {}
    BY <1>3, <1>5
  <2>2. Cardinality(places) = 0
    BY <2>1, FS_EmptySet
  <2> QED
    BY <1>2, <1>5, <2>2
<1> QED
  BY <1>4, <1>5

LEMMA WordsStay ==
  ASSUME WordsInv, lpc \notin {"check", "hcf"}, lpc # "relr", UNCHANGED <<image, memory>>,
         lpc' \notin {"check", "hcf"}, lpc = "kmain" <=> lpc' = "kmain",
         \A n \in DOMAIN image.segments : Copied(n)' => Copied(n)
  PROVE  WordsInv'
BY DEF WordsInv, AsLinked

LEMMA WordsStep ==
  ASSUME InHand, WordsInv, [ImageNext]_image_vars
  PROVE  WordsInv'
<1>1. /\ DOMAIN image.segments = 1..Len(image.segments) /\ Len(image.segments) \in Nat
      /\ segment \in 1..Len(image.segments)
  <2>1. image.segments \in Seq(PhdrT)
    BY ImageAssumption DEF InHand
  <2> QED
    BY <2>1 DEF InHand
<1>2. CASE CheckHeaders
  <2>1. CASE lpc' = "hcf"
    BY <2>1 DEF WordsInv
  <2>2. CASE lpc' # "hcf"
    <3>1. /\ lpc = "check" /\ lpc' = "rw" /\ segment' = segment /\ image' = image
          /\ memory' = [w \in 0..(LoadSize - 1) |-> Unset] /\ segment = 1
      BY <1>2, <2>2 DEF CheckHeaders, WordsInv
    <3>2. ASSUME NEW n \in DOMAIN image.segments PROVE ~Copied(n)'
      BY <1>1, <3>1 DEF Copied, Done
    <3>3. DOMAIN memory' = 0..(LoadSize - 1)
      BY <3>1
    <3>4. \A n \in DOMAIN image.segments : FileWords(image.segments[n]) \subseteq DOMAIN memory'
      BY <3>3, AllAllocated
    <3> QED
      BY <3>1, <3>2, <3>4 DEF WordsInv
  <2> QED
    BY <2>1, <2>2
<1>3. CASE MakeWritable
  <2>1. lpc = "rw" /\ lpc' = "copy" /\ UNCHANGED <<image, segment, memory>>
    BY <1>3 DEF MakeWritable
  <2>2. \A n \in DOMAIN image.segments : Copied(n)' => Copied(n)
    BY <2>1 DEF Copied, Done
  <2> QED
    BY <2>1, <2>2, WordsStay
<1>4. CASE CopySegment
  <2>1. lpc = "copy" /\ lpc' = "flags" /\ image' = image /\ segment' = segment
    BY <1>4 DEF CopySegment
  <2>2. memory' = [w \in DOMAIN memory |->
          IF w \in FileWords(Phdr) THEN [file |-> Phdr.offset + (w - Phdr.paddr), bases |-> 0] ELSE memory[w]]
    BY <1>4 DEF CopySegment
  <2>3. ASSUME NEW n \in DOMAIN image.segments
        PROVE  FileWords(image.segments[n]) \subseteq DOMAIN memory /\ (Copied(n) => AsLinked(n))
    BY <2>1 DEF WordsInv
  <2>4. ASSUME NEW n \in DOMAIN image.segments, Copied(n)', NEW w \in FileWords(image.segments[n])
        PROVE  memory'[w] = [file |-> image.segments[n].offset + (w - image.segments[n].paddr), bases |-> 0]
    <3>1. CASE n = segment
      BY <2>2, <2>3, <2>4, <3>1, Zenon DEF Phdr
    <3>2. CASE n # segment
      <4>1. Copied(n)
        BY <2>1, <2>4, <3>2 DEF Copied, Done
      <4>2. memory[w] = [file |-> image.segments[n].offset + (w - image.segments[n].paddr), bases |-> 0]
        BY <2>1, <2>3, <2>4, <4>1 DEF AsLinked
      <4>3. w \notin FileWords(Phdr)
        <5>1. FileWords(image.segments[n]) \intersect FileWords(image.segments[segment]) = {}
          BY <3>2, ImageAssumption DEF InHand
        <5> QED
          BY <2>4, <5>1 DEF Phdr
      <4> QED
        BY <2>2, <2>3, <2>4, <4>2, <4>3
    <3> QED
      BY <3>1, <3>2
  <2> QED
    BY <2>1, <2>2, <2>3, <2>4 DEF WordsInv, AsLinked
<1>5. CASE SetSegmentFlags
  <2>1. lpc = "flags" /\ lpc' \in {"rw", "relr"} /\ UNCHANGED <<image, memory>>
    BY <1>5 DEF SetSegmentFlags
  <2>2. ASSUME NEW n \in DOMAIN image.segments PROVE Copied(n)' => Copied(n)
    <3>1. n \in Nat /\ n <= Len(image.segments) /\ segment \in Nat
      BY <1>1
    <3>2. CASE segment < Len(image.segments)
      <4>1. segment' = segment + 1 /\ lpc' = "rw"
        BY <1>5, <3>2 DEF SetSegmentFlags
      <4>2. n < segment + 1 => n < segment \/ n = segment
        BY <3>1
      <4> QED
        BY <2>1, <4>1, <4>2 DEF Copied, Done
    <3>3. CASE ~(segment < Len(image.segments))
      <4>1. n < segment \/ n = segment
        BY <1>1, <3>1, <3>3
      <4> QED
        BY <2>1, <4>1 DEF Copied, Done
    <3> QED
      BY <3>2, <3>3
  <2> QED
    BY <2>1, <2>2, WordsStay
<1>6. CASE Kstart
  <2>1. lpc = "relr" /\ lpc' = "kmain" /\ image' = image /\ segment' = segment
    BY <1>6 DEF Kstart
  <2>2. ASSUME NEW n \in DOMAIN image.segments
        PROVE  FileWords(image.segments[n]) \subseteq DOMAIN memory /\ AsLinked(n)
    BY <2>1 DEF WordsInv, Copied, Done
  <2> DEFINE Places(w) == {i \in DOMAIN image.relr : image.relr[i].kind = "address" /\ image.relr[i].where = w}
             Linked(w) == \E j \in DOMAIN image.relr : image.relr[j] = [kind |-> "address", where |-> w]
  <2>3. memory' = [w \in DOMAIN memory |-> [memory[w] EXCEPT !.bases = @ + Cardinality(Places(w))]]
    BY <1>6 DEF Kstart
  <2>4. ASSUME NEW n \in DOMAIN image.segments, NEW w \in FileWords(image.segments[n])
        PROVE  memory'[w] = [file |-> image.segments[n].offset + (w - image.segments[n].paddr),
                             bases |-> IF Linked(w) THEN 1 ELSE 0]
    <3>1. w \in Nat
      <4>1. image.segments[n] \in PhdrT
        BY SegmentFacts DEF InHand
      <4> QED
        BY <2>4, <4>1 DEF FileWords, PhdrT
    <3>2. PICK c : c = Cardinality(Places(w)) /\ c = IF Linked(w) THEN 1 ELSE 0
      BY <3>1, BaseOnce
    <3> HIDE DEF Places, Linked
    <3>3. PICK f : f = image.segments[n].offset + (w - image.segments[n].paddr)
      OBVIOUS
    <3>4. memory[w] = [file |-> f, bases |-> 0] /\ w \in DOMAIN memory
      BY <2>1, <2>2, <2>4, <3>3 DEF AsLinked
    <3>5. memory'[w] = [memory[w] EXCEPT !.bases = @ + c]
      BY <2>3, <3>2, <3>4, Zenon
    <3>6. 0 + c = c
      BY <3>2
    <3>7. [[file |-> f, bases |-> 0] EXCEPT !.bases = @ + c] = [file |-> f, bases |-> c]
      BY <3>6
    <3>8. memory'[w] = [file |-> f, bases |-> c]
      BY <3>4, <3>5, <3>7
    <3> QED
      BY <3>2, <3>3, <3>8
  <2>5. ASSUME NEW n \in DOMAIN image.segments PROVE AsLinked(n)'
    BY <2>1, <2>4, Zenon DEF AsLinked
  <2>6. DOMAIN memory' = DOMAIN memory
    BY <2>3
  <2> QED
    BY <2>1, <2>2, <2>5, <2>6 DEF WordsInv
<1>7. CASE UNCHANGED load_vars
  <2>1. UNCHANGED <<image, lpc, segment, memory>>
    BY <1>7 DEF load_vars
  <2> QED
    BY <2>1 DEF WordsInv, AsLinked, Copied, Done
<1> QED
  BY <1>2, <1>3, <1>4, <1>5, <1>6, <1>7 DEF ImageNext, LoaderMapElf, image_vars

-----------------------------------------------------------------------------
(* loader_map_elf and vprotect (entry.c, paging.c of the prekernel) and    *)
(* _kstart (entry.s): from its entry on the kernel is in memory as it was  *)
(* linked (but for the words that a bitmap of DT_RELR names), with         *)
(* the permissions it was linked with, through the change to tables of its *)
(* own and whatever it adds to them.                                       *)
THEOREM ImageIsLoadedTheorem == ImageSpec => []ImageIsLoaded
<1>1. ImageInit => LoadInv /\ WordsInv /\ CopyInv
  <2>1. ImageInit => lpc = "check" /\ segment = 1 /\ stage = "boot"
    BY DEF ImageInit, PagingInit
  <2> QED
    BY <2>1, LoadingInit DEF LoadInv, WordsInv, CopyInv
<1>2. ImageInv /\ CopyInv /\ [ImageNext]_image_vars => CopyInv'
  BY CopyNext
<1>3. ImageInv => TablesType
  BY DEF ImageInv, PagingInv
<1>4. ImageInv /\ TablesType' /\ UseInv /\ CopyInv /\ LoadInv /\ WordsInv /\ [ImageNext]_image_vars
        => LoadInv' /\ WordsInv'
  BY LoadStep, WordsStep DEF LoadInv
<1>5. LoadInv /\ WordsInv => ImageIsLoaded
  <2> SUFFICES ASSUME LoadInv, WordsInv, lpc = "kmain"
               PROVE  \A n \in DOMAIN image.segments :
                        LET s == image.segments[n] IN
                        /\ \A p \in SegmentPages(image, s) : \E x \in Translate(tables, cr3, p) :
                             /\ x.page = p
                             /\ "exec" \in s.flags => ~x.nx
                             /\ "write" \in s.flags => x.write
                        /\ \A w \in FileWords(s) :
                             /\ memory[w].file = s.offset + (w - s.paddr)
                             /\ ~NamedBy("bitmap", w) =>
                                  memory[w].bases = IF NamedBy("address", w) THEN 1 ELSE 0
    BY DEF ImageIsLoaded
  <2>1. TAKE n \in DOMAIN image.segments
  <2>2. \A p \in SegmentPages(image, image.segments[n]) :
          Serves(image.segments[n], p, Translate(tables, cr3, p))
    BY DEF LoadInv, PagesFound
  <2>3. AsLinked(n)
    BY DEF WordsInv, Copied, Done
  <2>4. ASSUME NEW w \in FileWords(image.segments[n])
        PROVE  /\ memory[w].file = image.segments[n].offset + (w - image.segments[n].paddr)
               /\ memory[w].bases = IF NamedBy("address", w) THEN 1 ELSE 0
    <3>1. memory[w] = [file  |-> image.segments[n].offset + (w - image.segments[n].paddr),
                       bases |-> IF NamedBy("address", w) THEN 1 ELSE 0]
      BY <2>3, <2>4, Zenon DEF AsLinked, NamedBy
    <3> QED
      BY <3>1
  <2> QED
    BY <2>2, <2>4, Zenon DEF Serves
<1> QED
  BY <1>1, <1>2, <1>3, <1>4, <1>5, ImageInvariant, UseInvariant, PTL DEF ImageSpec

=============================================================================
