-------------------------------- MODULE Heap --------------------------------
(***************************************************************************)
(* The kernel's bump heap (kernel/src/common/memory.c).                    *)
(*                                                                         *)
(* init_heap takes the largest usable entry of the boot memory map as the  *)
(* heap; aligned_alloc moves one pointer through it; free does nothing.    *)
(* Memory is abstracted to addresses: a block is where it starts and how   *)
(* many bytes its caller was promised.                                     *)
(***************************************************************************)
EXTENDS Integers, Sequences

CONSTANTS
  MemMaps,      \* the memory maps the prekernel may hand over, each a
                \* sequence of [base, length, type] entries
  HhdmOffset,   \* AT_KXINIX_HHDM_OFFSET: where physical memory is mapped
  SizeMax,      \* SIZE_MAX, the largest size_t
  Alignments,   \* alignments the callers ask for
  MaxAlign,     \* alignof(max_align_t), what malloc asks for
  Sizes,        \* sizes (and element counts) the callers ask for
  MaxBlocks     \* bound on the number of blocks handed out

Usable == "usable"
Entry == [base : Nat, length : Nat, type : {Usable, "other"}]

ASSUME MemMapsAssumption ==
  /\ MemMaps \subseteq Seq(Entry)
  /\ HhdmOffset \in Nat
ASSUME SizesAssumption ==
  /\ SizeMax \in Nat
  /\ Sizes \subseteq 0..SizeMax
  /\ Alignments \subseteq Nat \ {0}
  /\ MaxAlign \in Alignments
  /\ MaxBlocks \in Nat
(* Alignments are powers of two, so the largest is a multiple of each. *)
Widest(b) == b \in Alignments /\ \A a \in Alignments : \E k \in 1..b : b = a * k
ASSUME WidestAssumption == \E b \in Alignments : Widest(b)
(* Physical memory is mapped far enough below the end of the address space *)
(* that rounding its end up cannot wrap.                                   *)
ASSUME NoWrapAssumption ==
  \A m \in MemMaps : \A i \in DOMAIN m : \A a \in Alignments :
    HhdmOffset + m[i].base + m[i].length + a <= SizeMax

VARIABLES
  memory_map,   \* the memory map of this boot
  bump_heap_ptr,
  bump_heap_limit,
  phase,        \* "boot" before init_heap, then "running" or "halted"
  blocks        \* every block handed out so far: [start, size, align]

vars == <<memory_map, bump_heap_ptr, bump_heap_limit, phase, blocks>>

-----------------------------------------------------------------------------
(* Faulty variant: reserved memory counts as well. *)
IsLargestOfAll(i) ==
  /\ memory_map[i].length > 0
  /\ \A j \in DOMAIN memory_map :
       \/ memory_map[j].length < memory_map[i].length
       \/ memory_map[j].length = memory_map[i].length /\ i <= j

(* The heap: the first of the longest usable entries. *)
IsLargest(i) ==
  /\ memory_map[i].type = Usable
  /\ memory_map[i].length > 0
  /\ \A j \in DOMAIN memory_map :
       memory_map[j].type = Usable =>
         \/ memory_map[j].length < memory_map[i].length
         \/ memory_map[j].length = memory_map[i].length /\ i <= j

(* Faulty variant: rounding down. *)
AlignDown(addr, alignment) == (addr \div alignment) * alignment

AlignUp(addr, alignment) == ((addr + alignment - 1) \div alignment) * alignment

(* The test as the code writes it: the size is compared with what is left, *)
(* never added to an address, so no size can wrap around.                  *)
Fits(ptr, size) ==
  /\ ptr <= bump_heap_limit
  /\ bump_heap_limit - ptr >= size

Init ==
  /\ memory_map \in MemMaps
  /\ bump_heap_ptr = 0
  /\ bump_heap_limit = 0
  /\ phase = "boot"
  /\ blocks = <<>>

InitHeap ==
  /\ phase = "boot"
  /\ \E i \in DOMAIN memory_map :
       /\ IsLargest(i)
       /\ bump_heap_ptr' = HhdmOffset + memory_map[i].base
       /\ bump_heap_limit' = HhdmOffset + memory_map[i].base + memory_map[i].length
  /\ phase' = "running"
  /\ UNCHANGED <<memory_map, blocks>>

(* No usable memory: the kernel halts for good. *)
InitHeapHalts ==
  /\ phase = "boot"
  /\ ~ \E i \in DOMAIN memory_map : IsLargest(i)
  /\ phase' = "halted"
  /\ UNCHANGED <<memory_map, bump_heap_ptr, bump_heap_limit, blocks>>

(* aligned_alloc(alignment, size), called for an object of "want" bytes. *)
(* The pointer is aligned even when the request then fails.              *)
AllocFor(want, alignment, size) ==
  LET result == AlignUp(bump_heap_ptr, alignment) IN
  /\ phase = "running"
  /\ Len(blocks) < MaxBlocks
  /\ \/ /\ Fits(result, size)
        /\ bump_heap_ptr' = result + size
        /\ blocks' = Append(blocks, [start |-> result, size |-> want,
                                     align |-> alignment])
     \/ /\ ~ Fits(result, size)
        /\ bump_heap_ptr' = result
        /\ UNCHANGED blocks
  /\ UNCHANGED <<memory_map, bump_heap_limit, phase>>

AlignedAlloc(alignment, size) == AllocFor(size, alignment, size)

Malloc(size) == AlignedAlloc(MaxAlign, size)

(* The product of calloc stays below SIZE_MAX. *)
CallocAccepts(num, size) ==
  /\ num # 0 /\ size # 0
  /\ SizeMax \div num >= size

Calloc(num, size) ==
  /\ CallocAccepts(num, size)
  /\ AllocFor(num * size, MaxAlign, (num * size) % (SizeMax + 1))

Next ==
  \/ InitHeap
  \/ InitHeapHalts
  \/ \E a \in Alignments, s \in Sizes : AlignedAlloc(a, s)
  \/ \E s \in Sizes : Malloc(s)
  \/ \E n \in Sizes, s \in Sizes : Calloc(n, s)

Spec == Init /\ [][Next]_vars

-----------------------------------------------------------------------------
Block == [start : Nat, size : 0..SizeMax, align : Alignments]

End(b) == b.start + b.size

(* Type invariant: addresses are addresses, and a block promises no more   *)
(* bytes than a size_t can say.                                            *)
TypeOK ==
  /\ memory_map \in MemMaps
  /\ bump_heap_ptr \in 0..SizeMax
  /\ bump_heap_limit \in 0..SizeMax
  /\ phase \in {"boot", "running", "halted"}
  /\ blocks \in Seq(Block)

(* Every block handed out lies, with all the bytes its caller was promised,*)
(* inside one usable entry of the memory map: never in memory the map      *)
(* gives to somebody else, whatever sizes were asked for and however many  *)
(* requests failed before.                                                 *)
BlocksInHeap ==
  blocks # <<>> =>
    \E i \in DOMAIN memory_map :
      /\ IsLargest(i)
      /\ \A k \in DOMAIN blocks :
           /\ HhdmOffset + memory_map[i].base <= blocks[k].start
           /\ End(blocks[k]) <= HhdmOffset + memory_map[i].base + memory_map[i].length

(* No byte belongs to two blocks, at any time after any number of calls.   *)
BlocksDisjoint ==
  \A k, l \in DOMAIN blocks :
    k # l => End(blocks[k]) <= blocks[l].start \/ End(blocks[l]) <= blocks[k].start
=============================================================================
