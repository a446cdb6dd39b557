------------------------------ MODULE BootMap ------------------------------
(***************************************************************************)
(* The memory map on its way from the boot loader to the kernel's heap:    *)
(* find_and_init_alloc and pkmain (prekernel/limine/src/main.c) over the   *)
(* prekernel's allocator (prekernel/shared/src/alloc.c), loader_map_elf    *)
(* and call_kmain (prekernel/shared/src/entry.c). One boot is one run,     *)
(* step by step, until the kernel is called; module Boot goes on from      *)
(* there.                                                                  *)
(*                                                                         *)
(* Addresses count in an arbitrary unit, and lengths wrap at Width as      *)
(* uint64_t does. Virtual and physical addresses of the allocator move     *)
(* together, so one position stands for both.                              *)
(***************************************************************************)
EXTENDS Integers, Sequences

CONSTANTS
  FirmwareMaps,  \* the maps the boot loader may hand over
  NameSizes,     \* the sizes of the kernel's path
  ImageSizes,    \* the sizes of the kernel's image in memory
  ENTRY_SIZE,    \* sizeof(memmap_entry)
  PAGE,          \* 4096
  HACK,          \* the 0x1000000 of call_kmain
  Width          \* 2^64

ASSUME BootAssumption ==
  /\ ENTRY_SIZE \in Nat
  /\ PAGE \in Nat \ {0}
  /\ HACK \in Nat
  /\ Width \in Nat \ {0}
  /\ NameSizes \subseteq Nat
  /\ ImageSizes \subseteq Nat

VARIABLES
  step,              \* the next step of the boot
  firmware,          \* the map of the boot loader
  entries,           \* the map for the kernel
  alloc_area_start,
  alloc_pos

prekernel == <<step, firmware, entries, alloc_area_start, alloc_pos>>

None == -1

PrekernelInit ==
  /\ step = "alloc"
  /\ firmware \in FirmwareMaps
  /\ entries = <<>>
  /\ alloc_area_start = None
  /\ alloc_pos = None

-----------------------------------------------------------------------------
RoundUp(addr, alignment) == ((addr + alignment - 1) \div alignment) * alignment

(* The first of the largest usable entries, as a set of one, or none.      *)
LargestUsable(map) ==
  {i \in DOMAIN map :
     /\ map[i].type = "usable"
     /\ map[i].length > 0
     /\ \A j \in DOMAIN map :
          map[j].type = "usable" =>
            map[j].length < map[i].length \/ (map[j].length = map[i].length /\ i <= j)}

FirmwareEntry == [base : Nat, length : 1..(Width - 1), type : {"usable", "reserved"}]

Apart(d, e) == d.base + d.length <= e.base \/ e.base + e.length <= d.base

(* What the boot loader promises of its map: no entry is empty, and usable *)
(* memory is nothing else (the types that are not usable are one here, and *)
(* their entries may overlap each other).                                  *)
ASSUME FirmwareAssumption ==
  /\ FirmwareMaps \subseteq Seq(FirmwareEntry)
  /\ \A map \in FirmwareMaps : \A i, j \in DOMAIN map :
       i # j /\ map[i].type = "usable" => Apart(map[i], map[j])

(* What the prekernel has used when it writes the map, from at on.         *)
UsedAt(at, name, n) == RoundUp(at + name + ENTRY_SIZE * (n + 1), PAGE) - at

(* What the prekernel relies on without a test: the largest entry has room *)
(* for all of it and the fixed reservation, and that for the image (TODO:  *)
(* use size to set an upper bound, alloc.c:8; Dirty hack, entry.c:124).    *)
ASSUME RoomAssumption ==
  /\ \A map \in FirmwareMaps, name \in NameSizes : \A i \in LargestUsable(map) :
       UsedAt(map[i].base, name, Len(map)) + HACK <= map[i].length
  /\ \A size \in ImageSizes : RoundUp(size, PAGE) <= HACK

Halt ==
  /\ step' = "halted"
  /\ UNCHANGED <<firmware, entries, alloc_area_start, alloc_pos>>

(* find_and_init_alloc *)
FindAndInitAlloc ==
  /\ step = "alloc"
  /\ LargestUsable(firmware) # {}
  /\ \E i \in LargestUsable(firmware) :
       /\ alloc_area_start' = firmware[i].base
       /\ alloc_pos' = firmware[i].base
  /\ step' = "name"
  /\ UNCHANGED <<firmware, entries>>

NoMemoryToAlloc ==
  /\ step = "alloc"
  /\ LargestUsable(firmware) = {}
  /\ Halt

(* malloc of the kernel's name; its alignment is within the units.         *)
CopyName ==
  /\ step = "name"
  /\ \E size \in NameSizes : alloc_pos' = alloc_pos + size
  /\ step' = "map"
  /\ UNCHANGED <<firmware, entries, alloc_area_start>>

(* Faulty variant: what comes after the split entry is not moved up.       *)
SplitNoShift(map, at, used) ==
  LET k == CHOOSE i \in DOMAIN map : map[i].base = at
  IN  [i \in 1..(Len(map) + 1) |->
         CASE i = k -> [base |-> at, length |-> used, type |-> "prekernel"]
           [] i = Len(map) + 1 -> [base |-> at + used, type |-> "usable",
                                   length |-> (map[k].length - used) % Width]
           [] OTHER -> map[i]]

(* The entry the allocator works in becomes two: what it has used, and the *)
(* rest. The others stay as they are.                                      *)
Split(map, at, used) ==
  LET k == CHOOSE i \in DOMAIN map : map[i].base = at
  IN  [i \in 1..(Len(map) + 1) |->
         CASE i < k -> map[i]
           [] i = k -> [base |-> at, length |-> used, type |-> "prekernel"]
           [] i = k + 1 -> [base |-> at + used, type |-> "usable",
                            length |-> (map[k].length - used) % Width]
           [] OTHER -> map[i - 1]]

(* pkmain: the array for the map is allocated first, so that it is within  *)
(* what the map says is used.                                              *)
MakeMap ==
  /\ step = "map"
  /\ alloc_pos' = alloc_pos + ENTRY_SIZE * (Len(firmware) + 1)
  /\ entries' = Split(firmware, alloc_area_start,
                      RoundUp(alloc_pos', PAGE) - alloc_area_start)
  /\ step' = "elf"
  /\ UNCHANGED <<firmware, alloc_area_start>>

(* loader_map_elf: the kernel's image is allocated, after the map was made.*)
MapElf ==
  /\ step = "elf"
  /\ \E size \in ImageSizes :
       alloc_pos' = RoundUp(alloc_pos, PAGE) + RoundUp(size, PAGE)
  /\ step' = "reserve"
  /\ UNCHANGED <<firmware, entries, alloc_area_start>>

(* Faulty variant: the reserved block grows, the usable one does not shrink.*)
ReserveGrowOnly(map, i) == [map EXCEPT ![i].length = @ + HACK]

Reserve(map, i) ==
  [map EXCEPT ![i].length = @ + HACK,
              ![i + 1].base = @ + HACK,
              ![i + 1].length = (@ - HACK) % Width]

(* call_kmain: a fixed amount is moved from the usable rest to the block   *)
(* of the prekernel, for the image.                                        *)
ReserveForKernel ==
  /\ step = "reserve"
  /\ \E i \in DOMAIN entries :
       /\ entries[i].type = "prekernel"
       /\ entries' = Reserve(entries, i)
  /\ step' = "kernel"
  /\ UNCHANGED <<firmware, alloc_area_start, alloc_pos>>

PrekernelNext ==
  \/ FindAndInitAlloc \/ NoMemoryToAlloc
  \/ CopyName
  \/ MakeMap
  \/ MapElf
  \/ ReserveForKernel

PrekernelSpec == PrekernelInit /\ [][PrekernelNext]_prekernel

-----------------------------------------------------------------------------
Cells(e) == e.base..(e.base + e.length - 1)
UsableCells(map) == UNION {Cells(map[i]) : i \in {j \in DOMAIN map : map[j].type = "usable"}}
Allocated == alloc_area_start..(alloc_pos - 1)

(* The map is still a map of the machine after the entry was split and the *)
(* rest moved: what somebody may use overlaps no other entry, and together *)
(* the entries cover what the boot loader's map covered. And what the      *)
(* kernel is told is usable is usable, and nothing that the prekernel has  *)
(* allocated is in it: neither the name, nor the map, nor the image of the *)
(* kernel. (main.c:167-168: or else the kernel will be told some memory is *)
(* usable that definitely is not.)                                         *)
MapIsTrue ==
  /\ entries # <<>> =>
       /\ \A i, j \in DOMAIN entries :
            i # j /\ entries[i].type \in {"usable", "prekernel"} =>
              Cells(entries[i]) \intersect Cells(entries[j]) = {}
       /\ UNION {Cells(entries[i]) : i \in DOMAIN entries}
            = UNION {Cells(firmware[i]) : i \in DOMAIN firmware}
  /\ step = "kernel" =>
       /\ UsableCells(entries) \subseteq UsableCells(firmware)
       /\ UsableCells(entries) \intersect Allocated = {}
=============================================================================
