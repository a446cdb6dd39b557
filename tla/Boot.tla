-------------------------------- MODULE Boot --------------------------------
(***************************************************************************)
(* The prekernel (BootMap) and the kernel's heap (Heap) on one machine:    *)
(* the array that call_kmain hands over by the auxiliary vector            *)
(* (AT_KXINIX_MEMMAP) is the map in which init_heap looks for the heap.    *)
(* Both sides are taken as they are; only the handing over is added.       *)
(***************************************************************************)
EXTENDS Heap, BootMap

(* The map as the kernel reads it, for which an entry is usable or not.    *)
Read(map) ==
  [i \in DOMAIN map |->
     [map[i] EXCEPT !.type = IF @ = "usable" THEN Usable ELSE "other"]]

(* There is no kernel yet, and no map for it.                              *)
BootInit ==
  /\ PrekernelInit
  /\ Init /\ memory_map = <<>>

(* The prekernel's steps; none but the last touches the kernel.            *)
LoadKernel ==
  /\ \/ FindAndInitAlloc
     \/ NoMemoryToAlloc
     \/ CopyName
     \/ MakeMap
     \/ MapElf
  /\ UNCHANGED vars

CallKmain ==
  /\ ReserveForKernel
  /\ memory_map' = Read(entries')
  /\ UNCHANGED <<bump_heap_ptr, bump_heap_limit, phase, blocks>>

(* From then on the kernel runs alone.                                     *)
Kernel ==
  /\ step = "kernel"
  /\ Next
  /\ UNCHANGED prekernel

BootNext == LoadKernel \/ CallKmain \/ Kernel

BootSpec == BootInit /\ [][BootNext]_<<vars, prekernel>>

-----------------------------------------------------------------------------
(* No block that the kernel's heap hands out, whatever its size and what   *)
(* was asked for before, overlaps what the prekernel has allocated (the    *)
(* kernel's image, the memory map and the name, all still in use) or       *)
(* memory that the boot loader did not call usable.                        *)
BlocksAreFree ==
  \A k \in DOMAIN blocks :
    LET bytes == {a - HhdmOffset : a \in blocks[k].start..(End(blocks[k]) - 1)}
    IN  /\ bytes \subseteq UsableCells(firmware)
        /\ bytes \intersect Allocated = {}
=============================================================================
