------------------------------- MODULE Startup -------------------------------
(***************************************************************************)
(* What the kernel is told, and what it makes of it: the auxiliary vector  *)
(* that call_kmain of the prekernel builds (entry.c), and kmain (main.c)   *)
(* from its entry to where the ACPI tables are read. The steps that change *)
(* the processor are completed in Kmain; the page tables, the heap and the *)
(* linking have modules of their own.                                      *)
(*                                                                         *)
(* A pointer is the number of the entry that carries it, and Garbage is    *)
(* what memory holds that nobody has written.                              *)
(***************************************************************************)
EXTENDS Naturals, Sequences

CONSTANTS
  Loaders,    \* what a boot loader and a machine may provide: [mode_count,
              \* new_rsdp,
              \* tsc_freq, features, max_leaf, leaf15_eax, memory, links, bss]
  Garbage

(* auxv.h *)
AT_IGNORE == 1
AT_PAGESZ == 6
AT_BASE == 7
AT_PLATFORM == 8
AT_RANDOM == 26
AT_XINIX_CPU_FEATURES_ARRAY == 80
AT_XINIX_CPU_FEATURES_LEN == 81
AT_KXINIX_FRAMEBUFFER == 96
AT_KXINIX_MEMMAP == 100
AT_KXINIX_HHDM_OFFSET == 101
AT_KXINIX_RSDT_ADDR == 102
AT_KXINIX_XSDT_ADDR == 103
AT_KXINIX_TSC_FREQ == 104
Types == {6, 7, 8, 26, 80, 81, 96, 100, 101, 102, 103, 104}

ASSUME LoadersAssumption == \A l \in Loaders :
  l.bss \in {0, Garbage} /\ l.new_rsdp \in BOOLEAN
  /\ l.tsc_freq \in Nat /\ l.max_leaf \in Nat

VARIABLES
  kpc,         \* what kmain does next
  loader,
  auxv,        \* the rest of the vector
  auxent,      \* __auxent, by index: in .bss, which nothing clears
  features,    \* x86_feature_array
  kgen,        \* what the generator of the context has been fed
  ticks        \* tsc_ticks_per_second
startup_vars == <<kpc, loader, auxv, auxent, features, kgen, ticks>>

StartupInit ==
  /\ loader \in Loaders
  /\ kpc = "prekernel"
  /\ auxv = <<>>
  /\ auxent = [i \in {t - 2 : t \in Types} |-> loader.bss]
  /\ features = {} /\ kgen = "nothing" /\ ticks = 0

-----------------------------------------------------------------------------
Aux(a_type, a_val) == <<[a_type |-> a_type, a_val |-> a_val]>>
Pointer(a_type) == Aux(a_type, a_type)
Optional(present, entry) == IF present THEN entry ELSE <<>>

(* The best source there is, or none. *)
RandSlowGetEntropy(set) ==
  IF "rdseed" \in set THEN "rdseed" ELSE IF "rdrand" \in set THEN "rdrand"
  ELSE IF "tsc" \in set THEN "tsc" ELSE "nothing"

(* What call_kmain says, in its order. *)
Vector(l) ==
  Aux(AT_PAGESZ, 4096) \o Pointer(AT_PLATFORM)
    \o Pointer(AT_XINIX_CPU_FEATURES_ARRAY) \o Aux(AT_XINIX_CPU_FEATURES_LEN, 38)
    \o Optional(RandSlowGetEntropy(l.features) # "nothing", Pointer(AT_RANDOM))
    \o Pointer(AT_KXINIX_HHDM_OFFSET) \o Pointer(AT_KXINIX_MEMMAP) \o Aux(AT_BASE, 0)
    \o Optional(l.tsc_freq # 0, Aux(AT_KXINIX_TSC_FREQ, l.tsc_freq))
    \o Optional(l.mode_count > 0, Pointer(AT_KXINIX_FRAMEBUFFER))
    \o Pointer(AT_KXINIX_RSDT_ADDR)
    \o Optional(l.new_rsdp, Pointer(AT_KXINIX_XSDT_ADDR))

Go(from, to) == kpc = from /\ kpc' = to

CallKmain ==
  /\ Go("prekernel", "auxv")
  /\ auxv' = Vector(loader)
  /\ UNCHANGED <<loader, auxent, features, kgen, ticks>>

(* Faulty variant: the loop ends at a value that is null, not at a type. *)
CopyAuxvToNull ==
  /\ kpc = "auxv"
  /\ IF auxv # <<>> /\ Head(auxv).a_val # 0
     THEN /\ auxent' = [auxent EXCEPT ![Head(auxv).a_type - 2] = Head(auxv).a_val]
          /\ auxv' = Tail(auxv) /\ UNCHANGED kpc
     ELSE kpc' = "features" /\ auxv' = <<>> /\ UNCHANGED auxent
  /\ UNCHANGED <<loader, features, kgen, ticks>>

(* The loop at the entry of kmain; the vector ends with AT_NULL. *)
CopyAuxv ==
  /\ kpc = "auxv"
  /\ IF auxv # <<>>
     THEN /\ auxent' = IF Head(auxv).a_type # AT_IGNORE
                       THEN [auxent EXCEPT ![Head(auxv).a_type - 2] = Head(auxv).a_val]
                       ELSE auxent
          /\ auxv' = Tail(auxv) /\ UNCHANGED kpc
     ELSE kpc' = "features" /\ UNCHANGED <<auxv, auxent>>
  /\ UNCHANGED <<loader, features, kgen, ticks>>

getauxval(a_type) == IF a_type < 2 \/ a_type > 128 THEN 0 ELSE auxent[a_type - 2]

(* init_cpuid_array: all 38 words. *)
InitCpuidArray ==
  /\ Go("features", "mode")
  /\ features' = IF getauxval(AT_XINIX_CPU_FEATURES_ARRAY) = AT_XINIX_CPU_FEATURES_ARRAY
                 THEN loader.features ELSE {}
  /\ UNCHANGED <<loader, auxv, auxent, kgen, ticks>>

(* The kernel reads as many modes as the boot loader counts, the prekernel *)
(* hands over one: of the others some may look larger. Without a           *)
(* framebuffer the structure itself is read at null.                       *)
PickMode ==
  /\ \/ Go("mode", "heap") /\ getauxval(AT_KXINIX_FRAMEBUFFER) = AT_KXINIX_FRAMEBUFFER
     \/ /\ getauxval(AT_KXINIX_FRAMEBUFFER) # AT_KXINIX_FRAMEBUFFER \/ loader.mode_count > 1
        /\ Go("mode", "lost")
  /\ UNCHANGED <<loader, auxv, auxent, features, kgen, ticks>>

(* init_heap *)
StartHeap ==
  /\ Go("heap", "arch")
  /\ UNCHANGED <<loader, auxv, auxent, features, kgen, ticks>>

(* The context and that of the thread: hcf if there is no memory, and as   *)
(* the stub needs the context, there is no way on from it. *)
AllocContexts ==
  /\ \/ loader.memory /\ Go("contexts", "seed")
     \/ ~ loader.memory /\ Go("contexts", "lost")
  /\ UNCHANGED <<loader, auxv, auxent, features, kgen, ticks>>

(* rand_ingest of what AT_RANDOM points to, or rand_init, whose result is  *)
(* not looked at. *)
SeedContext ==
  /\ \/ /\ getauxval(AT_RANDOM) = Garbage
        /\ Go("seed", "lost") /\ UNCHANGED kgen
     \/ /\ getauxval(AT_RANDOM) # Garbage
        /\ Go("seed", "context")
        /\ kgen' = IF getauxval(AT_RANDOM) # 0 THEN RandSlowGetEntropy(loader.features)
                   ELSE RandSlowGetEntropy(features)
  /\ UNCHANGED <<loader, auxv, auxent, features, ticks>>

-----------------------------------------------------------------------------
(* init_tsc, by how it ends. Leaf 0x15 has the ratio ebx / eax; eax must   *)
(* not be zero, and the test for that is the wrong way round.              *)
NoFrequency ==
  \/ loader.max_leaf < 21 /\ getauxval(AT_KXINIX_TSC_FREQ) = 0
  \/ loader.max_leaf >= 21 /\ loader.leaf15_eax # 0

DividesByZero == loader.max_leaf >= 21 /\ loader.leaf15_eax = 0

InitTsc ==
  /\ Go("tsc", "clone")
  /\ ~ NoFrequency /\ ~ DividesByZero
  /\ ticks' = getauxval(AT_KXINIX_TSC_FREQ)
  /\ UNCHANGED <<loader, auxv, auxent, features, kgen>>

(* clone_page_table, and the context's copy of cr3 and cr4. *)
ClonePageTable ==
  /\ Go("clone", "link")
  /\ UNCHANGED <<loader, auxv, auxent, features, kgen, ticks>>

(* dynld_link; the process and the first thread. *)
LinkKernel ==
  /\ Go("link", "tables") /\ loader.links
  /\ UNCHANGED <<loader, auxv, auxent, features, kgen, ticks>>

(* The calls of hcf once there is a context. *)
Fails ==
  \/ kpc = "tsc" /\ NoFrequency
  \/ kpc = "link" /\ ~ loader.links

(* The steps that are kmain's alone. *)
StartupStep ==
  \/ CallKmain \/ CopyAuxv \/ InitCpuidArray \/ PickMode \/ StartHeap
  \/ AllocContexts \/ SeedContext \/ InitTsc \/ ClonePageTable \/ LinkKernel

-----------------------------------------------------------------------------
(* The kernel goes by what the boot loader and the machine have said: each *)
(* entry of the vector is found again under its type, the frequency of the *)
(* TSC is the one given, and the generator of the context is fed from the  *)
(* best source of the machine. Where nothing is said and memory happens to *)
(* be zero, kmain finds nothing; the TSC is never divided by zero.         *)
LoaderIsHeard ==
  /\ kpc \notin {"prekernel", "auxv"} =>
       LET v == Vector(loader) IN
       /\ Len(v) < 16
       /\ \A i \in DOMAIN v : getauxval(v[i].a_type) = v[i].a_val
       /\ \A t \in Types \ {v[i].a_type : i \in DOMAIN v} : getauxval(t) = loader.bss
  /\ kpc = "context" => kgen = RandSlowGetEntropy(loader.features)
  /\ ticks # 0 /\ loader.tsc_freq # 0 => ticks = loader.tsc_freq
  /\ kpc \in {"clone", "link", "tables"} => ticks # 0
=============================================================================
