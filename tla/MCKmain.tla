------------------------------ MODULE MCKmain ------------------------------
(***************************************************************************)
(* Machines with one or two I/O APICs, of which the first in the table has *)
(* the keyboard, between records of other kinds: newer ones with an XSDT   *)
(* and 64-bit addresses, and older ones. Every machine has a MADT and a    *)
(* FADT, in either order. What the loader provides varies little by       *)
(* little, in memory that is zero or not.                                  *)
(***************************************************************************)
EXTENDS Kmain, TLC

Record(type, address, base) == [type |-> type, address |-> address, gsi_base |-> base]
Processor == Record(0, Null, 0)
Override == Record(2, Null, 0)
Ioapic1 == Record(IoApic, 80, 0)
Ioapic2 == Record(IoApic, 88, 24)

Madts == {[signature |-> "APIC", local_apic |-> 160, records |-> r] :
            r \in {<<Ioapic1>>, <<Processor, Ioapic1, Override>>,
                   <<Processor, Ioapic1, Override, Ioapic2>>}}
Fadt32 == [signature |-> "FACP", fwctl |-> 8, dsdt |-> 17, extended |-> FALSE,
           xfirmware_ctrl |-> 0, xdsdt |-> 0, length |-> 7]
Fadt64 == [signature |-> "FACP", fwctl |-> 8, dsdt |-> 16, extended |-> TRUE,
           xfirmware_ctrl |-> 0, xdsdt |-> 240, length |-> 20]
Other == [signature |-> "OTHR"]

MCMachines == {[has_xsdt |-> TRUE, xsdt |-> <<m, Other, Fadt64>>, rsdt |-> <<>>] : m \in Madts}
              \union {[has_xsdt |-> FALSE, xsdt |-> <<>>, rsdt |-> <<Fadt32, m>>] : m \in Madts}

Good == [mode_count |-> 1, new_rsdp |-> TRUE, tsc_freq |-> 3, features |-> {"rdrand", "tsc"},
         max_leaf |-> 13, leaf15_eax |-> 0, memory |-> TRUE, links |-> TRUE, bss |-> 0]

Changes == {"mode_count" :> 0, "mode_count" :> 2 @@ "links" :> FALSE, "tsc_freq" :> 0,
            "features" :> {} @@ "links" :> FALSE,
            "features" :> {"rdseed", "rdrand", "tsc"} @@ "max_leaf" :> 22,
            "features" :> {"tsc"} @@ "max_leaf" :> 22 @@ "leaf15_eax" :> 2,
            "memory" :> FALSE}
MCLoaders == {Good} \union {c @@ Good : c \in Changes}
               \union {c @@ ("bss" :> 9) @@ Good : c \in {"tsc_freq" :> 0, "features" :> {}}}
               \union {[Good EXCEPT !.new_rsdp = FALSE, !.bss = bss] : bss \in {0, 9}}
=============================================================================
