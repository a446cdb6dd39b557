-------------------------------- MODULE Acpi --------------------------------
(***************************************************************************)
(* The ACPI tables and the I/O APIC (kernel/src/common/acpi.c): one step   *)
(* for each table and for each record of the MADT in either pass.          *)
(*                                                                         *)
(* Addresses and lengths are in units of 512 bytes, add_to_hhdm (module    *)
(* PageTable) is known by the pages it has mapped, a pointer by the        *)
(* address behind it. The records of a MADT have no length here: each is   *)
(* the next (a length of zero is left out; see the README).                *)
(***************************************************************************)
EXTENDS Naturals, Sequences, FiniteSets

CONSTANT
  Machines   \* [has_xsdt, xsdt, rsdt]; the last two are sequences of tables:
             \* [signature |-> "APIC", local_apic, records],
             \* [signature |-> "FACP", fwctl, dsdt, extended, xfirmware_ctrl,
             \*  xdsdt, length], or [signature |-> "OTHR"]

Null == 0
IoApic == 1      \* the type of a MADT record

Root(m) == IF m.has_xsdt THEN m.xsdt ELSE m.rsdt
IsMadt(table) == table.signature = "APIC"
IsIoapic(record) == record.type = IoApic
IsList(s) == s \in Seq({s[i] : i \in DOMAIN s})

(* What the root table of a machine lists: there is a MADT in it, and it   *)
(* says where the local APIC is.                                           *)
ASSUME MachinesAssumption == \A m \in Machines :
  LET root == Root(m) IN
  /\ IsList(root)
  /\ \E i \in DOMAIN root : IsMadt(root[i])
  /\ \A i \in DOMAIN root : IsMadt(root[i]) => root[i].local_apic # Null

(* There is no other MADT, and each I/O APIC in it has an address.         *)
ASSUME MadtAssumption == \A m \in Machines :
  LET root == Root(m) IN
  \A i \in DOMAIN root : IsMadt(root[i]) =>
    /\ \A j \in DOMAIN root : IsMadt(root[j]) => i = j
    /\ IsList(root[i].records)
    /\ \A j \in DOMAIN root[i].records :
         IsIoapic(root[i].records[j]) => root[i].records[j].address # Null

VARIABLES
  machine,
  apc,           \* "root", "table", "count", "populate" or "done"
  tables,        \* those still to be handled
  madt,          \* the records of the present MADT
  pos,
  num_ioapics,
  ioapics,       \* the array: [register_base, gsi_base]
  lapic,         \* ctx->lapic
  fadt, facs, dsdt,
  mapped,        \* the pages that were added to the HHDM
  redirect       \* what was written for pin 1: [ioapic, vector, destination]
madt_vars == <<madt, pos, num_ioapics, ioapics, lapic>>
fadt_vars == <<fadt, facs, dsdt>>
acpi_vars == <<machine, apc, tables, madt_vars, fadt_vars, mapped, redirect>>

Page(address) == address \div 8

AcpiInit ==
  /\ machine \in Machines
  /\ apc = "root"
  /\ tables = <<>> /\ madt = <<>> /\ pos = 0
  /\ num_ioapics = 0 /\ ioapics = <<>>
  /\ lapic = Null /\ fadt = Null /\ facs = Null /\ dsdt = Null
  /\ mapped = {}
  /\ redirect = [ioapic |-> Null, vector |-> 0, destination |-> Null]

(* load_xsdt if there is an address of an XSDT, load_rsdt if not. *)
LoadRoot(xsdt_addr) ==
  /\ apc = "root"
  /\ tables' = IF xsdt_addr # Null THEN machine.xsdt ELSE machine.rsdt
  /\ apc' = "table"
  /\ UNCHANGED <<machine, madt_vars, fadt_vars, mapped, redirect>>

HandleSdt(signature) ==
  /\ apc = "table" /\ tables # <<>>
  /\ Head(tables).signature = signature
  /\ tables' = Tail(tables)
  /\ UNCHANGED <<machine, redirect>>

OtherSdt == HandleSdt("OTHR") /\ UNCHANGED <<apc, madt_vars, fadt_vars, mapped>>

-----------------------------------------------------------------------------
(* load_madt: the local APIC, then the first pass, *)
LoadMadt ==
  /\ HandleSdt("APIC")
  /\ lapic' = Head(tables).local_apic
  /\ mapped' = mapped \union {Page(lapic')}
  /\ madt' = Head(tables).records
  /\ pos' = 1
  /\ apc' = "count"
  /\ UNCHANGED <<num_ioapics, ioapics, fadt_vars>>

CountRecord ==
  /\ apc = "count" /\ pos <= Len(madt)
  /\ num_ioapics' = IF IsIoapic(madt[pos]) THEN num_ioapics + 1 ELSE num_ioapics
  /\ pos' = pos + 1
  /\ UNCHANGED <<machine, apc, tables, madt, ioapics, lapic, fadt_vars, mapped, redirect>>

(* Faulty variant: the count is not reset before it is reused. *)
AllocIoapicsOnly ==
  /\ apc = "count" /\ pos > Len(madt)
  /\ ioapics' = [i \in 1..num_ioapics |-> [register_base |-> Null, gsi_base |-> 0]]
  /\ pos' = 1
  /\ apc' = "populate"
  /\ UNCHANGED <<machine, tables, madt, num_ioapics, lapic, fadt_vars, mapped, redirect>>

(* the array (with the count reused), *)
AllocIoapics ==
  /\ apc = "count" /\ pos > Len(madt)
  /\ ioapics' = [i \in 1..num_ioapics |-> [register_base |-> Null, gsi_base |-> 0]]
  /\ num_ioapics' = 0
  /\ pos' = 1
  /\ apc' = "populate"
  /\ UNCHANGED <<machine, tables, madt, lapic, fadt_vars, mapped, redirect>>

(* and the second pass; the other records are only printed. *)
PopulateRecord ==
  /\ apc = "populate" /\ pos <= Len(madt)
  /\ LET record == madt[pos] IN
     IF IsIoapic(record)
     THEN /\ num_ioapics' = num_ioapics + 1
          /\ ioapics' = [ioapics EXCEPT ![num_ioapics + 1] =
                           [register_base |-> record.address, gsi_base |-> record.gsi_base]]
          /\ mapped' = mapped \union {Page(record.address)}
     ELSE UNCHANGED <<num_ioapics, ioapics, mapped>>
  /\ pos' = pos + 1
  /\ UNCHANGED <<machine, apc, tables, madt, lapic, fadt_vars, redirect>>

MadtEnds ==
  /\ apc = "populate" /\ pos > Len(madt)
  /\ apc' = "table"
  /\ UNCHANGED <<machine, tables, madt_vars, fadt_vars, mapped, redirect>>

-----------------------------------------------------------------------------
(* load_fadt. Of the pages behind the first the loop leaves out one, and   *)
(* takes one too many; the offset it starts from is that within 1 KiB.     *)
DsdtPages(address, length) ==
  LET plen == ((address % 2) + length) \div 8 IN
  {Page(address)} \union {Page(address) + 1 + n : n \in 1..plen}

LoadFadt ==
  /\ HandleSdt("FACP")
  /\ LET table == Head(tables) IN
     /\ fadt' = table
     /\ dsdt' = IF table.extended /\ table.xdsdt # Null THEN table.xdsdt ELSE table.dsdt
     /\ facs' = IF table.extended /\ table.xfirmware_ctrl # Null
                THEN table.xfirmware_ctrl ELSE table.fwctl
     /\ mapped' = mapped \union {Page(facs')} \union DsdtPages(dsdt', table.length)
  /\ UNCHANGED <<apc, madt_vars>>

TablesEnd ==
  /\ apc = "table" /\ tables = <<>>
  /\ apc' = "done"
  /\ UNCHANGED <<machine, tables, madt_vars, fadt_vars, mapped, redirect>>

LoadTables(xsdt_addr) ==
  \/ LoadRoot(xsdt_addr) \/ OtherSdt \/ LoadMadt \/ CountRecord \/ AllocIoapics
  \/ PopulateRecord \/ MadtEnds \/ LoadFadt \/ TablesEnd

-----------------------------------------------------------------------------
(* write_io_redirect of pin 1, always on the first I/O APIC: the vector,   *)
(* with delivery fixed, edge triggered, active high, not masked; and the   *)
(* destination.                                                            *)
WriteLow(int_id) ==
  /\ redirect' = [redirect EXCEPT !.ioapic = ioapics[1].register_base, !.vector = int_id]
  /\ UNCHANGED <<machine, apc, tables, madt_vars, fadt_vars, mapped>>

WriteHigh(destination) ==
  /\ redirect' = [redirect EXCEPT !.destination = destination]
  /\ UNCHANGED <<machine, apc, tables, madt_vars, fadt_vars, mapped>>

-----------------------------------------------------------------------------
(* The I/O APICs among these records of the MADT.                          *)
IoapicsAmong(records) == {i \in records : IsIoapic(madt[i])}

(* The second pass finds a place in the array for each I/O APIC, with the  *)
(* count of the first pass, and leaves none empty; and what is written to, *)
(* in either pass or in the redirection, has been mapped. Whatever tables  *)
(* come first, and with other records in between.                          *)
IoapicsFit ==
  /\ apc = "populate" =>
       Len(ioapics) = num_ioapics + Cardinality(IoapicsAmong(pos..Len(madt)))
  /\ apc \in {"table", "done"} =>
       \A i \in 1..Len(ioapics) : ioapics[i].register_base # Null
  /\ \A i \in 1..num_ioapics :
       apc # "count" => Page(ioapics[i].register_base) \in mapped
=============================================================================
