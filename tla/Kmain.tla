-------------------------------- MODULE Kmain --------------------------------
(***************************************************************************)
(* kmain (kernel/src/common/main.c) as a whole: its first half (Startup),  *)
(* the ACPI tables (Acpi), and the way to the prompt, with the interrupts  *)
(* it lets in (IsrStub) and their handlers: which device may interrupt     *)
(* when, and whether the local APIC hears of the end of it.                *)
(*                                                                         *)
(* kmain is the interrupted thread; it goes on only when no stub runs. Its *)
(* other calls, and what the handlers do with a key or a tick, are in the  *)
(* modules of their components.                                            *)
(***************************************************************************)
EXTENDS IsrStub, Acpi, Startup

VARIABLES
  lvt_timer,    \* the vector of the timer, 0: masked
  spurious,     \* the spurious vector, 0: as the firmware left it
  in_service    \* interrupts that the local APIC has delivered and that
                \* have not been acknowledged
boot_vars == <<startup_vars, lvt_timer, spurious, in_service>>
told_vars == <<loader, auxv, auxent, features, kgen, ticks>>
all_vars == <<vars, acpi_vars, boot_vars>>

KmainInit ==
  /\ Init /\ AcpiInit /\ StartupInit
  /\ loader.new_rsdp = machine.has_xsdt
  /\ lvt_timer = 0 /\ spurious = 0 /\ in_service = {}

-----------------------------------------------------------------------------
Step(from, to) == pc = "thread" /\ Go(from, to) /\ UNCHANGED told_vars

(* The first half, up to the tables: no interrupts, but for hcf and the    *)
(* division in init_tsc, to which the handler returns.                     *)
FirstHalf ==
  /\ pc = "thread" /\ StartupStep
  /\ UNCHANGED <<vars, acpi_vars, lvt_timer, spurious, in_service>>

LoadArchState ==
  /\ Step("arch", "contexts") /\ LoadIdt
  /\ UNCHANGED <<acpi_vars, lvt_timer, spurious, in_service>>

InstallContext ==
  /\ Step("context", "tsc") /\ InitContext
  /\ UNCHANGED <<acpi_vars, lvt_timer, spurious, in_service>>

FirstHalfFails ==
  /\ pc = "thread"
  /\ \/ Fails /\ Hcf
     \/ kpc = "tsc" /\ DividesByZero /\ Enter(0)
  /\ UNCHANGED <<acpi_vars, boot_vars>>

(* Pointers to nowhere, and a stub without a context: this is not followed *)
(* any further.                                                            *)
Lost == kpc = "lost" /\ UNCHANGED all_vars

InSecondHalf == kpc \in {"tables", "low", "high", "sti", "timer", "spurious", "prompt"}

(* load_system_descriptor_tables, and the priority register. *)
LoadSystemDescriptorTables ==
  /\ pc = "thread" /\ kpc = "tables"
  /\ IF apc = "root" /\ getauxval(AT_KXINIX_XSDT_ADDR) = Garbage
     THEN kpc' = "lost" /\ UNCHANGED acpi_vars
     ELSE /\ LoadTables(getauxval(AT_KXINIX_XSDT_ADDR))
          /\ kpc' = IF apc' = "done" THEN "low" ELSE "tables"
  /\ UNCHANGED <<vars, told_vars, lvt_timer, spurious, in_service>>

(* install_keyboard_irq *)
InstallKeyboardIrq ==
  /\ \/ Step("low", "high") /\ WriteLow(IRQ_KB)
     \/ Step("high", "sti") /\ WriteHigh(0)
  /\ UNCHANGED <<vars, lvt_timer, spurious, in_service>>

Sti ==
  /\ Step("sti", "timer")
  /\ iflag' = TRUE
  /\ UNCHANGED <<idt_limit, cpu, pc, bases, stack, ucontext, vector, errcode, interrupted,
                 acpi_vars, lvt_timer, spurious, in_service>>

(* setup_timer, on both of its registers that let an interrupt in. *)
SetupTimer ==
  /\ \/ Step("timer", "spurious") /\ lvt_timer' = IRQ_TIMER /\ UNCHANGED spurious
     \/ Step("spurious", "prompt") /\ spurious' = IRQ_SPURIOUS /\ UNCHANGED lvt_timer
  /\ UNCHANGED <<vars, acpi_vars, in_service>>

(* The prompt's command pcontext: int 0x20. *)
PrintContext ==
  /\ kpc = "prompt" /\ Software(IRQ_DEBUG)
  /\ UNCHANGED <<acpi_vars, boot_vars>>

-----------------------------------------------------------------------------
(* The devices. A vector waits while one of its priority class, or of a    *)
(* higher one, is in service. The keyboard is on pin 1 of the I/O APIC of  *)
(* the first interrupts. A spurious interrupt is never in service.         *)
Waits(v) == \E w \in in_service : w \div 16 >= v \div 16

KeyboardIrq ==
  /\ \E i \in DOMAIN ioapics : ioapics[i] = [register_base |-> redirect.ioapic, gsi_base |-> 0]
  /\ redirect.vector = IRQ_KB /\ ~ Waits(IRQ_KB)
  /\ Interrupt(IRQ_KB)
  /\ in_service' = in_service \union {IRQ_KB}
  /\ UNCHANGED <<acpi_vars, startup_vars, lvt_timer, spurious>>

TimerIrq ==
  /\ lvt_timer = IRQ_TIMER /\ ~ Waits(IRQ_TIMER)
  /\ Interrupt(IRQ_TIMER)
  /\ in_service' = in_service \union {IRQ_TIMER}
  /\ UNCHANGED <<acpi_vars, startup_vars, lvt_timer, spurious>>

SpuriousIrq ==
  /\ spurious = IRQ_SPURIOUS
  /\ Interrupt(IRQ_SPURIOUS)
  /\ UNCHANGED <<acpi_vars, boot_vars>>

(* Faulty variant: keyboard_irq does not acknowledge. *)
AcknowledgesTimer(v) == v = IRQ_TIMER

(* keyboard_irq and timer_irq end with a write to the end-of-interrupt     *)
(* register, handle_int itself writes none.                                *)
Acknowledges(v) == v \in {IRQ_KB, IRQ_TIMER}

(* The write ends the interrupt of the highest priority. (Through a null   *)
(* lapic it would fault; here it is lost.)                                 *)
HandleInt ==
  /\ Handler
  /\ in_service' = IF Acknowledges(vector) /\ lapic # Null
                   THEN in_service \ {v \in in_service : \A w \in in_service : w <= v}
                   ELSE in_service
  /\ UNCHANGED <<acpi_vars, startup_vars, lvt_timer, spurious>>

(* The stub, exceptions, hcf, and the rest of what the thread does.        *)
Others ==
  /\ \/ InSecondHalf /\ (Thread \/ Exception \/ (pc = "thread" /\ Hcf))
     \/ (pc = "hcf" /\ Hcf) \/ Trap \/ Stub
  /\ UNCHANGED <<acpi_vars, boot_vars>>

KmainNext ==
  \/ FirstHalf \/ LoadArchState \/ InstallContext \/ FirstHalfFails \/ Lost
  \/ LoadSystemDescriptorTables \/ InstallKeyboardIrq \/ Sti \/ SetupTimer \/ PrintContext
  \/ KeyboardIrq \/ TimerIrq \/ SpuriousIrq
  \/ HandleInt \/ Others

(* A stub or handler that has begun goes on. *)
KmainSpec ==
  /\ KmainInit /\ [][KmainNext]_all_vars
  /\ WF_all_vars(HandleInt)
  /\ WF_all_vars((Stub \/ (pc = "hcf" /\ Hcf)) /\ UNCHANGED <<acpi_vars, boot_vars>>)

-----------------------------------------------------------------------------
(* No interrupt is left unacknowledged: when the thread goes on, the local *)
(* APIC waits for nothing, so that the next key or tick can come. From the *)
(* first moment on at which kmain lets interrupts in, and whatever happens *)
(* to have been interrupted, kmain or the loop at its end.                 *)
Acknowledged == interrupted = <<>> => in_service = {}
=============================================================================
