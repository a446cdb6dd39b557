------------------------------- MODULE IsrStub -------------------------------
(***************************************************************************)
(* Interrupts and exceptions (kernel/src/x86_64/idt.s, and handle_int and  *)
(* handle_int_with_code of kernel/src/common/main.c): the stub saves what  *)
(* was interrupted in the current thread's ucontext, of which there is     *)
(* one, calls the handler, and loads it back.                              *)
(*                                                                         *)
(* A register holds a token for who wrote it last. Regs are groups of      *)
(* registers that the stub treats alike. The floating-point state is left  *)
(* out: the stub does not store it (PrintContext), the kernel is built     *)
(* without SSE and its handlers do not touch it.                           *)
(* There are no user threads yet, so all that is interrupted is the        *)
(* kernel, with both GS bases at the context. Which interrupts come, and   *)
(* when, is in Kmain.                                                      *)
(***************************************************************************)
EXTENDS Naturals, Sequences, SequencesExt

CONSTANTS
  Exceptions,       \* exceptions the running code may cause
  MaxDepth          \* bound: handlers under way, one inside the other

(* Vectors. *)
BP == 3
GP == 13
PF == 14
IRQ_DEBUG == 32
IRQ_SPURIOUS == 33
IRQ_TIMER == 40
IRQ_KB == 65
(* What the processor pushes: an error code for these. *)
HasCode == {8, 10, 11, 12, 13, 14, 17, 21}

ASSUME VectorsAssumption == Exceptions \subseteq 0..28 \ {BP} /\ MaxDepth \in Nat

Regs == {"gprs", "selectors", "dregs"}
Tokens == {"task", "busy", "kernel", "handler"}
Fresh == [gprs |-> "task", selectors |-> "task", dregs |-> "task"]

VARIABLES
  cpu,            \* the registers: who wrote them last
  pc,             \* rip: in the thread, in the stub, in a handler
  iflag,            \* the interrupt flag
  gs_base, kernel_gs_base, fs_base,
  idt_limit,      \* of the kernel's IDT, 0: not loaded
  stack,          \* what the processor and the stub have pushed
  ucontext,       \* the save area of the current thread
  vector,         \* of the stub that runs
  errcode,        \* rdx when the handler is called
  interrupted     \* what each handler under way has interrupted, for the
                  \* properties only: [cpu, rip, flag, depth of stack]
bases == <<gs_base, kernel_gs_base, fs_base>>
own_vars == <<cpu, pc, iflag, stack, ucontext, vector, errcode, interrupted>>
vars == <<idt_limit, cpu, pc, iflag, bases, stack, ucontext, vector, errcode, interrupted>>

(* At the entry of kmain; interrupts are off. *)
Init ==
  /\ idt_limit = 0
  /\ cpu = Fresh
  /\ pc = "thread"
  /\ iflag = FALSE
  /\ gs_base = "none" /\ kernel_gs_base = "none" /\ fs_base = "zero"
  /\ stack = <<>>
  /\ ucontext = [regs |-> Fresh, rip |-> "none", flag |-> FALSE]
  /\ vector = 0
  /\ errcode = "none"
  /\ interrupted = <<>>

-----------------------------------------------------------------------------
(* load_idt: the limit is that of 255 entries. *)
LoadIdt == idt_limit' = 255 * 16 /\ UNCHANGED <<bases, own_vars>>

(* init_context writes the two GS bases. *)
InitContext ==
  /\ gs_base' = "ctx" /\ kernel_gs_base' = "ctx"
  /\ UNCHANGED <<idt_limit, fs_base, own_vars>>

(* The interrupted code. *)
Thread ==
  /\ pc = "thread"
  /\ \E r \in {"gprs", "dregs"} :
       cpu' = [cpu EXCEPT ![r] = IF @ = "task" THEN "busy" ELSE "task"]
  /\ UNCHANGED <<idt_limit, pc, iflag, bases, stack, ucontext, vector, errcode, interrupted>>

(* Faulty variant: a trap gate, which leaves the flag as it is. *)
TrapGate(flag) == flag

(* Type 0x8E of the IDT entries: the flag is cleared. *)
Gate(flag) == FALSE

(* What the processor does through the gate: it pushes the frame, and an   *)
(* error code after it, and jumps to the stub.                             *)
Enter(v) ==
  /\ Len(interrupted) < MaxDepth
  /\ 16 * v + 15 <= idt_limit
  /\ stack' = stack \o <<[kind |-> "frame", rip |-> pc, flag |-> iflag]>>
                    \o (IF v \in HasCode THEN <<[kind |-> "code"]>> ELSE <<>>)
  /\ interrupted' = Append(interrupted,
       [cpu |-> cpu, rip |-> pc, flag |-> iflag, depth |-> Len(stack)])
  /\ vector' = v
  /\ iflag' = Gate(iflag)
  /\ pc' = "swapgs"
  /\ UNCHANGED <<idt_limit, cpu, bases, ucontext, errcode>>

Interrupt(v) == iflag /\ Enter(v)
Software(v) == pc = "thread" /\ Enter(v)
Exception == pc = "thread" /\ \E v \in Exceptions : Enter(v)
(* hcf: int3, whether in the thread or in a handler; hlt is behind it. *)
Hcf ==
  /\ pc \in {"thread", "hcf"}
  /\ Len(interrupted) < MaxDepth
  /\ 16 * BP + 15 <= idt_limit
  /\ stack' = Append(stack, [kind |-> "frame", rip |-> "hlt", flag |-> iflag])
  /\ interrupted' = Append(interrupted,
       [cpu |-> cpu, rip |-> "hlt", flag |-> iflag, depth |-> Len(stack)])
  /\ vector' = BP
  /\ iflag' = Gate(iflag)
  /\ pc' = "swapgs"
  /\ UNCHANGED <<idt_limit, cpu, bases, ucontext, errcode>>

-----------------------------------------------------------------------------
(* The stub, on the way in. *)
At(label, next) == pc = label /\ pc' = next

SwapgsIn ==
  /\ At("swapgs", "save")
  /\ gs_base' = kernel_gs_base /\ kernel_gs_base' = gs_base
  /\ UNCHANGED <<idt_limit, cpu, iflag, fs_base, stack, ucontext, vector, errcode, interrupted>>

(* The general registers, through gs:[16]. *)
SaveGprs ==
  /\ At("save", "pop")
  /\ gs_base = "ctx"
  /\ ucontext' = [ucontext EXCEPT !.regs.gprs = cpu.gprs]
  /\ cpu' = [cpu EXCEPT !.gprs = "kernel"]
  /\ UNCHANGED <<idt_limit, iflag, bases, stack, vector, errcode, interrupted>>

(* The list of the stubs, IsrStub n 1. *)
StubHasCode(v) == v \in {8, 17, 21} \union 10..14

(* The stub pops the error code if there is one, then the frame. *)
PopFrame ==
  /\ At("pop", "bases")
  /\ LET rest == IF StubHasCode(vector) THEN Front(stack) ELSE stack IN
     /\ ucontext' = IF Last(rest).kind = "frame"
                    THEN [ucontext EXCEPT !.rip = Last(rest).rip,
                                          !.flag = Last(rest).flag]
                    ELSE [ucontext EXCEPT !.rip = "code"]
     /\ stack' = Front(rest)
  /\ errcode' = IF StubHasCode(vector) THEN "code" ELSE "none"
  /\ UNCHANGED <<idt_limit, cpu, iflag, bases, vector, interrupted>>

(* The selectors and the bases; rdx, which holds the code, is written by   *)
(* mov dx, ds and by every rdmsr.                                          *)
SaveBases ==
  /\ At("bases", "dregs")
  /\ ucontext' = [ucontext EXCEPT !.regs.selectors = cpu.selectors]
  /\ cpu' = [cpu EXCEPT !.selectors = "kernel"]
  /\ kernel_gs_base' = gs_base
  /\ errcode' = "overwritten"
  /\ UNCHANGED <<idt_limit, iflag, gs_base, fs_base, stack, vector, interrupted>>

SaveDregs ==
  /\ At("dregs", "handler")
  /\ ucontext' = [ucontext EXCEPT !.regs.dregs = cpu.dregs]
  /\ UNCHANGED <<idt_limit, cpu, iflag, bases, stack, vector, errcode, interrupted>>

-----------------------------------------------------------------------------
(* The handlers print and return the same context. A page fault halts, and *)
(* the trap of hcf prints the message that it takes from r12. Of what they *)
(* do the registers are all that is left. (For #DB handle_int sets bit 11  *)
(* of the saved dr6 where that is clear. It never is: the bit reads as 1   *)
(* unless the detection of bus locks is enabled, which the kernel does not *)
(* do. So the context stays what it was.)                                  *)
Handler ==
  /\ At("handler", CASE vector = PF -> "hcf" [] vector = BP -> "trap" [] OTHER -> "restore")
  /\ cpu' = [cpu EXCEPT !.gprs = "handler", !.dregs = "handler"]
  /\ UNCHANGED <<idt_limit, iflag, bases, stack, ucontext, vector, errcode, interrupted>>

(* hcf has put its mark in r12 and not the message: the handler takes a    *)
(* length at an address that is none, and does so again when it returns.   *)
Trap == pc = "trap" /\ Enter(GP)

(* Faulty variant: jmp 1b for jmp 1f, to the label 1 of the way in. *)
RestoreDregsBack ==
  /\ At("restore", "dregs")
  /\ cpu' = [cpu EXCEPT !.dregs = ucontext.regs.dregs]
  /\ UNCHANGED <<idt_limit, iflag, bases, stack, ucontext, vector, errcode, interrupted>>

(* The stub, on the way out. *)
RestoreDregs ==
  /\ At("restore", "push")
  /\ cpu' = [cpu EXCEPT !.dregs = ucontext.regs.dregs]
  /\ UNCHANGED <<idt_limit, iflag, bases, stack, ucontext, vector, errcode, interrupted>>

PushFrame ==
  /\ At("push", "unbases")
  /\ stack' = Append(stack, [kind |-> "frame", rip |-> ucontext.rip,
                             flag |-> ucontext.flag])
  /\ cpu' = [cpu EXCEPT !.selectors = ucontext.regs.selectors]
  /\ UNCHANGED <<idt_limit, iflag, bases, ucontext, vector, errcode, interrupted>>

(* Faulty variant: mov gs, bx clears the base, and it is not written back. *)
RestoreBasesZero ==
  /\ At("unbases", "gprs")
  /\ gs_base' = "zero" /\ kernel_gs_base' = "zero" /\ fs_base' = "zero"
  /\ UNCHANGED <<idt_limit, cpu, iflag, stack, ucontext, vector, errcode, interrupted>>

(* All three bases are written with the GS base that has just been read;   *)
(* those that were saved are overwritten, not loaded.                      *)
RestoreBases ==
  /\ At("unbases", "gprs")
  /\ fs_base' = gs_base /\ kernel_gs_base' = gs_base
  /\ UNCHANGED <<idt_limit, cpu, iflag, gs_base, stack, ucontext, vector, errcode, interrupted>>

RestoreGprs ==
  /\ At("gprs", "iretq")
  /\ cpu' = [cpu EXCEPT !.gprs = ucontext.regs.gprs]
  /\ UNCHANGED <<idt_limit, iflag, bases, stack, ucontext, vector, errcode, interrupted>>

(* swapgs and iretq *)
Iretq ==
  /\ pc = "iretq"
  /\ gs_base' = kernel_gs_base /\ kernel_gs_base' = gs_base
  /\ pc' = Last(stack).rip
  /\ iflag' = Last(stack).flag
  /\ stack' = Front(stack)
  /\ interrupted' = Front(interrupted)
  /\ UNCHANGED <<idt_limit, cpu, fs_base, ucontext, vector, errcode>>

Stub == SwapgsIn \/ SaveGprs \/ PopFrame \/ SaveBases \/ SaveDregs
          \/ RestoreDregs \/ PushFrame \/ RestoreBases \/ RestoreGprs \/ Iretq

-----------------------------------------------------------------------------
(* Whatever was interrupted goes on as if nothing had happened: with its   *)
(* registers, its place, its interrupt flag and its stack, although the    *)
(* handler has used the same registers and there is one save area only.    *)
ResumesAsInterrupted ==
  [][Len(interrupted') < Len(interrupted) =>
       /\ cpu' = Last(interrupted).cpu
       /\ pc' = Last(interrupted).rip
       /\ iflag' = Last(interrupted).flag
       /\ Len(stack') = Last(interrupted).depth]_vars

(* gs:[16] and getcontext find the context in every stub and handler, and  *)
(* in the code they return to: none runs before kmain has installed it,    *)
(* and none leaves it in one of the two GS bases only.                     *)
ContextIsFound ==
  \/ gs_base = "ctx" /\ kernel_gs_base = "ctx"
  \/ gs_base = "none" /\ kernel_gs_base = "none" /\ interrupted = <<>>

(* Every interrupt is returned from, unless the kernel stops in it, where  *)
(* the handler of hcf's trap faults for ever.                              *)
Returns == \A d \in 1..MaxDepth :
  Len(interrupted) = d ~> Len(interrupted) < d \/ pc = "trap"
=============================================================================
