----------------------------- MODULE PrintContext -----------------------------
(***************************************************************************)
(* The dump of an interrupted context: print_ucontext                      *)
(* (kernel/src/x86_64/print_context.c) of what the interrupt stub (idt.s)  *)
(* and save_full_ucontext (context.s) have put into the user_context, and  *)
(* of the descriptors that load_gdt (arch_state.c) has made.               *)
(*                                                                         *)
(* A machine is what the registers held: [gprs, rip, eflags, selectors,    *)
(* fs_base, gs_base, cr3, cr4, fcw, mxcsr, tss], eflags and cr4 as sets of *)
(* names. What is printed comes with what the machine held under the name  *)
(* that is printed, for Stdio to compare; the fields of the floating-point *)
(* state with what the context holds of it. Bytes and words of flags are   *)
(* sets of bits. No LDT is ever loaded, so no selector is looked up there. *)
(***************************************************************************)
EXTENDS Stdio

CONSTANTS
  Word16, Byte,    \* 2^16 and 2^8
  PAGE             \* 4096

ASSUME FieldsAssumption ==
  /\ {Word16, Byte, PAGE} \subseteq Nat \ {0}
  /\ IntRange = Word16 * Byte * Byte /\ IntRange = Word16 * 16 * PAGE

-----------------------------------------------------------------------------
(* The descriptor table. *)
USER_SEGMENT_ACCESS(x, dpl) ==
  {0, 1, 4, 7} \union (IF x = 1 THEN {3} ELSE {}) \union (IF dpl = 3 THEN {5, 6} ELSE {})
GDT_32BIT == {6, 7}
GDT_64BITC == {5}
TSS == {0, 3}
TSS_Busy == {0, 1, 3}

Entry(limit_lo, limit_hi, access, flags) ==
  [limit_lo |-> limit_lo, limit_hi |-> limit_hi, base_lo |-> 0, base_mid |-> 0, base_hi |-> 0,
   access |-> access, flags |-> flags, sys_base_ext |-> 0]

gdt_entries ==
  LET full == Word16 - 1 IN
  <<Entry(full, 0, USER_SEGMENT_ACCESS(1, 0), {}), Entry(full, 0, USER_SEGMENT_ACCESS(0, 0), {}),
    Entry(full, 15, USER_SEGMENT_ACCESS(1, 0), GDT_32BIT),
    Entry(full, 15, USER_SEGMENT_ACCESS(0, 0), GDT_32BIT),
    Entry(0, 0, USER_SEGMENT_ACCESS(1, 0), GDT_64BITC),
    Entry(full, 15, USER_SEGMENT_ACCESS(0, 0), GDT_32BIT)>>

TssSize == 96

(* load_gdt: the TSS begins four bytes into the struct. Loading it marks   *)
(* it busy.                                                                *)
LoadGdt(tss) ==
  LET ptr == tss + 4
      entry8 == [Entry(TssSize - 5, 0, TSS_Busy \union {7}, {}) EXCEPT
                   !.base_lo = ptr % Word16, !.base_mid = (ptr \div Word16) % Byte,
                   !.base_hi = (ptr \div (Word16 * Byte)) % Byte]
      entry9 == [Entry(0, 0, {}, {}) EXCEPT !.sys_base_ext = ptr \div IntRange]
  IN  [n \in 0..9 |-> CASE n \in DOMAIN gdt_entries -> gdt_entries[n]
                        [] n = 8 -> entry8 [] n = 9 -> entry9 [] OTHER -> Entry(0, 0, {}, {})]

(* What the stub and save_full_ucontext store where. *)
GprOrder == <<"RAX", "RCX", "RDX", "RBX", "RSP", "RBP", "RSI", "RDI",
              "R8", "R9", "R10", "R11", "R12", "R13", "R14", "R15">>
SregOrder == <<"ES", "CS", "DS", "SS", "FS", "GS", "TSS", "LDT">>

(* The flags of the processor. *)
Eflags == "CF" :> 0 @@ "PF" :> 2 @@ "AF" :> 4 @@ "ZF" :> 6 @@ "SF" :> 7 @@ "TF" :> 8 @@ "IF" :> 9
          @@ "DF" :> 10 @@ "OF" :> 11 @@ "NT" :> 14 @@ "AC" :> 18 @@ "ID" :> 21
Cr4 == [TSD |-> 2, DE |-> 3, MCE |-> 6, PGE |-> 7, PCE |-> 8, FXSR |-> 9, OSXMMEX |-> 10,
        UIMP |-> 11, LA57 |-> 12, VMXE |-> 13, SMXE |-> 14, FSGSBASE |-> 16, PCIDE |-> 17,
        XSAVE |-> 18, SMEP |-> 20, SMAP |-> 21, PKE |-> 22, CET |-> 23, PKS |-> 24]
Bits(table, flags) == {table[f] : f \in flags}
Word(bits) == FoldSet(LAMBDA b, n : n + 2^b, 0, bits)

(* The context of the only thread, as kmain leaves it: it sets the size    *)
(* and has zeroed the rest, the padding before the fxsave area included.   *)
FXSAVE_SIZE == 512
KmainContext ==
  [xsave_size |-> FXSAVE_SIZE, padding |-> 0, fcw |-> {}, fsw |-> {}, ftw |-> 0, mxcsr |-> {}]

(* The stub goes by the quadword at offset 504, the last of the padding;   *)
(* xsave_size is at 456. Less than FXSAVE_SIZE: nothing is stored.         *)
StoreFloat(context, machine) ==
  IF context.padding = FXSAVE_SIZE
  THEN [context EXCEPT !.fcw = machine.fcw, !.ftw = machine.ftw, !.mxcsr = machine.mxcsr]
  ELSE context

Save(machine) ==
  StoreFloat(KmainContext, machine) @@
  [gregs |-> [i \in 0..15 |-> machine.gprs[GprOrder[i + 1]]], rip |-> machine.rip,
   rflags |-> Bits(Eflags, machine.eflags),
   sregs |-> [i \in 0..7 |-> machine.selectors[SregOrder[i + 1]]],
   fsgsbase |-> <<machine.fs_base, machine.gs_base>>,
   cr3 |-> machine.cr3, cr4 |-> Bits(Cr4, machine.cr4)]

-----------------------------------------------------------------------------
(* The conversion is the first of the fields, by the order of their names  *)
(* too: two fields whose values TLC cannot compare, a text and a number,   *)
(* then differ before it comes to these.                                   *)
Field(spec, arg, meant) == [spec |-> spec, value |-> arg, told |-> meant]
Fields(args, meant) == [i \in DOMAIN args |-> Field(args[i][1], args[i][2], meant[i])]

Hex(precision, length) == Format("x", {}, 0, precision, length)
Pointer == Format("p", {}, 0, NoPrecision, "")
print_reg(value, meant) == Field(Format("x", {"pound"}, 0, 16, "ll"), value, meant)
String(text) == <<Format("s", {}, 0, NoPrecision, ""), Append(text, Nul)>>

Flag(bits, n) == IF n \in bits THEN 1 ELSE 0
test_flag(bits, n) == <<Hex(NoPrecision, ""), Flag(bits, n)>>

(* Flags, each by the name and the bit that the code gives. *)
PrintFlags(bits, named, flags) ==
  [i \in DOMAIN named |-> Field(Hex(NoPrecision, ""), Flag(bits, named[i][2]),
                                IF named[i][1] \in flags THEN 1 ELSE 0)]

(* print_sreg *)
PrintSreg(name, sreg, gdt) ==
  LET ent == gdt[sreg \div 8]
      cpl == sreg % 4
      pages == ent.limit_lo + ent.limit_hi * Word16
      limit == IF 7 \in ent.flags THEN pages * PAGE + PAGE - 1 ELSE pages
      base == ent.base_lo + ent.base_mid * Word16 + ent.base_hi * Word16 * Byte
      dpl == Flag(ent.access, 5) + 2 * Flag(ent.access, 6)
      type == ent.access \intersect 0..3
      system == CASE type = {1} -> "LDT" [] type = TSS -> "TSS (available)"
                  [] type = TSS_Busy -> "TSS (busy)" [] OTHER -> "(unknown system segment)"
      size == CASE 5 \in ent.flags -> "64-bit" [] 5 \notin ent.flags /\ 6 \in ent.flags -> "32-bit"
                [] OTHER -> "16-bit"
      first == <<String(<<name>>), <<Hex(4, ""), sreg>> >>
  IN  IF sreg \div 8 = 0 THEN first
      ELSE IF 4 \notin ent.access
      THEN first \o <<String(<<system>>),
                      <<Hex(16, "ll"), base + gdt[sreg \div 8 + 1].sys_base_ext * IntRange>>,
                      <<Hex(8, ""), limit>>, test_flag(ent.access, 7),
                      <<Hex(NoPrecision, ""), dpl>> >>
      ELSE first \o <<String(<<size>>), <<Hex(8, "l"), base>>, <<Hex(8, ""), limit>> >>
             \o (IF 3 \in ent.access THEN << <<Hex(NoPrecision, ""), cpl>> >> ELSE <<>>)
             \o << <<Hex(NoPrecision, ""), dpl>> >>
             \o [i \in 1..4 |-> test_flag(ent.access, <<7, 0, 1, 2>>[i])]

(* What the processor goes by when such a selector is loaded: the kernel's *)
(* code and data, and its TSS from the fifth byte of the struct to the end.*)
Meaning(name, sreg, tss) ==
  CASE sreg = 0 -> <<<<name>>, 0>>
    [] sreg = 40 -> <<<<name>>, 40, <<"64-bit">>, 0, 0, 0, 0, 1, 1, 1, 0>>
    [] sreg = 48 -> <<<<name>>, 48, <<"32-bit">>, 0, IntRange - 1, 0, 1, 1, 1, 0>>
    [] sreg = 64 -> <<<<name>>, 64, <<"TSS (busy)">>, tss + 4, TssSize - 5, 1, 0>>

(* The x87 and SSE state: the names of the exceptions, the lowest last. *)
Excepts == <<"E", "S", "P", "U", "O", "Z", "D", "I">>
ExceptNames(bits, from, n) ==
  [i \in 1..n |-> IF from + n - i \in bits THEN Excepts[8 - n + i] ELSE "-"]
RoundingMode(bits, low) == <<"RTN", "R-", "R+", "RTZ">>[1 + Flag(bits, low) + 2 * Flag(bits, low + 1)]
PrecisionMode(bits) == <<"F32", "", "F64", "X80">>[1 + Flag(bits, 8) + 2 * Flag(bits, 9)]

PrintFloat(context) ==
  LET conditions == {b - 8 : b \in context.fsw \intersect {8, 9, 11, 13}}
      masked == [i \in 1..6 |-> IF 6 - i \in context.fcw THEN Excepts[i + 2] ELSE "-"]
      sse_masked == [i \in 1..6 |-> IF 13 - i \in context.mxcsr THEN Excepts[i + 2] ELSE "-"]
  IN  Fields(
        << <<Hex(4, ""), Word(context.fsw)>>, <<Hex(2, ""), Word(conditions)>>,
           String(ExceptNames(context.fsw, 0, 8)),
           <<Hex(4, ""), Word(context.fcw)>>, String(<<RoundingMode(context.fcw, 10)>>),
           String(<<PrecisionMode(context.fcw)>>), String(ExceptNames(context.fcw, 0, 6)),
           <<Hex(2, ""), context.ftw>>,
           <<Hex(8, ""), Word(context.mxcsr)>>, test_flag(context.mxcsr, 15),
           test_flag(context.mxcsr, 6), String(<<RoundingMode(context.mxcsr, 13)>>),
           String(ExceptNames(context.mxcsr, 7, 6)), String(ExceptNames(context.mxcsr, 0, 6))>>,
        << 0, 0, Rep(8, "-"), Word(context.fcw), <<"RTN">>,
           <<IF {8, 9} \subseteq context.fcw THEN "X80" ELSE "F32">>, masked, context.ftw,
           Word(context.mxcsr), 0, 0, <<"RTN">>, sse_masked, Rep(6, "-")>>)

Registers16 == << <<"RAX", 0>>, <<"R8", 8>>, <<"RCX", 1>>, <<"R9", 9>>, <<"RDX", 2>>, <<"R10", 10>>,
                  <<"RBX", 3>>, <<"R11", 11>>, <<"RSP", 4>>, <<"R12", 12>>, <<"RBP", 5>>,
                  <<"R13", 13>>, <<"RSI", 6>>, <<"R14", 14>>, <<"RDI", 7>>, <<"R15", 15>> >>

PrintUcontext(context, machine, gdt) ==
  [i \in 1..16 |-> print_reg(context.gregs[Registers16[i][2]], machine.gprs[Registers16[i][1]])]
  \o <<print_reg(context.rip, machine.rip),
       print_reg(Word(context.rflags), Word(Bits(Eflags, machine.eflags)))>>
  \o PrintFlags(context.rflags,
       << <<"CF", 0>>, <<"PF", 2>>, <<"AF", 4>>, <<"ZF", 6>>, <<"SF", 7>>, <<"TF", 8>>, <<"IF", 9>>,
          <<"DF", 10>>, <<"OF", 11>> >>, machine.eflags)
  \o << Field(Hex(NoPrecision, ""), Flag(context.rflags, 12) + 2 * Flag(context.rflags, 13), 0) >>
  \o PrintFlags(context.rflags, << <<"NT", 14>>, <<"AC", 18>>, <<"ID", 21>> >>, machine.eflags)
  \o FlattenSeq([i \in 1..8 |->
       LET name == <<"ES", "CS", "DS", "SS", "FS", "GS", "TSS", "LDT">>[i] IN
       Fields(PrintSreg(name, context.sregs[i - 1], gdt),
              Meaning(name, machine.selectors[name], machine.tss))])
  \o <<Field(Pointer, context.fsgsbase[1], machine.fs_base),
       Field(Pointer, context.fsgsbase[2], machine.gs_base),
       print_reg(context.cr3, machine.cr3),
       print_reg(Word(context.cr4), Word(Bits(Cr4, machine.cr4)))>>
  \o PrintFlags(context.cr4,
       << <<"TSD", 2>>, <<"DE", 3>>, <<"MCE", 6>>, <<"PGE", 7>>, <<"PCE", 8>>, <<"UIMP", 11>>,
          <<"LA57", 12>>, <<"VMXE", 13>>, <<"SMXE", 14>>, <<"FSGSBASE", 16>>, <<"PCIDE", 17>>,
          <<"SMEP", 20>>, <<"SMAP", 21>>, <<"PKE", 22>>, <<"CET", 23>>, <<"PKS", 24>>,
          <<"FXSR", 9>>, <<"OSXMMEX", 10>>, <<"XSAVE", 18>> >>, machine.cr4)
  \o (IF context.xsave_size >= FXSAVE_SIZE THEN PrintFloat(context) ELSE <<>>)

-----------------------------------------------------------------------------
exception_name ==
  0 :> "DE" @@ 1 :> "DB" @@ 2 :> "NMI" @@ 3 :> "BP" @@ 4 :> "OF" @@ 5 :> "BR" @@ 6 :> "UD"
  @@ 7 :> "NM" @@ 8 :> "DF" @@ 9 :> "MP" @@ 10 :> "TS" @@ 11 :> "NP" @@ 12 :> "SS"
  @@ 13 :> "GP" @@ 14 :> "PF" @@ 16 :> "MF" @@ 17 :> "AC" @@ 18 :> "MC" @@ 19 :> "XM"
  @@ 20 :> "VE" @@ 21 :> "CP" @@ 28 :> "HV" @@ 29 :> "VC" @@ 30 :> "SC"

(* handle_int, for what is neither a device nor a trap. *)
HandleInt(irq, machine) ==
  (IF irq \in DOMAIN exception_name
   THEN Fields(<<String(<<exception_name[irq]>>)>>, <<<<exception_name[irq]>>>>)
   ELSE <<Field(Hex(NoPrecision, ""), irq, irq)>>)
  \o PrintUcontext(Save(machine), machine, LoadGdt(machine.tss))
=============================================================================
