------------------------------ MODULE MCRtcLog ------------------------------
(***************************************************************************)
(* Boots at the first and last days of every month, at the hours around    *)
(* midnight and noon, in years around every leap rule, in every format; at *)
(* a few of these dates the clock goes on while it is read.                *)
(***************************************************************************)
EXTENDS RtcLog

At(years, months, days, hours) ==
  [year : years, month : months, day : days, hour : hours, minute : {59}, second : {59}]

CommonYears == {1970, 1999, 2023, 2100}
LeapYears == {1972, 2000, 2024, 2096}
(* 1601 and four or five hundred years. *)
FalseLeapYears == {2001, 2101}

(* The end of a century, a year, a month, a morning, and of an hour. *)
MCTickingDates ==
  At({2099}, {12}, {31}, {23}) \union At({2023}, {9}, {30}, {11})
  \union At({2024}, {2}, {29}, {23})
  \union {[year |-> 2023, month |-> 5, day |-> 17, hour |-> 12, minute |-> 59, second |-> 58]}

MCDates == At({2023}, 1..12, {1, 28, 30, 31}, {0, 11, 12, 23})
           \union At(CommonYears, {1, 2, 3, 12}, {1, 28, 31}, {12})
           \union At(LeapYears \union FalseLeapYears, {1, 2, 3, 12}, {1, 28, 29, 31}, {0, 23})
           \union MCTickingDates

MCFormats == [binary : BOOLEAN, hours24 : BOOLEAN, century : BOOLEAN]

(* The formats of the kernel: %X, %02X, %08X, %.8X, %#.8X, %#w32X,         *)
(* %.16llX, %#.16llX, %lX, %#zx, %p, %.16p, %d, %w64d, %w64u.              *)
Words == {0, 1, 9, 10, 16, 255, 256, 4096, 65535}
Longs == {0, 65536, 1048576, 999999999}
Of(specs, args) == {<<Field(s, a, a)>> : s \in specs, a \in args}
MCCalls ==
  Of({Format("x", {}, 0, -1, ""), Format("x", {"zero"}, 2, -1, ""),
      Format("x", {"zero"}, 8, -1, ""), Format("x", {}, 0, 8, ""),
      Format("x", {"pound"}, 0, 8, ""), Format("x", {"pound"}, 0, -1, "w32")}, Words)
  \union Of({Format("x", {}, 0, 16, "ll"), Format("x", {"pound"}, 0, 16, "ll"),
             Format("x", {}, 0, -1, "l"), Format("x", {"pound"}, 0, -1, "z"),
             Format("p", {}, 0, -1, ""), Format("p", {}, 0, 16, ""),
             Format("d", {}, 0, -1, "w64"), Format("u", {}, 0, -1, "w64")}, Words \union Longs)

MCCallDates == At({2023}, {3}, {1}, {12})

(* Names that fill their fields, next to what follows them in the table,   *)
(* and names that do not.                                                  *)
MCSdts ==
  {[memory |-> [signature |-> <<"A", "P", "I", "C", "length">>,
                oemid |-> <<"B", "O", "C", "H", "S", " ", "B", "X">>,
                oem_table_id |-> <<"B", "X", "P", "C", " ", " ", " ", " ", "revision">>],
    text |-> [signature |-> <<"A", "P", "I", "C">>,
              oemid |-> <<"B", "O", "C", "H", "S", " ">>,
              oem_table_id |-> <<"B", "X", "P", "C", " ", " ", " ", " ">>],
    oem_revision |-> 1, creator_id |-> 65535, creator_revision |-> 0],
   [memory |-> [signature |-> <<"F", "A", "C", "P", "length">>,
                oemid |-> <<"V", Nul, Nul, Nul, Nul, Nul, "T">>,
                oem_table_id |-> <<Nul, "p", "c", Nul, Nul, Nul, Nul, Nul, "revision">>],
    text |-> [signature |-> <<"F", "A", "C", "P">>, oemid |-> <<"V">>, oem_table_id |-> <<>>],
    oem_revision |-> 16, creator_id |-> 0, creator_revision |-> 4096]}

(* A different value in every register. The selectors are those of         *)
(* load_gdt, interrupts are on, and kstart has set two flags of cr4; the   *)
(* others are the firmware's. The unit for floating point is as a reset or *)
(* as FNINIT leaves it, and it has not been used.                          *)
Machine(shift, eflags, cr4, fcw, tss) ==
  [gprs |-> [r \in {GprOrder[i] : i \in 1..16} |->
               shift + (CHOOSE i \in 1..16 : GprOrder[i] = r) * 4097],
   rip |-> shift + 100000, eflags |-> eflags,
   selectors |-> [ES |-> 48, CS |-> 40, DS |-> 48, SS |-> 48, FS |-> 48, GS |-> 48,
                  TSS |-> 64, LDT |-> 0],
   fs_base |-> 0, gs_base |-> shift + 200000, cr3 |-> 300000, cr4 |-> cr4,
   fcw |-> fcw, ftw |-> 0, mxcsr |-> 7..12, tss |-> tss]

MCMachines ==
  {Machine(0, {"IF"}, {"FXSR", "OSXMMEX", "PGE"}, {6}, 196600),
   Machine(7, {"IF", "CF", "AF", "SF", "OF"},
           {"FXSR", "OSXMMEX", "DE", "MCE", "FSGSBASE", "UIMP", "SMEP"},
           {0, 1, 2, 3, 4, 5, 6, 8, 9}, 1048572),
   Machine(70000, {"IF", "PF", "ZF", "ID"}, DOMAIN Cr4 \ {"LA57"}, {6}, 70000)}
=============================================================================
