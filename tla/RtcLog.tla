------------------------------- MODULE RtcLog -------------------------------
(***************************************************************************)
(* The end of kmain's log: some numbers that kmain prints, or the head of  *)
(* a table of the firmware (acpi.c), and then init_rtc, which reads the    *)
(* date (RtcRead) and prints it (Stdio): the format register after the     *)
(* first reading, the date after the conversion. The clock goes on         *)
(* meanwhile. (Between the conversion and the date the code waits for the  *)
(* next second: module Clock.) At the prompt, at last, an interrupt that   *)
(* is no device's prints the context it came upon (PrintContext).          *)
(***************************************************************************)
EXTENDS RtcRead, PrintContext

CONSTANTS
  Calls,        \* what kmain may have printed before
  CallDates,    \* at these dates (the clock stands still; at others nothing
                \* is printed before)
  Sdts,         \* the tables' heads: texts as they are in memory
  Machines,     \* what the processor may hold at the prompt
  Vectors,      \* the interrupts that come there
  MaxLog        \* bound: none comes after so many conversions

(* "Table %.4s", "OEMID: %.6s -- Table ID: %.8s -- Revision: %08X" and     *)
(* "Creator ID: %08X -- Revision: %08X".                                   *)
PrintSdtHeader(sdt) ==
  LET text(field, most) == Field(Format("s", {}, 0, most, ""), sdt.memory[field], sdt.text[field])
      number(field) == Field(Format("x", {"zero"}, 8, NoPrecision, ""), sdt[field], sdt[field])
  IN  <<text("signature", 4), text("oemid", 6), text("oem_table_id", 8), number("oem_revision"),
        number("creator_id"), number("creator_revision")>>

Plain(conv, flags, precision, arg) == Field(Format(conv, flags, 0, precision, ""), arg, arg)

(* Register 0x0B, of which bits 1 and 2 matter; "%.2hhX". *)
FormatLine ==
  << Plain("x", {}, 2, (IF format.binary THEN 4 ELSE 0) + (IF format.hours24 THEN 2 ELSE 0)) >>

(* "%0.4u-%0.2u-%0.2u %0.2u:%0.2u:%0.2uZ" *)
DateLine(v) ==
  LET two(arg) == Plain("u", {"zero"}, 2, arg) IN
  << Plain("u", {"zero"}, 4, v.century * 100 + v.years), two(v.months), two(v.days),
     two(v.hours), two(v.minutes), two(v.seconds) >>

LogInit ==
  /\ RtcInit
  /\ log = <<>>
  /\ \/ call = <<>>
     \/ date \in CallDates /\ call \in Calls
     \/ date \in CallDates /\ \E sdt \in Sdts : call = PrintSdtHeader(sdt)

log_vars == <<rtc_vars, output>>

Clock == FlagUp \/ UpdateRegister \/ FlagDown

WriteText == Vfprintf /\ UNCHANGED rtc_vars

(* The driver goes on when the text is written. *)
Silent ==
  /\ call = <<>>
  /\ Wait \/ ReadRegister \/ ReadAgain \/ ConfirmDate
  /\ UNCHANGED output

PrintFormat == call = <<>> /\ KeepFirst /\ call' = FormatLine /\ UNCHANGED log

PrintDate == call = <<>> /\ Convert /\ call' = DateLine(rtc_values) /\ UNCHANGED log

(* "pcontext" at the prompt is int $0x20; an NMI may come of itself. *)
Pcontext ==
  /\ phase = "done" /\ call = <<>> /\ date \in CallDates /\ Len(log) < MaxLog
  /\ \E irq \in Vectors, machine \in Machines : call' = HandleInt(irq, machine)
  /\ UNCHANGED <<rtc_vars, log>>

LogNext ==
  \/ Clock /\ UNCHANGED output
  \/ WriteText
  \/ Silent
  \/ PrintFormat
  \/ PrintDate
  \/ Pcontext

LogSpec ==
  /\ LogInit /\ [][LogNext]_log_vars
  /\ WF_log_vars(UpdateRegister /\ UNCHANGED output)
  /\ WF_log_vars(FlagDown /\ UNCHANGED output)
  /\ WF_log_vars(WriteText \/ Silent \/ PrintFormat \/ PrintDate)
=============================================================================
