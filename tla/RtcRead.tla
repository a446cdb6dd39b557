------------------------------- MODULE RtcRead -------------------------------
(***************************************************************************)
(* The first half of init_rtc (kernel/src/x86_64/rtc.c): the date is read  *)
(* from the CMOS clock, one register after the other, while the clock      *)
(* runs, until a reading is the same as the first, and converted. (The     *)
(* second half, with the second read anew, is in module Clock.)            *)
(*                                                                         *)
(* Once a second the clock raises its update flag, changes the registers   *)
(* one by one and lowers the flag again. Interrupts may delay the driver   *)
(* between any two of its port reads, but one reading, with its            *)
(* comparison, takes less than a second.                                   *)
(***************************************************************************)
EXTENDS RtcDate, Sequences

CONSTANTS
  TickingDates,   \* dates at which the clock goes on while it is read
  MaxSeconds      \* bound: how far

ASSUME TickingAssumption == TickingDates \subseteq Dates /\ MaxSeconds \in Nat

VARIABLES
  format,       \* register 0x0B, and whether fadt_century is set
  date,         \* the date of this second
  ticked,       \* how many seconds have passed
  flag,         \* register 0x0A, bit 7: an update is under way
  registers,    \* what each register shows
  phase,        \* "wait", "read", "compare", "confirmed" or "done"
  left,         \* the registers that are still to be read
  reading,      \* what has been read
  rtc_values,   \* the first reading, then the confirmed one
  crossed,      \* whether an update has begun since the reading did
  minutes       \* the result

clock == <<format, date, ticked, flag, registers>>
driver == <<phase, left, reading, rtc_values, minutes>>
rtc_vars == <<clock, driver, crossed>>

None == -1

(* The order in which they are read. The struct is zero before.            *)
Order(f) == <<"seconds", "minutes", "hours", "days", "months", "years">>
            \o (IF f.century THEN <<"century">> ELSE <<>>)
Blank == [seconds |-> 0, minutes |-> 0, hours |-> 0, days |-> 0,
          months |-> 0, years |-> 0, century |-> 0]

RtcInit ==
  /\ format \in Formats
  /\ date \in {d \in Dates : Valid(d)}
  /\ ticked = IF date \in TickingDates THEN 0 ELSE MaxSeconds
  /\ flag = FALSE
  /\ registers = Registers(format, date)
  /\ phase = "wait" /\ left = <<>> /\ reading = Blank /\ rtc_values = <<>>
  /\ crossed = FALSE
  /\ minutes = None

-----------------------------------------------------------------------------
(* The clock. A reading that is under way sees one update at most.         *)
FlagUp ==
  /\ ~ flag /\ ticked < MaxSeconds /\ ~ crossed /\ phase # "done"
  /\ flag' = TRUE
  /\ crossed' = (phase # "wait")
  /\ UNCHANGED <<format, date, ticked, registers, driver>>

UpdateRegister ==
  /\ flag
  /\ \E r \in DOMAIN registers :
       LET next == Registers(format, NextSecond(date))[r] IN
       /\ registers[r] # next
       /\ registers' = [registers EXCEPT ![r] = next]
  /\ UNCHANGED <<format, date, ticked, flag, driver, crossed>>

FlagDown ==
  /\ flag /\ registers = Registers(format, NextSecond(date))
  /\ date' = NextSecond(date)
  /\ ticked' = ticked + 1
  /\ flag' = FALSE
  /\ UNCHANGED <<format, registers, driver, crossed>>

-----------------------------------------------------------------------------
(* try_read_rtc begins when no update is under way.                        *)
Wait ==
  /\ phase = "wait" /\ ~ flag
  /\ phase' = "read"
  /\ left' = Order(format)
  /\ reading' = Blank
  /\ UNCHANGED <<clock, rtc_values, minutes, crossed>>

ReadRegister ==
  /\ phase = "read" /\ left # <<>>
  /\ reading' = [reading EXCEPT ![Head(left)] = registers[Head(left)]]
  /\ left' = Tail(left)
  /\ phase' = IF left' = <<>> THEN "compare" ELSE "read"
  /\ UNCHANGED <<clock, rtc_values, minutes, crossed>>

(* The first reading is kept; the others are compared with it.             *)
KeepFirst ==
  /\ phase = "compare" /\ rtc_values = <<>>
  /\ rtc_values' = reading
  /\ phase' = "wait"
  /\ crossed' = FALSE
  /\ UNCHANGED <<clock, left, reading, minutes>>

(* Faulty variant: memcmp is taken for a test that the two are equal.      *)
AgreeNot(a, b) == a # b

Agree(a, b) == a = b

ReadAgain ==
  /\ phase = "compare" /\ rtc_values # <<>> /\ ~ Agree(reading, rtc_values)
  /\ phase' = "wait"
  /\ crossed' = FALSE
  /\ UNCHANGED <<clock, left, reading, rtc_values, minutes>>

(* values = values2, and the adjustments: in place.                        *)
ConfirmDate ==
  /\ phase = "compare" /\ rtc_values # <<>> /\ Agree(reading, rtc_values)
  /\ rtc_values' = Adjusted(format, reading)
  /\ phase' = "confirmed"
  /\ UNCHANGED <<clock, left, reading, minutes, crossed>>

Convert ==
  /\ phase = "confirmed"
  /\ minutes' = Minutes(rtc_values)
  /\ phase' = "done"
  /\ UNCHANGED <<clock, left, reading, rtc_values, crossed>>

-----------------------------------------------------------------------------
(* Sixty seconds after 11:00:00 the old minute goes with the new second    *)
(* again: by then a reading torn between two seconds can be repeated, by   *)
(* one that is torn elsewhere.                                             *)
ASSUME RightAssumption == MaxSeconds < 60

(* What the driver reads of a second. No century register is read where    *)
(* the firmware names none.                                                *)
AsRead(f, d) == IF f.century THEN Registers(f, d) ELSE [Registers(f, d) EXCEPT !.century = 0]

(* init_rtc takes a year for a leap year by the years since 1601, without  *)
(* the one it is in.                                                       *)
LeapIsKnown(y) == is_leap_year((y - 1601) % 65536) <=> IsLeap(y)

(* Of which seconds init_rtc finds the time of the calendar: the century   *)
(* it assumes is decoded as if it were BCD, and so is the afternoon's bit  *)
(* of a twelve-hour clock.                                                 *)
ConversionIsRight(f, d) ==
  /\ f.binary \/ (f.century /\ (f.hours24 \/ d.hour < 12))
  /\ f.century \/ d.year \div 100 = 20
  /\ d.month < 3 \/ LeapIsKnown(d.year)

(* What init_rtc arrives at, in every format and on every date, is what it *)
(* makes of one single second: the one the clock shows now, or the one     *)
(* before, if the clock went on meanwhile. No mixture of two seconds, such *)
(* as the old hour with the new minute, gets through, although each of the *)
(* readings may be one. And if that second is one that it converts right,  *)
(* the time is the calendar's.                                             *)
UtcIsRight ==
  phase = "done" =>
    \E d \in {date, PreviousSecond(date)} :
      /\ rtc_values = Adjusted(format, AsRead(format, d)) /\ minutes = Minutes(rtc_values)
      /\ ConversionIsRight(format, d) =>
           minutes = TrueMinutes(d) /\ rtc_values.seconds = d.second

(* The date is confirmed, unless the clock has ticked over meanwhile. (If  *)
(* it has, the loop goes on until a reading is the same as the first, for  *)
(* that is never replaced.)                                                *)
ConfirmsWithinSecond == phase = "wait" ~> phase = "done" \/ ticked > 0
=============================================================================
