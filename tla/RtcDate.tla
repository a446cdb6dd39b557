------------------------------- MODULE RtcDate -------------------------------
(***************************************************************************)
(* Dates: the calendar, the registers in which the CMOS clock shows a      *)
(* date (binary or BCD, 12 or 24 hours), and what init_rtc                 *)
(* (kernel/src/x86_64/rtc.c) makes of a confirmed reading of them: minutes *)
(* since 1970. The registers are bytes; the conversion is the code's,      *)
(* operation for operation, each as an operator on the reading.            *)
(***************************************************************************)
EXTENDS Integers, FiniteSets

CONSTANTS
  Dates,     \* dates and times the clock may show when the kernel boots
  Formats    \* register 0x0B and whether there is a century register:
             \* [binary, hours24, century : BOOLEAN]

ASSUME DatesAssumption ==
  Dates \subseteq [year : 1970..9999, month : 1..12, day : 1..31,
                   hour : 0..23, minute : 0..59, second : 0..59]
ASSUME FormatsAssumption ==
  Formats \subseteq [binary : BOOLEAN, hours24 : BOOLEAN, century : BOOLEAN]

-----------------------------------------------------------------------------
(* The calendar. *)
IsLeap(y) == y % 4 = 0 /\ (y % 100 # 0 \/ y % 400 = 0)
DaysIn(y, m) == CASE m \in {4, 6, 9, 11} -> 30
                  [] m = 2 -> IF IsLeap(y) THEN 29 ELSE 28
                  [] OTHER -> 31
LeapsBefore(y) == {l \in 1970..(y - 1) : IsLeap(l)}
DaysBefore(y, m) == {day \in (1..12) \X (1..31) : day[1] < m /\ day[2] <= DaysIn(y, day[1])}
DaysSince1970(d) ==
  365 * (d.year - 1970) + Cardinality(LeapsBefore(d.year))
    + Cardinality(DaysBefore(d.year, d.month)) + d.day - 1
(* The date one second later. *)
NextSecond(d) ==
  IF d.second < 59 THEN [d EXCEPT !.second = @ + 1]
  ELSE IF d.minute < 59 THEN [d EXCEPT !.second = 0, !.minute = @ + 1]
  ELSE IF d.hour < 23 THEN [d EXCEPT !.second = 0, !.minute = 0, !.hour = @ + 1]
  ELSE LET midnight == [d EXCEPT !.second = 0, !.minute = 0, !.hour = 0] IN
       IF d.day < DaysIn(d.year, d.month) THEN [midnight EXCEPT !.day = @ + 1]
       ELSE IF d.month < 12 THEN [midnight EXCEPT !.day = 1, !.month = @ + 1]
       ELSE [midnight EXCEPT !.day = 1, !.month = 1, !.year = @ + 1]
(* And one second earlier. *)
PreviousSecond(d) ==
  IF d.second > 0 THEN [d EXCEPT !.second = @ - 1]
  ELSE IF d.minute > 0 THEN [d EXCEPT !.second = 59, !.minute = @ - 1]
  ELSE IF d.hour > 0 THEN [d EXCEPT !.second = 59, !.minute = 59, !.hour = @ - 1]
  ELSE LET evening == [d EXCEPT !.second = 59, !.minute = 59, !.hour = 23] IN
       IF d.day > 1 THEN [evening EXCEPT !.day = @ - 1]
       ELSE IF d.month > 1 THEN [evening EXCEPT !.day = DaysIn(d.year, d.month - 1), !.month = @ - 1]
       ELSE [evening EXCEPT !.day = 31, !.month = 12, !.year = @ - 1]
Valid(d) == d.day <= DaysIn(d.year, d.month)
TrueMinutes(d) == (DaysSince1970(d) * 24 + d.hour) * 60 + d.minute

(* The registers, as a clock in a given format shows them. *)
Bcd(v) == ((v \div 10) * 16) + (v % 10)
Coded(f, v) == IF f.binary THEN v ELSE Bcd(v)
HourRegister(f, h) ==
  IF f.hours24 THEN Coded(f, h)
  ELSE Coded(f, IF h % 12 = 0 THEN 12 ELSE h % 12) + (IF h >= 12 THEN 128 ELSE 0)
Registers(f, d) ==
  [seconds |-> Coded(f, d.second), minutes |-> Coded(f, d.minute),
   hours |-> HourRegister(f, d.hour), days |-> Coded(f, d.day),
   months |-> Coded(f, d.month), years |-> Coded(f, d.year % 100),
   century |-> Coded(f, d.year \div 100)]

-----------------------------------------------------------------------------
(* No century register: the century is assumed, as a number. *)
AssumeCentury(f, v) == IF f.century THEN v ELSE [v EXCEPT !.century = 20]

bcd_to_bin(v) == (((v \div 16) * 10) + (v % 16)) % 256

adjust_bcd(f, v) == IF f.binary THEN v ELSE [r \in DOMAIN v |-> bcd_to_bin(v[r])]

(* Faulty variant: noon is taken for midnight. *)
HoursNoNoon(h) == (h % 128) + (IF h >= 128 THEN 12 ELSE 0)

(* The twelve-hour clock, with the afternoon in bit 7. *)
Hours(h) ==
  LET step == IF h >= 128 THEN 12 ELSE 0 IN
  IF h % 128 = 12 THEN step ELSE (h % 128) + step

AdjustHours(f, v) == IF f.hours24 THEN v ELSE [v EXCEPT !.hours = Hours(@)]

(* The reading as init_rtc has adjusted it: in this order. *)
Adjusted(f, v) == AdjustHours(f, adjust_bcd(f, AssumeCentury(f, v)))

Int16(v) == IF v % 65536 < 32768 THEN v % 65536 ELSE (v % 65536) - 65536

leap_days(start) ==
  ((start \div 4) - (start \div 100) + (start \div 400)) % 65536
LEAP_DAYS_1970 == (369 \div 4) - (369 \div 100)

is_leap_year(start) == start % 4 = 0 /\ (start % 100 = 0 \/ start % 400 = 0)

StartOfMonth == <<0, 31, 59, 90, 120, 151, 181, 212, 243, 273, 304, 334>>

DaysInYear(v, leap) ==
  StartOfMonth[v.months] + v.days - 1 + (IF v.months >= 3 /\ leap THEN 1 ELSE 0)

Minutes(v) ==
  LET year == v.century * 100 + v.years
      leap_year_start == (year - 1601) % 65536
      days == Int16(year - 1970) * 365 + Int16(leap_days(leap_year_start) - LEAP_DAYS_1970)
                + DaysInYear(v, is_leap_year(leap_year_start))
  IN  (days * 24 + v.hours) * 60 + v.minutes
=============================================================================
