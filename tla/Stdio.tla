-------------------------------- MODULE Stdio --------------------------------
(***************************************************************************)
(* Formatted output (kernel/src/common/stdio.c): what vfprintf writes to   *)
(* the terminal for the conversion of a number or a string.                *)
(*                                                                         *)
(* A format is the sequence of its conversions, already parsed: [conv,     *)
(* flags, width, precision (-1: none), length]. Literal text is left out.  *)
(* The text of a number is a sequence of digits (0..15) and of the marks   *)
(* below, a string is the memory from its first character on; the terminal *)
(* always takes all that is written to it.                                 *)
(***************************************************************************)
EXTENDS Integers, Sequences, SequencesExt

CONSTANTS
  IntRange, LongRange   \* 2^32 and 2^64: of int, and of long

ASSUME WordsAssumption == IntRange \in Nat \ {0, 1} /\ LongRange \in Nat \ {0, 1}

VARIABLES
  call,    \* the conversions that vfprintf has not reached yet, each with
           \* its argument: [spec, value, told]; a reader is to be told that
  log      \* what is on the terminal: [spec, told, text]
output == <<call, log>>

Space == 32
Plus == 43
Minus == 45
Letter == 120    \* the x of a prefix
Nul == "nul"     \* the end of a string
NoPrecision == -1
Format(conv, flags, width, precision, length) ==
  [conv |-> conv, flags |-> flags, width |-> width, precision |-> precision, length |-> length]

LongLengths == {"l", "ll", "z", "t", "j", "w64"}

-----------------------------------------------------------------------------
Rep(count, mark) == [i \in 1..count |-> mark]

Larger(a, b) == IF a >= b THEN a ELSE b

(* The last n digits of a number. *)
Numeral(radix, value, n) ==
  LET rest[i \in 0..n] == IF i = 0 THEN value ELSE rest[i - 1] \div radix
  IN  [i \in 1..n |-> rest[n - i] % radix]

(* How many digits it has, beside leading zeros. *)
DigitsOf(radix, value) ==
  LET rest[i \in 0..64] == IF i = 0 THEN value ELSE rest[i - 1] \div radix
  IN  CHOOSE n \in 0..64 : rest[n] = 0 /\ (n = 0 \/ rest[n - 1] # 0)

(* read_int and read_unsigned_int: int, unless the length says otherwise.  *)
(* A negative value is there as the word that it is in two's complement.   *)
ReadUnsigned(length, arg) ==
  arg % (IF length \in LongLengths THEN LongRange ELSE IntRange)

ReadInt(length, arg) ==
  LET int == ReadUnsigned("", arg) IN
  IF length \in LongLengths THEN ReadUnsigned(length, arg)
  ELSE IF int < IntRange \div 2 THEN int ELSE LongRange - IntRange + int

(* Faulty variant: the loop over the digits ends when there are no more.   *)
DecDigitsNoZeros(value, precision) == DigitsOf(10, value)

DecDigits(value, precision) == Larger(DigitsOf(10, value), precision)

(* print_dec_int. The padding in front of the sign is made of zeros; its   *)
(* length is an unsigned int.                                              *)
PrintDec(value, precision, is_signed, flags, min_width) ==
  LET given == IF precision = NoPrecision THEN 1 ELSE precision
      negative == is_signed /\ value >= LongRange \div 2
      sign == IF negative THEN <<Minus>> ELSE IF "plus" \in flags THEN <<Plus>> ELSE <<>>
      magnitude == IF negative THEN LongRange - value ELSE value
      real == IF given <= 20 THEN given ELSE 20
      missing == IF given < min_width THEN min_width - given ELSE 0
      padding == IF "zero" \in flags THEN 0 ELSE missing
      extra == (given - real) + (missing - padding)
  IN  Rep((padding - Len(sign)) % IntRange, 0) \o sign \o Rep(extra, 0)
        \o Numeral(10, magnitude, DecDigits(magnitude, real))

(* print_unsigned_int. A number of more than sixteen digits is cut short.  *)
PrintUnsigned(value, precision, prefix, flags, min_width, radix) ==
  LET given == IF precision = NoPrecision THEN 1 ELSE precision
      digits == Larger(DigitsOf(radix, value), given)
      mark == IF "pound" \in flags THEN prefix ELSE <<>>
      padding == Larger(min_width - (digits + Len(mark)), 0)
      numeral == IF digits <= 16 THEN Numeral(radix, value, digits)
                 ELSE Rep(digits - 16, 0)
                        \o Numeral(radix, value \div radix, IF radix = 2 THEN 64 ELSE 16)
  IN  IF digits > 16 /\ padding = 0 THEN numeral
      ELSE IF "minus" \in flags THEN mark \o numeral \o Rep(padding, Space)
      ELSE IF "zero" \in flags THEN mark \o Rep(padding, 0) \o numeral
      ELSE Rep(padding, Space) \o mark \o numeral

strnlen(string, maxlen) ==
  CHOOSE n \in 0..maxlen : /\ \A i \in 1..n : string[i] # Nul
                           /\ n = maxlen \/ string[n + 1] = Nul
strlen(string) == SelectInSeq(string, LAMBDA c : c = Nul) - 1

(* What is in memory up to its end, or as far as the precision goes. *)
PrintString(string, precision) ==
  SubSeq(string, 1, IF precision = NoPrecision THEN strlen(string) ELSE strnlen(string, precision))

(* The conversions of vfprintf. A pointer has a prefix, and its precision  *)
(* is not looked at; the null pointer is shown by name (here: by nothing). *)
Converted(spec, arg) ==
  LET value == ReadUnsigned(spec.length, arg) IN
  CASE spec.conv = "s" -> PrintString(arg, spec.precision)
    [] spec.conv = "d" -> PrintDec(ReadInt(spec.length, arg), spec.precision, TRUE,
                                   spec.flags, spec.width)
    [] spec.conv = "u" -> PrintDec(value, spec.precision, FALSE, spec.flags, spec.width)
    [] spec.conv = "x" -> PrintUnsigned(value, spec.precision, <<0, Letter>>,
                                        spec.flags, spec.width, 16)
    [] spec.conv = "p" -> IF arg = 0 THEN <<>>
                          ELSE PrintUnsigned(arg, NoPrecision, <<0, Letter>>,
                                             spec.flags \union {"pound"}, spec.width, 16)

(* One turn of the loop of vfprintf. *)
Vfprintf ==
  /\ call # <<>>
  /\ log' = Append(log, [spec |-> Head(call).spec, told |-> Head(call).told,
                         text |-> Converted(Head(call).spec, Head(call).value)])
  /\ call' = Tail(call)

-----------------------------------------------------------------------------
(* What a reader of the terminal makes of a text. *)
Radix(spec) == IF spec.conv \in {"d", "u"} THEN 10 ELSE 16
Prefix(spec) == IF spec.conv = "p" \/ "pound" \in spec.flags THEN <<0, Letter>> ELSE <<>>
Precision(spec) == IF spec.conv = "p" THEN 1 ELSE Larger(spec.precision, 1)
Value(radix, digits) == FoldLeft(LAMBDA n, d : n * radix + d, 0, digits)

NumberIsShown(entry) ==
  LET spec == entry.spec
      text == entry.text
      digits == SubSeq(text, Len(Prefix(spec)) + 1, Len(text))
  IN  /\ IsPrefix(Prefix(spec), text)
      /\ \A j \in DOMAIN digits : digits[j] < Radix(spec)
      /\ Value(Radix(spec), digits) = entry.told
      /\ Len(digits) >= Precision(spec)
      /\ Len(text) >= spec.width
      /\ digits[1] = 0 => Len(digits) <= Precision(spec) \/ Len(text) = spec.width

(* Every number on the terminal reads as what it was to tell: after its    *)
(* prefix there are digits of its radix and nothing else, at least as many *)
(* as the precision asks for, and no zero in front but what precision and  *)
(* width ask for; and every string is the one that was to be told. So the  *)
(* date is shown, the tables of the firmware are named, and a dump shows   *)
(* under the name of each general, segment and control register what that  *)
(* held when it was interrupted, from the stub's slot to the digits, and   *)
(* of the floating-point state what the context has of it (which is not    *)
(* the machine's: the stub stores nothing there, see the README). (Of the  *)
(* formats the kernel uses, where a pointer has no precision, and of       *)
(* numbers that are not negative: see the README.)                         *)
NumbersAreShown ==
  \A i \in DOMAIN log :
    CASE log[i].spec.conv = "s" -> log[i].text = log[i].told
      [] log[i].spec.conv = "p" -> log[i].told = 0 \/ NumberIsShown(log[i])
      [] OTHER -> NumberIsShown(log[i])
=============================================================================
