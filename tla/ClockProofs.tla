---------------------------- MODULE ClockProofs -----------------------------
(***************************************************************************)
(* The boot time and the wall clock for every frequency, every rate of the *)
(* interrupts and delay within the assumptions on the hardware (Clock);    *)
(* then the date (RtcRead, in RtcLog), on every date and in every format   *)
(* of the registers, however the updates of the CMOS clock fall between    *)
(* the driver's reads: what is confirmed is of one second, and its time is *)
(* the calendar's where the conversion is right.                           *)
(***************************************************************************)
EXTENDS Clock, RtcLog, TLAPS, FiniteSetTheorems, WellFoundedInduction

(* What one tick of the TSC is. *)
PerTick == NanosPerSecond \div Freq

Duration == [s : Nat, n : 0..(NanosPerSecond - 1)]

TypeInv ==
  /\ {now, began, tsc, late_irq, late_step, irqs, jumps, stepped, boottime} \subseteq Nat
  /\ {rtc_last_init_time, rtc_last_init_boottime} \subseteq Nat
  /\ last_timer_tsc \in Duration /\ shown \in Duration
  /\ values \in [second : 0..(SecondsPerMinute - 1), minute : Nat]
  /\ pc \in {"start", "up", "down", "boottime", "second", "done"}
  /\ began <= now /\ now - began <= MaxTicks
  /\ late_irq <= TimerPeriod
  /\ Syncing => late_step <= MaxDelay

(* The steps of the TSC from interrupt to interrupt, with the one that is  *)
(* under way, are no more than the time that has passed, and all of it as  *)
(* long as nobody sets the TSC back.                                       *)
SteppedInv ==
  /\ stepped <= PerTick * (now - began)
  /\ stepped + PerTick * tsc - Nanos(last_timer_tsc) <= PerTick * (now - began)
  /\ jumps = 0 =>
       /\ PerTick * tsc - Nanos(last_timer_tsc) = PerTick * late_irq
       /\ stepped = PerTick * (now - late_irq - began)

ShownInv ==
  /\ rtc_last_init_boottime <= boottime
  /\ pc # "done" => Nanos(shown) = 0
  /\ pc = "done" => Nanos(shown) <= Nanos(read_global_rtc)

(* The time of the last step of init_rtc, the second that it read at       *)
(* first, and the moment it waits for: the next second begins then, or the *)
(* one after that.                                                         *)
Since == now - late_step
FirstSecond == values.minute * SecondsPerMinute + values.second
Boundary(k) == (FirstSecond + k) * Freq

(* What was noted of the boot time when the second that began at b was new.*)
Noted(b) ==
  jumps = 0 =>
    LET nanos == rtc_last_init_boottime * NanosPerMicro
    IN  /\ PerTick * (b - TimerPeriod - began) <= nanos + Lost
        /\ nanos <= PerTick * (b + 2 * MaxDelay - began)

SyncInv ==
  /\ pc = "up" =>
       /\ Boundary(0) <= Since /\ Since < Boundary(2)
       /\ Since < Boundary(1) \/ Since < Boundary(2) - UipTicks
  /\ pc = "down" =>
       \E k \in 1..2 : Boundary(k) - UipTicks <= Since /\ Since < Boundary(k)
  /\ pc = "boottime" =>
       \E k \in 1..2 : Boundary(k) <= Since /\ Since < Boundary(k) + MaxDelay
  /\ pc = "second" =>
       \E k \in 1..2 : \E b \in {Boundary(k)} :
         /\ b <= Since /\ Since < b + 2 * MaxDelay
         /\ Noted(b)
  /\ pc = "done" => \E b \in {rtc_last_init_time * Freq} : Noted(b)

IInv == TypeInv /\ SteppedInv /\ BoottimeFollowsTsc /\ ShownInv /\ SyncInv

-----------------------------------------------------------------------------
(* Products, quotients and durations.                                      *)
LEMMA DivMod ==
  ASSUME NEW a \in Int, NEW n \in Nat \ {0}
  PROVE  /\ a \div n \in Int
         /\ a % n \in 0..(n - 1)
         /\ a = (a \div n) * n + (a % n)
<1> DEFINE m == (a \div n) * n
<1>1. a \div n \in Int /\ a % n \in 0..(n - 1)
  OBVIOUS
<1>2. a - m = a % n /\ m \in Int
  OBVIOUS
<1> HIDE DEF m
<1>3. a = m + (a % n)
  BY <1>1, <1>2
<1> QED
  BY <1>1, <1>3, Zenon DEF m

LEMMA QuotientIsNat ==
  ASSUME NEW a \in Nat, NEW n \in Nat \ {0}
  PROVE  a \div n \in Nat
OBVIOUS

LEMMA NatIsInt == \A a \in Nat : a \in Int
OBVIOUS

LEMMA SumsKeepOrder ==
  \A x, n, l, m \in Int : l <= m /\ x <= n + l => x <= n + m
OBVIOUS

LEMMA ProductsKeepOrder ==
  ASSUME NEW a \in Int, NEW b \in Int, NEW n \in Nat \ {0}
  PROVE  /\ a <= b <=> n * a <= n * b
         /\ a < b <=> n * a < n * b
<1> DEFINE d == b - a
<1>1. d \in Int /\ n * b = n * a + n * d /\ n * a \in Int /\ n * d \in Int
  OBVIOUS
<1> HIDE DEF d
<1>2. d >= 1 => n * d >= n * 1
  BY <1>1
<1>3. d <= -1 => n * d <= n * (-1)
  BY <1>1
<1>4. d = 0 => n * d = 0
  BY <1>1
<1> DEFINE p == n * d
<1>5. n * 1 = n /\ n * (-1) = -n
  OBVIOUS
<1>6. p \in Int /\ n * b = n * a + p
      /\ (d >= 1 => p >= 1) /\ (d <= -1 => p <= -1) /\ (d = 0 => p = 0)
  BY <1>1, <1>2, <1>3, <1>4, <1>5
<1>7. (d >= 1 <=> a < b) /\ (d <= -1 <=> b < a) /\ (d = 0 <=> a = b)
  BY DEF d
<1> HIDE DEF p
<1> DEFINE na == n * a
           nb == n * b
<1>8. na \in Int /\ nb \in Int /\ nb = na + p
  BY <1>6
<1> HIDE DEF na, nb
<1>9. (a <= b <=> na <= nb) /\ (a < b <=> na < nb)
  BY <1>1, <1>6, <1>7, <1>8
<1> QED
  BY <1>9, Zenon DEF na, nb

(* A number between two multiples of n.                                    *)
LEMMA QuotientIs ==
  ASSUME NEW a \in Int, NEW n \in Nat \ {0}, NEW k \in Int,
         k * n <= a, a < k * n + n
  PROVE  a \div n = k /\ a % n = a - k * n
<1> DEFINE q == a \div n
           r == a % n
           kn == n * k
           qn == n * q
<1>1. q \in Int /\ r \in 0..(n - 1) /\ a = qn + r
  BY DivMod
<1>2. kn \in Int /\ qn \in Int /\ kn <= a /\ a < kn + n /\ kn = k * n
  BY <1>1
<1>3. n * (k + 1) = kn + n /\ n * (q + 1) = qn + n
  BY <1>1
<1> DEFINE k1 == n * (k + 1)
           q1 == n * (q + 1)
<1>4. (q < k + 1 <=> qn < k1) /\ (k < q + 1 <=> kn < q1)
  <2> HIDE DEF q
  <2> QED
    BY <1>1, ProductsKeepOrder
<1>5. k1 = kn + n /\ q1 = qn + n
  BY <1>3
<1> HIDE DEF q, r, kn, qn, k1, q1
<1>6. q = k
  BY <1>1, <1>2, <1>4, <1>5
<1>7. qn = kn
  BY <1>6 DEF qn, kn
<1>8. r = a - k * n
  BY <1>1, <1>2, <1>7
<1> QED
  BY <1>6, <1>8 DEF q, r

LEMMA Wraps ==
  ASSUME NEW a \in Int, NEW n \in Nat \ {0}
  PROVE  /\ a < 0 /\ a + n >= 0 => (a % n) = a + n
         /\ 0 <= a /\ a < n => (a % n) = a /\ ((a + n) % n) = a
<1>1. ASSUME NEW k \in Int, NEW b \in Int, k = -1 \/ k = 0 \/ k = 1, k * n <= b, b < k * n + n
      PROVE  (b % n) = b - k * n
  BY <1>1, QuotientIs
<1>2. (-1) * n = -n /\ 0 * n = 0 /\ 1 * n = n
  OBVIOUS
<1>3. ASSUME a < 0, a + n >= 0 PROVE (a % n) = a + n
  <2> PICK k \in Int : k = -1
    OBVIOUS
  <2>1. k * n = -n
    BY <1>2
  <2> QED
    BY <1>1, <1>3, <2>1
<1>4. ASSUME 0 <= a, a < n PROVE (a % n) = a
  <2> PICK k \in Int : k = 0
    OBVIOUS
  <2>1. k * n = 0
    BY <1>2
  <2> QED
    BY <1>1, <1>4, <2>1
<1>5. ASSUME 0 <= a, a < n PROVE ((a + n) % n) = a
  <2> PICK k \in Int : k = 1
    OBVIOUS
  <2>1. k * n = n
    BY <1>2
  <2> PICK b \in Int : b = a + n
    OBVIOUS
  <2>2. (b % n) = b - k * n
    BY <1>1, <1>5, <2>1
  <2> QED
    BY <2>1, <2>2
<1> QED
  BY <1>3, <1>4, <1>5

LEMMA Units ==
  /\ PerTick \in Nat \ {0}
  /\ NanosPerSecond \in Nat \ {0}
  /\ Freq \in Nat \ {0}
  /\ Freq * PerTick = NanosPerSecond
<1>1. Freq \in Nat \ {0} /\ NanosPerMicro \in Nat \ {0} /\ MicrosPerSecond \in Nat \ {0}
      /\ (NanosPerSecond % Freq) = 0
  BY ClockAssumption
<1>2. NanosPerSecond \in Nat \ {0}
  BY <1>1 DEF NanosPerSecond
<1> DEFINE k == PerTick
           f == k * Freq
<1>3. k \in Int /\ NanosPerSecond = f + (NanosPerSecond % Freq)
  BY <1>1, <1>2, DivMod DEF PerTick
<1>4. f \in Int /\ NanosPerSecond = f
  BY <1>1, <1>2, <1>3
<1>5. k > 0
  <2> SUFFICES ASSUME k <= 0 PROVE FALSE
    BY <1>3
  <2> HIDE DEF k
  <2>1. Freq * k <= Freq * 0
    BY <1>1, <1>3, ProductsKeepOrder
  <2>2. Freq * k = k * Freq /\ Freq * 0 = 0
    BY <1>1, <1>3
  <2>3. f <= 0
    BY <2>1, <2>2
  <2> QED
    BY <2>3, <1>4, <1>2
<1> HIDE DEF k
<1>6. Freq * k = k * Freq
  BY <1>1, <1>3
<1> QED
  BY <1>1, <1>2, <1>3, <1>4, <1>5, <1>6 DEF k

LEMMA NanosOfTicks ==
  ASSUME NEW ticks \in Int
  PROVE  NanosOf(ticks) = PerTick * ticks
BY Units DEF NanosOf, PerTick

(* The duration that read_tsc gives is the TSC's number of ticks.          *)
LEMMA ReadTscIsTsc ==
  ASSUME NEW raw \in Nat
  PROVE  LET d == [s |-> raw \div Freq, n |-> ((raw % Freq) * NanosPerSecond) \div Freq]
         IN  d \in Duration /\ Nanos(d) = PerTick * raw
<1> DEFINE q == raw \div Freq
           r == raw % Freq
           n == (r * NanosPerSecond) \div Freq
           d == [s |-> q, n |-> n]
<1>1. q \in Nat /\ r \in 0..(Freq - 1)
  BY Units
<1>2. raw = q * Freq + r
  BY Units, DivMod
<1> HIDE DEF q, r
<1>3. r * NanosPerSecond = (PerTick * r) * Freq
  BY <1>1, Units
<1> DEFINE p == PerTick * r
           pf == p * Freq
<1>4. p \in Nat /\ pf \in Int
  BY <1>1, Units
<1>5. pf \div Freq = p
  <2> HIDE DEF p
  <2>1. p * Freq <= pf /\ pf < p * Freq + Freq
    BY <1>4, Units
  <2> HIDE DEF pf
  <2> QED
    BY <2>1, <1>4, Units, QuotientIs
<1>6. n = p
  BY <1>3, <1>5
<1>7. p < NanosPerSecond
  <2>1. r < Freq
    BY <1>1, Units
  <2>2. PerTick * r < PerTick * Freq
    BY <1>1, <2>1, Units, ProductsKeepOrder
  <2>3. PerTick * Freq = NanosPerSecond
    BY Units
  <2> QED
    BY <2>2, <2>3
<1>8. d \in Duration
  BY <1>1, <1>4, <1>6, <1>7, Units DEF Duration
<1>9. Nanos(d) = PerTick * raw
  <2>1. Nanos(d) = q * NanosPerSecond + p
    BY <1>6 DEF Nanos
  <2>2. q * NanosPerSecond = PerTick * (q * Freq)
    BY <1>1, Units
  <2>3. PerTick * (q * Freq + r) = PerTick * (q * Freq) + PerTick * r
    BY <1>1, Units
  <2> QED
    BY <1>2, <2>1, <2>2, <2>3
<1> QED
  BY <1>8, <1>9 DEF q, r

LEMMA SubIsDifference ==
  ASSUME NEW d1 \in Duration, NEW d2 \in Duration
  PROVE  /\ duration_sub(d1, d2) \in [s : Int, n : 0..(NanosPerSecond - 1)]
         /\ Nanos(duration_sub(d1, d2)) = Nanos(d1) - Nanos(d2)
<1> DEFINE m == d1.n - d2.n
           n == m % Word32
           d == duration_sub(d1, d2)
           N == NanosPerSecond
<1>1. /\ d1.s \in Nat /\ d2.s \in Nat /\ d1.n \in 0..(N - 1) /\ d2.n \in 0..(N - 1)
      /\ N \in Nat \ {0} /\ Word32 \in Nat \ {0} /\ Word32 > 2 * N
  BY Units, ClockAssumption DEF Duration
<1>2. m \in Int /\ m < N /\ m > -N
  BY <1>1
<1>3. m >= 0 => n = m
  BY <1>1, <1>2
<1>4. m < 0 => n = m + Word32
  <2> HIDE DEF m
  <2> SUFFICES ASSUME m < 0 PROVE (m % Word32) = m + Word32
    OBVIOUS
  <2>1. m \in Int /\ m + Word32 >= 0 /\ Word32 \in Nat \ {0}
    BY <1>1, <1>2
  <2> QED
    BY <2>1, Wraps
<1>5. CASE m >= 0
  <2>1. n = m /\ ~(n > N)
    BY <1>1, <1>2, <1>3, <1>5
  <2>2. d = [s |-> d1.s - d2.s, n |-> m]
    BY <2>1 DEF duration_sub
  <2>3. Nanos(d) = (d1.s - d2.s) * N + (d1.n - d2.n)
    BY <2>2 DEF Nanos
  <2>4. (d1.s - d2.s) * N = d1.s * N - d2.s * N
    BY <1>1
  <2> QED
    BY <1>1, <1>2, <1>5, <2>2, <2>3, <2>4 DEF Nanos
<1>6. CASE m < 0
  <2>1. n = m + Word32 /\ n > N
    BY <1>1, <1>2, <1>4, <1>6
  <2>2. ((n + N) % Word32) = m + N
    <3> HIDE DEF m
    <3>1. m + N \in Nat /\ m + N < Word32
      BY <1>1, <1>2
    <3> DEFINE k == m + N
    <3>2. k \in Nat /\ k < Word32 /\ n + N = k + Word32
      BY <2>1, <3>1, <1>1, <1>2
    <3> HIDE DEF k, n
    <3>3. ((k + Word32) % Word32) = k
      <4>1. k \in Int /\ 0 <= k /\ k < Word32 /\ Word32 \in Nat \ {0}
        BY <3>2, <1>1
      <4> QED
        BY <4>1, Wraps
    <3> QED
      BY <3>2, <3>3 DEF k
  <2>3. d = [s |-> d1.s - d2.s - 1, n |-> m + N]
    BY <2>1, <2>2 DEF duration_sub
  <2>4. Nanos(d) = (d1.s - d2.s - 1) * N + (d1.n - d2.n + N)
    BY <2>3 DEF Nanos
  <2>5. (d1.s - d2.s - 1) * N = d1.s * N - d2.s * N - N
    BY <1>1
  <2> QED
    BY <1>1, <1>2, <1>6, <2>3, <2>4, <2>5 DEF Nanos
<1> QED
  BY <1>2, <1>5, <1>6

LEMMA NanosIsNat ==
  ASSUME NEW d \in Duration
  PROVE  Nanos(d) \in Nat
BY Units DEF Duration, Nanos

(* What timer_irq counts of a step: nothing if it is one back.             *)
LEMMA SoundStep ==
  ASSUME NEW d \in [s : Int, n : 0..(NanosPerSecond - 1)]
  PROVE  /\ Sound(d) \in Duration
         /\ Nanos(Sound(d)) = IF Nanos(d) > 0 THEN Nanos(d) ELSE 0
<1> DEFINE p == d.s * NanosPerSecond
<1>1. d.s \in Int /\ d.n \in 0..(NanosPerSecond - 1) /\ NanosPerSecond \in Nat \ {0} /\ p \in Int
  BY Units
<1>2. d = [s |-> d.s, n |-> d.n] /\ Nanos(d) = p + d.n
  BY DEF Nanos
<1>3. CASE d.s < 0
  <2>1. NanosPerSecond * d.s <= NanosPerSecond * (-1)
    BY <1>1, <1>3, ProductsKeepOrder
  <2>2. p <= -NanosPerSecond
    BY <2>1, <1>1
  <2>3. Sound(d) = [s |-> 0, n |-> 0]
    BY <1>3 DEF Sound
  <2> HIDE DEF p
  <2>4. ~(Nanos(d) > 0)
    BY <1>1, <1>2, <2>2
  <2>5. Nanos(Sound(d)) = 0
    BY <2>3, <1>1 DEF Nanos
  <2> QED
    BY <1>1, <2>3, <2>4, <2>5 DEF Duration
<1>4. CASE ~(d.s < 0)
  <2>1. Sound(d) = d /\ d \in Duration
    BY <1>1, <1>2, <1>4 DEF Sound, Duration
  <2>2. Nanos(d) \in Nat
    BY <2>1, NanosIsNat
  <2> QED
    BY <2>1, <2>2
<1> QED
  BY <1>3, <1>4

(* The microseconds of a step, and what rounding loses of it.              *)
LEMMA MicrosOfStep ==
  ASSUME NEW d \in Duration, Nanos(d) < Word64 * NanosPerMicro
  PROVE  /\ Micros(d) \in Nat
         /\ Micros(d) * NanosPerMicro <= Nanos(d)
         /\ Nanos(d) <= Micros(d) * NanosPerMicro + (NanosPerMicro - 1)
<1> DEFINE C == NanosPerMicro
           M == MicrosPerSecond
           q == d.n \div C
           r == d.n % C
           m == d.s * M + q
<1>1. C \in Nat \ {0} /\ M \in Nat \ {0} /\ NanosPerSecond = C * M /\ Word64 \in Nat
  BY ClockAssumption DEF NanosPerSecond
<1>2. d.s \in Nat /\ d.n \in Nat
  BY Units DEF Duration
<1>3. q \in Nat /\ r \in 0..(C - 1) /\ d.n = q * C + r
  <2>1. C \in Nat \ {0}
    BY <1>1, Zenon
  <2> QED
    BY <1>2, <2>1, QuotientIsNat, DivMod, NatIsInt, Zenon
<1>4. m \in Nat /\ m * C = d.s * (C * M) + q * C
  <2> HIDE DEF q
  <2> QED
    BY <1>1, <1>2, <1>3
<1>5. Nanos(d) = m * C + r
  <2>1. Nanos(d) = d.s * (C * M) + d.n
    BY <1>1 DEF Nanos
  <2> QED
    BY <1>1, <1>2, <1>3, <1>4, <2>1
<1>6. m < Word64
  <2> HIDE DEF m, r
  <2>1. C * m = m * C /\ C * Word64 = Word64 * C /\ C * m \in Int
    BY <1>1, <1>4
  <2>2. C * m < C * Word64
    BY <1>1, <1>3, <1>4, <1>5, <2>1
  <2> QED
    BY <1>1, <1>4, <2>2, ProductsKeepOrder
<1>7. Micros(d) = m
  <2>1. Micros(d) = m % Word64
    BY DEF Micros
  <2> HIDE DEF m
  <2> QED
    BY <1>1, <1>4, <1>6, <2>1
<1> HIDE DEF m, q, r
<1> QED
  BY <1>1, <1>3, <1>4, <1>5, <1>7

-----------------------------------------------------------------------------
(* read_global_rtc, as long as the boot time is not less than the noted.   *)
LEMMA ClockReading ==
  ASSUME TypeInv, rtc_last_init_boottime <= boottime, boottime < Word64
  PROVE  /\ Diff = boottime - rtc_last_init_boottime
         /\ read_global_rtc \in Duration
         /\ Nanos(read_global_rtc) = rtc_last_init_time * NanosPerSecond
                + boottime * NanosPerMicro - rtc_last_init_boottime * NanosPerMicro
<1> DEFINE T == rtc_last_init_time
           D == boottime - rtc_last_init_boottime
           C == NanosPerMicro
           M == MicrosPerSecond
           q == D \div M
           r == D % M
           n == r * C
           d1 == [s |-> T, n |-> 0]
           d2 == [s |-> q, n |-> n]
<1>1. /\ C \in Nat \ {0} /\ M \in Nat \ {0} /\ NanosPerSecond = C * M
      /\ Word64 \in Nat /\ Word32 \in Nat /\ Word32 > NanosPerSecond
      /\ NanosPerSecond \in Nat \ {0}
  <2>1. Word32 > 2 * NanosPerSecond /\ NanosPerSecond \in Nat
    BY ClockAssumption, Units
  <2>2. Word32 \in Nat
    BY ClockAssumption
  <2> QED
    BY <2>1, <2>2, ClockAssumption, Units DEF NanosPerSecond
<1>2. /\ T \in Nat /\ boottime \in Nat /\ rtc_last_init_boottime \in Nat
      /\ D \in Nat /\ D < Word64
  BY <1>1 DEF TypeInv
<1>3. Diff = D
  <2> HIDE DEF D
  <2>1. D % Word64 = D
    BY <1>1, <1>2
  <2> QED
    BY <2>1 DEF Diff, D
<1>4. q \in Nat /\ r \in 0..(M - 1) /\ D = q * M + r
  <2> HIDE DEF D
  <2>1. M \in Nat \ {0}
    BY <1>1
  <2>2. q \in Nat
    BY <1>2, <2>1
  <2> QED
    BY <1>2, <2>1, <2>2, DivMod
<1>5. read_global_rtc = duration_add(d1, d2)
  BY <1>3 DEF read_global_rtc
<1> HIDE DEF D, q, r
<1>6. n \in Nat /\ n < NanosPerSecond
  <2>1. C * r < C * M
    BY <1>1, <1>4, ProductsKeepOrder
  <2>2. C * r = r * C /\ C * r \in Nat
    BY <1>1, <1>4
  <2> QED
    BY <1>1, <2>1, <2>2
<1>7. q * M * C + n = D * C
  BY <1>1, <1>4
<1> HIDE DEF n
<1>8. ((0 + n) % Word32) = n
  BY <1>1, <1>6, Wraps
<1>9. duration_add(d1, d2) = [s |-> T + q, n |-> n]
  <2>1. ~(n > NanosPerSecond)
    BY <1>1, <1>6
  <2> QED
    BY <1>8, <2>1 DEF duration_add
<1>10. read_global_rtc \in Duration
  BY <1>1, <1>2, <1>4, <1>5, <1>6, <1>9 DEF Duration
<1>11. Nanos(read_global_rtc) = (T + q) * NanosPerSecond + n
  BY <1>5, <1>9 DEF Nanos
<1>12. (T + q) * (C * M) = T * (C * M) + q * M * C
  BY <1>1, <1>2, <1>4
<1>13. D * C = boottime * C - rtc_last_init_boottime * C
  BY <1>1, <1>2 DEF D
<1>14. /\ T * (C * M) \in Int /\ D * C \in Int /\ q * M * C \in Int
       /\ boottime * C \in Int /\ rtc_last_init_boottime * C \in Int
  BY <1>1, <1>2, <1>4
<1>15. Nanos(read_global_rtc) = T * NanosPerSecond + (D * C)
  BY <1>1, <1>6, <1>7, <1>11, <1>12, <1>14
<1>16. T * NanosPerSecond \in Int
  BY <1>1, <1>2
<1> QED
  BY <1>3, <1>10, <1>13, <1>14, <1>15, <1>16 DEF D

(* The boot time has room for all the time there is.                       *)
LEMMA BoottimeFits ==
  ASSUME TypeInv, NEW b \in Nat, NEW s \in Nat, b * NanosPerMicro <= s,
         s <= PerTick * (now - began)
  PROVE  b < Word64 /\ s < Word64 * NanosPerMicro
<1> DEFINE e == now - began
<1>1. e \in Nat /\ e <= MaxTicks /\ MaxTicks \in Nat /\ Word64 \in Nat
      /\ NanosPerMicro \in Nat \ {0} /\ PerTick \in Nat \ {0}
  BY ClockAssumption, Units DEF TypeInv
<1>2. MaxTicks * PerTick < Word64 * NanosPerMicro
  BY BoottimeAssumption DEF PerTick
<1> HIDE DEF e
<1>3. PerTick * e <= PerTick * MaxTicks
  BY <1>1, ProductsKeepOrder
<1> DEFINE p == PerTick * e
           m == PerTick * MaxTicks
           w == NanosPerMicro * Word64
           c == NanosPerMicro * b
<1>4. p \in Int /\ m \in Int /\ w \in Int /\ c \in Int /\ p <= m /\ m < w /\ c <= s /\ s <= p
      /\ w = Word64 * NanosPerMicro
  <2>1. m = MaxTicks * PerTick /\ w = Word64 * NanosPerMicro /\ c = b * NanosPerMicro
    BY <1>1
  <2> QED
    BY <1>1, <1>2, <1>3, <2>1 DEF e
<1>5. c < w => b < Word64
  BY <1>1, ProductsKeepOrder
<1> HIDE DEF p, m, w, c
<1> QED
  BY <1>1, <1>4, <1>5

(* So the wall clock reads as it should, in every reachable state.         *)
Readable ==
  /\ TypeInv /\ SteppedInv /\ BoottimeFollowsTsc
  /\ rtc_last_init_boottime <= boottime

LEMMA ReadingInv ==
  ASSUME Readable
  PROVE  /\ boottime < Word64
         /\ Diff = boottime - rtc_last_init_boottime
         /\ read_global_rtc \in Duration
         /\ Nanos(read_global_rtc) = rtc_last_init_time * NanosPerSecond
                + boottime * NanosPerMicro - rtc_last_init_boottime * NanosPerMicro
<1>1. /\ boottime \in Nat /\ stepped \in Nat /\ NanosPerMicro \in Nat
  BY ClockAssumption DEF Readable, TypeInv
<1>2. boottime * NanosPerMicro \in Int
  BY <1>1
<1>3. boottime * NanosPerMicro <= stepped
  BY <1>1, <1>2 DEF Readable, BoottimeFollowsTsc, Lost
<1>4. boottime < Word64
  BY <1>1, <1>3, BoottimeFits DEF Readable, SteppedInv
<1> QED
  BY <1>4, ClockReading DEF Readable

-----------------------------------------------------------------------------
LEMMA InitIInv == Init => IInv
<1> SUFFICES ASSUME Init PROVE IInv
  OBVIOUS
<1>1. /\ Freq \in Nat \ {0} /\ SecondsPerMinute \in Nat \ {0} /\ MaxTicks \in Nat
      /\ TimerPeriod \in Nat /\ PerTick \in Nat \ {0} /\ NanosPerSecond \in Nat \ {0}
      /\ FirstTsc \subseteq Nat
  BY ClockAssumption, Units
<1>2. tsc \in Nat /\ now \in Nat
  BY <1>1 DEF Init
<1>3. last_timer_tsc \in Duration /\ Nanos(last_timer_tsc) = PerTick * tsc
  BY <1>2, ReadTscIsTsc DEF Init, read_tsc
<1>4. shown \in Duration /\ Nanos(shown) = 0
  BY <1>1 DEF Init, Duration, Nanos
<1>5. TypeInv
  BY <1>1, <1>2, <1>3, <1>4 DEF Init, TypeInv, Syncing
<1>6. SteppedInv
  <2>1. PerTick * (now - began) = 0 /\ PerTick * late_irq = 0 /\ now - late_irq - began = 0
        /\ PerTick * tsc \in Int /\ PerTick * (now - late_irq - began) = 0
    BY <1>1, <1>2 DEF Init
  <2> QED
    BY <1>3, <2>1 DEF Init, SteppedInv
<1>7. BoottimeFollowsTsc
  <2>1. /\ stepped = 0 /\ irqs = 0 /\ boottime = 0
    BY DEF Init
  <2>2. NanosPerMicro \in Nat
    BY ClockAssumption
  <2> QED
    BY <2>1, <2>2 DEF BoottimeFollowsTsc, Lost
<1>8. ShownInv /\ SyncInv
  BY <1>4 DEF Init, ShownInv, SyncInv
<1> QED
  BY <1>5, <1>6, <1>7, <1>8 DEF IInv

(* What a step does to the hardware and the timer.                         *)
LEMMA Steps ==
  ASSUME [Next]_vars
  PROVE  \/ Tick \/ SetBack \/ TimerIrq
         \/ UNCHANGED <<hw, timer>>
BY DEF Next, InitRtc, Confirm, WaitUp, WaitDown, NoteBoottime, NoteSecond,
       ReadGlobalRtc, vars

(* The step that timer_irq counts.                                         *)
LEMMA TimerStep ==
  ASSUME IInv, TimerIrq
  PROVE  \E g \in Nat, m \in Nat :
           /\ g = IF PerTick * tsc > Nanos(last_timer_tsc)
                  THEN PerTick * tsc - Nanos(last_timer_tsc) ELSE 0
           /\ m * NanosPerMicro <= g /\ g <= m * NanosPerMicro + (NanosPerMicro - 1)
           /\ stepped' = stepped + g /\ boottime' = boottime + m
           /\ last_timer_tsc' \in Duration /\ Nanos(last_timer_tsc') = PerTick * tsc
<1> DEFINE L == Nanos(last_timer_tsc)
           P == PerTick * tsc
           d == duration_sub(read_tsc, last_timer_tsc)
           step == Sound(d)
           m == Micros(step)
           g == IF P > L THEN P - L ELSE 0
           C == NanosPerMicro
           e == PerTick * (now - began)
<1>1. /\ tsc \in Nat /\ last_timer_tsc \in Duration /\ stepped \in Nat /\ boottime \in Nat
      /\ now - began \in Nat
  BY DEF IInv, TypeInv
<1>2. PerTick \in Nat \ {0} /\ C \in Nat \ {0} /\ Word64 \in Nat
  BY Units, ClockAssumption
<1>3. read_tsc \in Duration /\ Nanos(read_tsc) = P
  BY <1>1, ReadTscIsTsc DEF read_tsc
<1>4. L \in Nat /\ P \in Nat /\ e \in Nat
  BY <1>1, <1>2, NanosIsNat
<1>5. d \in [s : Int, n : 0..(NanosPerSecond - 1)] /\ Nanos(d) = P - L
  BY <1>1, <1>3, SubIsDifference
<1>6. step \in Duration /\ Nanos(step) = IF Nanos(d) > 0 THEN Nanos(d) ELSE 0
  <2> HIDE DEF d
  <2> QED
    BY <1>5, SoundStep
<1>7. Nanos(step) = g /\ g \in Nat
  BY <1>4, <1>5, <1>6
<1>8. stepped + P - L <= e /\ stepped <= e
  BY DEF IInv, SteppedInv
<1>9. stepped' = stepped + g /\ last_timer_tsc' = read_tsc /\ boottime' = (boottime + m) % Word64
  BY <1>3 DEF TimerIrq, isr_increment_boottime
<1> HIDE DEF e
<1>10. stepped + g \in Nat /\ stepped + g <= e /\ g <= e
  <2> HIDE DEF P, L
  <2> QED
    BY <1>1, <1>4, <1>7, <1>8
<1>11. g < Word64 * C
  <2> HIDE DEF g
  <2>1. 0 \in Nat /\ 0 * C = 0
    BY <1>2
  <2>2. TypeInv /\ g \in Nat /\ 0 * C <= g
    BY <1>7, <2>1 DEF IInv
  <2> QED
    BY <2>1, <2>2, <1>10, BoottimeFits DEF e
<1>12. m \in Nat /\ m * C <= g /\ g <= m * C + (C - 1)
  <2> HIDE DEF step
  <2>1. Nanos(step) < Word64 * NanosPerMicro
    BY <1>7, <1>11, Zenon
  <2>2. /\ Micros(step) \in Nat
        /\ Micros(step) * NanosPerMicro <= Nanos(step)
        /\ Nanos(step) <= Micros(step) * NanosPerMicro + (NanosPerMicro - 1)
    BY <1>6, <2>1, MicrosOfStep, Zenon
  <2> QED
    BY <1>7, <2>2, Zenon
<1>13. boottime + m < Word64
  <2> DEFINE mc == m * C
             bc == boottime * C
  <2> HIDE DEF m, g
  <2>1. mc \in Int /\ bc \in Int /\ (boottime + m) * C = bc + mc /\ boottime + m \in Nat
    BY <1>1, <1>2, <1>12
  <2>2. bc <= stepped
    <3>1. 0 <= stepped - bc
      BY DEF IInv, BoottimeFollowsTsc, Lost
    <3> QED
      BY <1>1, <2>1, <3>1
  <2>3. (boottime + m) * C <= stepped + g
    <3> HIDE DEF mc, bc
    <3>1. mc <= g
      BY <1>12 DEF mc
    <3> QED
      BY <1>1, <1>7, <2>1, <2>2, <3>1
  <2> QED
    BY <1>10, <2>1, <2>3, BoottimeFits DEF IInv, e
<1>14. boottime' = boottime + m
  <2> HIDE DEF m
  <2> DEFINE b == boottime + m
  <2>1. b \in Nat /\ b < Word64
    BY <1>1, <1>12, <1>13
  <2> HIDE DEF b
  <2>2. (b % Word64) = b
    BY <1>2, <2>1
  <2> QED
    BY <1>9, <2>2 DEF b
<1> HIDE DEF m, g, P, L
<1> QED
  BY <1>3, <1>7, <1>9, <1>12, <1>14 DEF g, P, L

(* Types                                                                   *)
LEMMA SecondsAreRead ==
  ASSUME TypeInv
  PROVE  /\ RtcSeconds \in Nat
         /\ RtcSeconds % SecondsPerMinute \in 0..(SecondsPerMinute - 1)
         /\ RtcSeconds \div SecondsPerMinute \in Nat
         /\ RtcSeconds = (RtcSeconds \div SecondsPerMinute) * SecondsPerMinute
                           + (RtcSeconds % SecondsPerMinute)
<1> DEFINE S == RtcSeconds
<1>1. SecondsPerMinute \in Nat \ {0} /\ Freq \in Nat \ {0} /\ now \in Nat
  BY ClockAssumption DEF TypeInv
<1>2. S \in Nat
  BY <1>1 DEF RtcSeconds
<1> HIDE DEF S
<1>3. S \div SecondsPerMinute \in Nat
  BY <1>1, <1>2
<1>4. /\ (S % SecondsPerMinute) \in 0..(SecondsPerMinute - 1)
      /\ S = (S \div SecondsPerMinute) * SecondsPerMinute + (S % SecondsPerMinute)
  BY <1>1, <1>2, DivMod
<1> QED
  BY <1>2, <1>3, <1>4 DEF S

LEMMA TypeStep ==
  ASSUME IInv, [Next]_vars
  PROVE  TypeInv'
<1>1. TypeInv
  BY DEF IInv
<1>2. {SecondsPerMinute, TimerPeriod, MaxDelay, Freq, MaxTicks} \subseteq Nat
  BY ClockAssumption
<1>3. CASE Tick
  BY <1>1, <1>2, <1>3 DEF TypeInv, Tick, Syncing
<1>4. CASE SetBack
  <2>1. SetBackTo \subseteq Nat
    BY ClockAssumption
  <2> QED
    BY <1>1, <1>2, <1>4, <2>1 DEF TypeInv, SetBack, timer, rtc, Syncing
<1>5. CASE TimerIrq
  <2>1. PICK g \in Nat, m \in Nat :
          /\ stepped' = stepped + g /\ boottime' = boottime + m /\ last_timer_tsc' \in Duration
    BY <1>5, TimerStep
  <2>2. stepped' \in Nat /\ boottime' \in Nat
    BY <1>1, <2>1 DEF TypeInv
  <2> QED
    BY <1>1, <1>2, <1>5, <2>1, <2>2 DEF TypeInv, TimerIrq, hw, rtc, Syncing
<1>6. CASE Confirm
  <2>1. values' \in [second : 0..(SecondsPerMinute - 1), minute : Nat]
    BY <1>1, <1>6, SecondsAreRead DEF Confirm
  <2> QED
    BY <1>1, <1>2, <1>6, <2>1 DEF TypeInv, Confirm, Goto, hw, timer, Syncing
<1>7. CASE WaitUp \/ WaitDown
  BY <1>1, <1>2, <1>7 DEF TypeInv, WaitUp, WaitDown, Goto, hw, timer, Syncing
<1>8. CASE NoteBoottime
  BY <1>1, <1>2, <1>8 DEF TypeInv, NoteBoottime, Goto, hw, timer, Syncing
<1>9. CASE NoteSecond
  <2>1. rtc_last_init_time' \in Nat
    <3> DEFINE second == RtcSeconds % SecondsPerMinute
    <3>1. second \in Nat /\ values.minute \in Nat /\ SecondsPerMinute \in Nat
      BY <1>1, <1>2, SecondsAreRead DEF TypeInv
    <3> DEFINE new == IF second < values.second THEN second + SecondsPerMinute ELSE second
    <3>2. rtc_last_init_time' = values.minute * SecondsPerMinute + new
      BY <1>9 DEF NoteSecond
    <3> HIDE DEF second
    <3>3. new \in Nat
      BY <3>1
    <3> HIDE DEF new
    <3> QED
      BY <3>1, <3>2, <3>3
  <2> QED
    BY <1>1, <1>2, <1>9, <2>1 DEF TypeInv, NoteSecond, Goto, hw, timer, Syncing
<1>10. CASE ReadGlobalRtc
  <2>1. shown' \in Duration
    BY <1>10, ReadingInv DEF IInv, ShownInv, Readable, ReadGlobalRtc
  <2> QED
    BY <1>1, <1>2, <1>10, <2>1 DEF TypeInv, ReadGlobalRtc, hw, timer, rtc, Syncing
<1>11. CASE UNCHANGED vars
  BY <1>1, <1>11 DEF TypeInv, vars, hw, timer, rtc, Syncing
<1> QED
  BY <1>3, <1>4, <1>5, <1>6, <1>7, <1>8, <1>9, <1>10, <1>11 DEF Next, InitRtc

(* What rounding has lost grows, by less than a microsecond each time.     *)
LEMMA LostStep ==
  ASSUME IInv, [Next]_vars
  PROVE  /\ Lost \in Int /\ Lost' \in Int /\ Lost <= Lost'
         /\ BoottimeFollowsTsc'
<1> DEFINE C == NanosPerMicro
<1>1. C \in Nat \ {0} /\ stepped \in Nat /\ boottime \in Nat /\ irqs \in Nat
  BY ClockAssumption DEF IInv, TypeInv
<1>2. Lost \in Int /\ 0 <= Lost /\ Lost <= irqs * (C - 1)
  BY <1>1 DEF IInv, BoottimeFollowsTsc, Lost
<1>3. CASE TimerIrq
  <2>1. PICK g \in Nat, m \in Nat :
          /\ m * C <= g /\ g <= m * C + (C - 1)
          /\ stepped' = stepped + g /\ boottime' = boottime + m
    BY <1>3, TimerStep
  <2>2. irqs' = irqs + 1
    BY <1>3 DEF TimerIrq
  <2>3. Lost' = (stepped + g) - (boottime + m) * C
    BY <2>1 DEF Lost
  <2>4. (boottime + m) * C = boottime * C + m * C /\ boottime * C \in Int /\ m * C \in Int
    BY <1>1, <2>1
  <2>5. Lost' = Lost + (g - m * C)
    BY <1>1, <2>1, <2>3, <2>4 DEF Lost
  <2> DEFINE r == g - m * C
  <2>6. r \in Int /\ 0 <= r /\ r <= C - 1
    BY <1>1, <2>1, <2>4
  <2>7. (irqs + 1) * (C - 1) = irqs * (C - 1) + (C - 1) /\ irqs * (C - 1) \in Int
    BY <1>1
  <2>8. Lost' = Lost + r
    BY <2>5
  <2> HIDE DEF r
  <2> DEFINE x == irqs * (C - 1)
             x1 == (irqs + 1) * (C - 1)
  <2>9. x \in Int /\ x1 = x + (C - 1) /\ Lost <= x
    BY <1>2, <2>7
  <2> HIDE DEF x, x1
  <2>10. 0 <= Lost + r /\ Lost + r <= x1 /\ Lost <= Lost + r /\ Lost + r \in Int
    BY <1>1, <1>2, <2>6, <2>9
  <2>11. BoottimeFollowsTsc' <=> (0 <= Lost' /\ Lost' <= irqs' * (C - 1))
    BY DEF BoottimeFollowsTsc
  <2>12. irqs' * (C - 1) = x1
    BY <2>2 DEF x1
  <2> QED
    BY <1>2, <2>8, <2>10, <2>11, <2>12, Zenon
<1>4. CASE UNCHANGED <<stepped, boottime, irqs>>
  <2>1. Lost' = Lost /\ (BoottimeFollowsTsc' <=> BoottimeFollowsTsc)
    BY <1>4 DEF Lost, BoottimeFollowsTsc
  <2>2. Lost <= Lost
    BY <1>2
  <2> QED
    BY <1>2, <2>1, <2>2 DEF IInv
<1> QED
  BY <1>3, <1>4, Steps DEF Tick, SetBack, timer

LEMMA SteppedStep ==
  ASSUME IInv, [Next]_vars
  PROVE  SteppedInv'
<1> DEFINE L == Nanos(last_timer_tsc)
           P == PerTick * tsc
           E == PerTick * (now - began)
           R == PerTick * (now - late_irq - began)
           K == PerTick
           Q == PerTick * late_irq
<1>1. /\ tsc \in Nat /\ stepped \in Nat /\ now - began \in Nat /\ jumps \in Nat
      /\ now \in Nat /\ began \in Nat /\ late_irq \in Nat /\ now - late_irq - began \in Int
  BY DEF IInv, TypeInv
<1>2. K \in Nat \ {0}
  BY Units
<1>3. L \in Nat /\ P \in Nat /\ E \in Nat /\ R \in Int /\ Q \in Nat
  BY <1>1, <1>2, NanosIsNat DEF IInv, TypeInv
<1>4. /\ stepped <= E /\ stepped + P - L <= E
      /\ jumps = 0 => P - L = Q /\ stepped = R
  BY DEF IInv, SteppedInv
<1>5. CASE Tick
  <2>1. /\ K * (tsc + 1) = P + K /\ K * ((now + 1) - began) = E + K
        /\ K * (late_irq + 1) = Q + K
        /\ (now + 1) - (late_irq + 1) - began = now - late_irq - began
    BY <1>1, <1>2
  <2>2. /\ L' = L /\ stepped' = stepped /\ jumps' = jumps
        /\ P' = K * (tsc + 1) /\ E' = K * ((now + 1) - began) /\ Q' = K * (late_irq + 1)
        /\ R' = K * ((now + 1) - (late_irq + 1) - began)
    <3>1. /\ now' = now + 1 /\ tsc' = tsc + 1 /\ late_irq' = late_irq + 1
          /\ UNCHANGED <<began, jumps, stepped, last_timer_tsc>>
      BY <1>5 DEF Tick
    <3>2. L' = L
      BY <3>1 DEF Nanos
    <3> QED
      BY <3>1, <3>2 DEF PerTick
  <2>3. P' = P + K /\ E' = E + K /\ Q' = Q + K /\ R' = R
    BY <2>1, <2>2
  <2>4. SteppedInv' <=>
          /\ stepped' <= E'
          /\ stepped' + P' - L' <= E'
          /\ jumps' = 0 => P' - L' = Q' /\ stepped' = R'
    BY DEF SteppedInv, PerTick
  <2> HIDE DEF P, E, Q, R, L, K
  <2>5. /\ stepped <= E + K /\ stepped + (P + K) - L <= E + K
        /\ jumps = 0 => (P + K) - L = Q + K /\ stepped = R
    BY <1>1, <1>2, <1>3, <1>4
  <2> QED
    BY <2>2, <2>3, <2>4, <2>5
<1>6. CASE SetBack
  <2>1. PICK raw \in Int : raw < tsc /\ tsc' = raw
    <3>1. SetBackTo \subseteq Nat
      BY ClockAssumption
    <3> QED
      BY <1>6, <3>1 DEF SetBack
  <2>2. K * raw < P /\ K * raw \in Int
    BY <1>1, <1>2, <2>1, ProductsKeepOrder
  <2>3. /\ L' = L /\ stepped' = stepped /\ jumps' = jumps + 1 /\ E' = E /\ P' = K * raw
    BY <1>6, <2>1 DEF SetBack, timer, Nanos, PerTick
  <2>4. jumps' # 0
    BY <1>1, <2>3
  <2>5. SteppedInv' <=>
          /\ stepped' <= E'
          /\ stepped' + P' - L' <= E'
          /\ jumps' = 0 => P' - L' = Q' /\ stepped' = R'
    BY DEF SteppedInv, PerTick
  <2> DEFINE p == K * raw
  <2> HIDE DEF P, E, Q, R, L, K, p
  <2>6. stepped + p - L <= E
    BY <1>1, <1>3, <1>4, <2>2 DEF p
  <2> QED
    BY <1>4, <2>3, <2>4, <2>5, <2>6 DEF p
<1>7. CASE TimerIrq
  <2>1. PICK g \in Nat :
          /\ g = IF P > L THEN P - L ELSE 0
          /\ stepped' = stepped + g /\ Nanos(last_timer_tsc') = P
    BY <1>7, TimerStep
  <2>2. /\ L' = P /\ P' = P /\ E' = E /\ jumps' = jumps /\ Q' = K * 0
        /\ R' = K * (now - 0 - began)
    BY <1>7, <2>1 DEF TimerIrq, hw, Nanos, PerTick
  <2>3. Q' = 0 /\ R' = E
    <3>1. K * 0 = 0 /\ now - 0 - began = now - began
      BY <1>1, <1>2
    <3> QED
      BY <2>2, <3>1
  <2>4. SteppedInv' <=>
          /\ stepped' <= E'
          /\ stepped' + P' - L' <= E'
          /\ jumps' = 0 => P' - L' = Q' /\ stepped' = R'
    BY DEF SteppedInv, PerTick
  <2>5. jumps = 0 => R + Q = E
    BY <1>1, <1>2
  <2> HIDE DEF P, E, Q, R, L, K
  <2>6. /\ stepped + g <= E /\ stepped + g + P - P <= E
        /\ jumps = 0 => P - P = 0 /\ stepped + g = E
    BY <1>1, <1>3, <1>4, <2>1, <2>5
  <2> QED
    BY <2>1, <2>2, <2>3, <2>4, <2>6
<1>8. CASE UNCHANGED <<hw, timer>>
  BY <1>8 DEF IInv, SteppedInv, hw, timer, Nanos
<1> QED
  BY <1>5, <1>6, <1>7, <1>8, Steps

(* The clock as it is shown                                                *)
LEMMA ReadingImplied ==
  Readable => /\ read_global_rtc \in Duration
              /\ Nanos(read_global_rtc) = rtc_last_init_time * NanosPerSecond
                     + boottime * NanosPerMicro - rtc_last_init_boottime * NanosPerMicro
BY ReadingInv

LEMMA ReadingAfter ==
  (Readable => /\ read_global_rtc \in Duration
               /\ Nanos(read_global_rtc) = rtc_last_init_time * NanosPerSecond
                     + boottime * NanosPerMicro - rtc_last_init_boottime * NanosPerMicro)'
BY ReadingImplied, PTL

LEMMA BoottimeGrows ==
  ASSUME IInv, [Next]_vars
  PROVE  boottime <= boottime' /\ rtc_last_init_boottime' <= boottime'
<1>1. boottime \in Nat /\ rtc_last_init_boottime \in Nat /\ rtc_last_init_boottime <= boottime
  BY DEF IInv, TypeInv, ShownInv
<1>2. boottime <= boottime'
  <2>1. CASE TimerIrq
    <3>1. PICK m \in Nat : boottime' = boottime + m
      BY <2>1, TimerStep
    <3>2. boottime <= boottime + m
      BY <1>1
    <3> QED
      BY <3>1, <3>2
  <2>2. CASE boottime' = boottime
    BY <1>1, <2>2
  <2> QED
    BY <2>1, <2>2, Steps DEF Tick, SetBack, timer
<1>3. \/ rtc_last_init_boottime' = rtc_last_init_boottime
      \/ rtc_last_init_boottime' = boottime
  BY DEF Next, Tick, SetBack, TimerIrq, InitRtc, Confirm, WaitUp, WaitDown, NoteBoottime,
         NoteSecond, ReadGlobalRtc, vars, rtc
<1>4. boottime' \in Nat
  BY TypeStep DEF TypeInv
<1> QED
  BY <1>1, <1>2, <1>3, <1>4

LEMMA ShownStep ==
  ASSUME IInv, [Next]_vars
  PROVE  ShownInv' /\ Nanos(shown') >= Nanos(shown)
<1>1. Readable'
  BY TypeStep, SteppedStep, LostStep, BoottimeGrows DEF Readable
<1>2. Readable
  BY DEF IInv, ShownInv, Readable
<1>3. read_global_rtc \in Duration /\ read_global_rtc' \in Duration
  BY <1>1, <1>2, ReadingImplied, ReadingAfter
<1> DEFINE R == Nanos(read_global_rtc)
           S == Nanos(shown)
<1>4. R \in Nat /\ R' \in Nat /\ S \in Nat
  <2>1. \A d \in Duration : Nanos(d) \in Nat
    BY NanosIsNat
  <2>2. R' = Nanos(read_global_rtc')
    BY DEF Nanos
  <2> QED
    BY <1>3, <2>1, <2>2 DEF IInv, TypeInv
<1>5. ASSUME UNCHANGED <<rtc_last_init_time, rtc_last_init_boottime>>
      PROVE  R <= R'
  <2> PICK b \in Nat, b1 \in Nat, T \in Nat, n \in Nat :
         b = boottime /\ b1 = boottime' /\ T = rtc_last_init_time /\ n = rtc_last_init_boottime
    BY TypeStep DEF IInv, TypeInv
  <2> DEFINE C == NanosPerMicro
             N == NanosPerSecond
  <2>1. C \in Nat \ {0} /\ N \in Nat
    BY ClockAssumption, Units
  <2>2. C * b <= C * b1
    <3>1. b <= b1
      BY BoottimeGrows
    <3>2. \A x, y \in Int : x <= y => C * x <= C * y
      <4> TAKE x \in Int, y \in Int
      <4> QED
        BY <2>1, ProductsKeepOrder
    <3> QED
      BY <3>1, <3>2
  <2>3. R = T * N + b * C - n * C
    BY <1>2, ReadingImplied
  <2>4. R' = T * N + b1 * C - n * C
    <3>1. R' = Nanos(read_global_rtc')
      BY DEF Nanos
    <3>2. (Nanos(read_global_rtc))' = T * N + b1 * C - n * C
      BY <1>1, <1>5, ReadingAfter DEF NanosPerSecond
    <3> QED
      BY <3>2
  <2> HIDE DEF R, C, N
  <2>5. /\ T * N \in Int /\ b * C \in Int /\ b1 * C \in Int /\ n * C \in Int
        /\ C * b = b * C /\ C * b1 = b1 * C
    BY <2>1
  <2> DEFINE tn == T * N
             bc == b * C
             bc1 == b1 * C
             nc == n * C
  <2>6. tn \in Int /\ bc \in Int /\ bc1 \in Int /\ nc \in Int /\ bc <= bc1
        /\ R = tn + bc - nc /\ R' = tn + bc1 - nc
    BY <2>2, <2>3, <2>4, <2>5
  <2> HIDE DEF tn, bc, bc1, nc
  <2>7. tn + bc - nc <= tn + bc1 - nc
    BY <2>6
  <2> QED
    BY <2>6, <2>7
<1>6. /\ rtc_last_init_boottime' <= boottime'
      /\ (pc = "done" => S <= R) /\ (pc # "done" => S = 0)
  BY BoottimeGrows DEF IInv, ShownInv
<1>7. ShownInv' <=>
        /\ rtc_last_init_boottime' <= boottime'
        /\ pc' # "done" => S' = 0
        /\ pc' = "done" => S' <= R'
  BY DEF ShownInv
<1>8. S' = Nanos(shown')
  BY DEF Nanos
<1> HIDE DEF R, S
<1>9. CASE ReadGlobalRtc
  <2>1. pc = "done" /\ pc' = "done" /\ S' = R /\ R <= R'
    BY <1>5, <1>9 DEF ReadGlobalRtc, rtc, R, S, Nanos
  <2>2. S <= R
    BY <1>6, <2>1
  <2> QED
    BY <1>4, <1>6, <1>7, <1>8, <2>1, <2>2 DEF S
<1>10. CASE shown' = shown /\ pc # "done"
  <2>1. S' = S /\ S = 0 /\ Nanos(shown') = Nanos(shown)
    BY <1>6, <1>10 DEF S, Nanos
  <2> QED
    BY <1>4, <1>6, <1>7, <2>1 DEF S
<1>11. CASE shown' = shown /\ pc = "done" /\ UNCHANGED <<pc, rtc_last_init_time, rtc_last_init_boottime>>
  <2>1. S' = S /\ S <= R /\ R <= R' /\ Nanos(shown') = Nanos(shown)
    BY <1>5, <1>6, <1>11 DEF S, Nanos
  <2> QED
    BY <1>4, <1>6, <1>7, <1>11, <2>1 DEF S
<1>12. ReadGlobalRtc \/ shown' = shown
  BY DEF Next, Tick, SetBack, TimerIrq, InitRtc, Confirm, WaitUp, WaitDown, NoteBoottime,
         NoteSecond, vars
<1>13. pc = "done" /\ ~ReadGlobalRtc => UNCHANGED <<pc, rtc_last_init_time, rtc_last_init_boottime>>
  BY DEF Next, Tick, SetBack, TimerIrq, InitRtc, Confirm, WaitUp, WaitDown, NoteBoottime,
         NoteSecond, vars, rtc
<1> QED
  BY <1>9, <1>10, <1>11, <1>12, <1>13

(* The synchronisation                                                     *)
LEMMA NotedStep ==
  ASSUME IInv, [Next]_vars, NEW b \in Int, Noted(b),
         rtc_last_init_boottime' = rtc_last_init_boottime
  PROVE  Noted(b)'
<1> DEFINE x == PerTick * (b - TimerPeriod - began)
           y == PerTick * (b + 2 * MaxDelay - began)
           n == rtc_last_init_boottime * NanosPerMicro
<1>1. began' = began
  BY DEF Next, Tick, SetBack, TimerIrq, InitRtc, Confirm, WaitUp, WaitDown, NoteBoottime,
         NoteSecond, ReadGlobalRtc, vars, hw
<1>2. jumps' = 0 => jumps = 0
  <2>1. jumps' = jumps \/ (SetBack /\ jumps' = jumps + 1)
    BY DEF Next, Tick, SetBack, TimerIrq, InitRtc, Confirm, WaitUp, WaitDown, NoteBoottime,
           NoteSecond, ReadGlobalRtc, vars, hw
  <2>2. jumps \in Nat
    BY DEF IInv, TypeInv
  <2> QED
    BY <2>1, <2>2
<1>3. Noted(b) <=> (jumps = 0 => x <= n + Lost /\ n <= y)
  BY DEF Noted
<1>4. Noted(b)' <=> (jumps' = 0 => x <= n + Lost' /\ n <= y)
  <2>1. Noted(b)' <=> (jumps' = 0 => x' <= n' + Lost' /\ n' <= y')
    BY DEF Noted
  <2>2. x' = x /\ y' = y /\ n' = n
    BY <1>1 DEF PerTick
  <2> QED
    BY <2>1, <2>2
<1>5. x \in Int /\ n \in Int /\ Lost \in Int /\ Lost' \in Int /\ Lost <= Lost'
  <2>1. /\ PerTick \in Nat /\ TimerPeriod \in Nat /\ NanosPerMicro \in Nat
        /\ began \in Nat /\ rtc_last_init_boottime \in Nat
    BY Units, ClockAssumption DEF IInv, TypeInv
  <2> QED
    BY <2>1, LostStep
<1> HIDE DEF x, y, n
<1>6. x <= n + Lost => x <= n + Lost'
  <2> PICK l \in Int, m \in Int : l = Lost /\ m = Lost'
    BY <1>5
  <2>1. l <= m /\ x \in Int /\ n \in Int
    BY <1>5
  <2>2. x <= n + l => x <= n + m
    BY <2>1, SumsKeepOrder, Zenon
  <2>3. n + l = n + Lost /\ n + m = n + Lost'
    OBVIOUS
  <2> QED
    BY <2>2, <2>3, Zenon
<1> QED
  BY <1>2, <1>3, <1>4, <1>6, Zenon

(* The seconds of the real-time clock and its flag in terms of ticks.      *)
LEMMA SecondAndFlag ==
  ASSUME TypeInv, NEW k \in Int, k * Freq <= now, now < k * Freq + Freq
  PROVE  RtcSeconds = k /\ (Uip <=> now >= (k * Freq + Freq) - UipTicks)
<1> DEFINE m == k * Freq
<1>1. now \in Int /\ Freq \in Nat \ {0} /\ UipTicks \in Nat /\ m \in Int
  BY Units, ClockAssumption DEF TypeInv
<1>2. now \div Freq = k /\ (now % Freq) = now - m
  BY <1>1, QuotientIs
<1>3. RtcSeconds = k
  BY <1>2 DEF RtcSeconds
<1>4. Uip <=> now - m >= Freq - UipTicks
  BY <1>2 DEF Uip
<1> HIDE DEF m
<1>5. Uip <=> now >= (m + Freq) - UipTicks
  BY <1>1, <1>4
<1> QED
  BY <1>3, <1>5 DEF m

LEMMA BoundaryIs ==
  ASSUME TypeInv
  PROVE  /\ FirstSecond \in Nat
         /\ Boundary(0) = FirstSecond * Freq
         /\ Boundary(1) = FirstSecond * Freq + Freq
         /\ Boundary(2) = FirstSecond * Freq + 2 * Freq
         /\ \A k \in 0..2 : Boundary(k) \in Int /\ Boundary(k) = (FirstSecond + k) * Freq
<1>1. Freq \in Nat /\ SecondsPerMinute \in Nat /\ values.minute \in Nat /\ values.second \in Nat
  BY Units, ClockAssumption DEF TypeInv
<1>2. FirstSecond \in Nat
  BY <1>1 DEF FirstSecond
<1> DEFINE S == FirstSecond
<1>3. S \in Nat /\ \A k \in Int : Boundary(k) = (S + k) * Freq
  BY <1>2 DEF Boundary
<1> HIDE DEF S
<1>4. (S + 0) * Freq = S * Freq /\ (S + 1) * Freq = S * Freq + Freq
      /\ (S + 2) * Freq = S * Freq + 2 * Freq
  BY <1>1, <1>3
<1>5. \A k \in 0..2 : (S + k) * Freq \in Int
  BY <1>1, <1>3
<1> QED
  BY <1>3, <1>4, <1>5 DEF S

(* Steps that are none of init_rtc.                                        *)
LEMMA SyncKept ==
  ASSUME IInv, [Next]_vars,
         UNCHANGED <<pc, values, rtc_last_init_time, rtc_last_init_boottime>>,
         Syncing => Since' = Since
  PROVE  SyncInv'
<1>1. FirstSecond' = FirstSecond /\ \A k \in 0..2 : Boundary(k)' = Boundary(k)
  BY DEF FirstSecond, Boundary
<1>2. pc = "second" => SyncInv'
  <2> SUFFICES ASSUME pc = "second" PROVE SyncInv'
    OBVIOUS
  <2>1. PICK k \in 1..2, b \in Int :
           /\ b = Boundary(k) /\ b <= Since /\ Since < b + 2 * MaxDelay /\ Noted(b)
    BY BoundaryIs DEF IInv, SyncInv
  <2>2. Noted(b)'
    BY <2>1, NotedStep
  <2>3. b = Boundary(k)'
    BY <1>1, <2>1
  <2>4. Since' = Since
    BY DEF Syncing
  <2>5. b <= Since' /\ Since' < b + 2 * MaxDelay
    BY <2>1, <2>4
  <2> QED
    BY <2>2, <2>3, <2>5 DEF SyncInv
<1>3. pc = "done" => SyncInv'
  <2> SUFFICES ASSUME pc = "done" PROVE SyncInv'
    OBVIOUS
  <2>1. PICK b \in Int : b = rtc_last_init_time * Freq /\ Noted(b)
    <3>1. rtc_last_init_time * Freq \in Int
      BY Units DEF IInv, TypeInv
    <3> QED
      BY <3>1 DEF IInv, SyncInv
  <2>2. Noted(b)'
    BY <2>1, NotedStep
  <2>3. b = (rtc_last_init_time * Freq)'
    BY <2>1
  <2> QED
    BY <2>2, <2>3 DEF SyncInv
<1>4. pc \in {"up", "down", "boottime"} => SyncInv'
  BY <1>1 DEF IInv, SyncInv, Syncing
<1>5. pc = "start" => SyncInv'
  BY DEF SyncInv
<1> QED
  BY <1>2, <1>3, <1>4, <1>5 DEF IInv, TypeInv

LEMMA ConfirmSync ==
  ASSUME IInv, Confirm, TypeInv'
  PROVE  SyncInv'
<1>1. TypeInv
  BY DEF IInv
<1> DEFINE S == RtcSeconds
<1>2. S \in Nat /\ Freq \in Nat \ {0} /\ now \in Nat
  BY <1>1, SecondsAreRead, Units DEF TypeInv
<1>3. FirstSecond' = S
  <2>1. /\ values'.second = S % SecondsPerMinute
        /\ values'.minute = S \div SecondsPerMinute
    BY DEF Confirm
  <2>2. FirstSecond' = values'.minute * SecondsPerMinute + values'.second
    BY DEF FirstSecond
  <2> QED
    BY <1>1, <2>1, <2>2, SecondsAreRead
<1>4. S * Freq <= now /\ now < S * Freq + Freq
  <2>1. (now % Freq) \in 0..(Freq - 1) /\ now = S * Freq + (now % Freq)
    BY <1>2, DivMod DEF RtcSeconds
  <2> DEFINE r == now % Freq
             m == S * Freq
  <2>2. m \in Int /\ r \in 0..(Freq - 1) /\ now = m + r
    BY <1>2, <2>1
  <2> HIDE DEF r, m
  <2>3. m <= now /\ now < m + Freq
    BY <1>2, <2>2
  <2> QED
    BY <2>3 DEF m
<1>5. pc' = "up" /\ Since' = now
  <2>1. pc' = "up" /\ now' = now /\ late_step' = 0
    BY DEF Confirm, Goto, hw
  <2>2. now - 0 = now
    BY <1>2
  <2> QED
    BY <2>1, <2>2 DEF Since
<1>6. /\ Boundary(0)' = S * Freq /\ Boundary(1)' = S * Freq + Freq
      /\ Boundary(2)' = S * Freq + 2 * Freq
  <2> DEFINE B(k) == (S + k) * Freq
  <2>1. \A k \in {0, 1, 2} : Boundary(k)' = B(k)
    BY <1>3 DEF Boundary
  <2>2. B(0) = S * Freq /\ B(1) = S * Freq + Freq /\ B(2) = S * Freq + 2 * Freq
    <3> HIDE DEF S
    <3> QED
      BY <1>2
  <2> HIDE DEF B
  <2> QED
    BY <2>1, <2>2
<1> DEFINE m == S * Freq
<1>7. m \in Int
  BY <1>2
<1>8. m <= now /\ now < m + 2 * Freq /\ now < m + Freq
  <2> HIDE DEF S
  <2>1. m <= now /\ now < m + Freq
    BY <1>4
  <2> HIDE DEF m
  <2> QED
    BY <1>2, <1>7, <2>1
<1> HIDE DEF S, m
<1>9. Boundary(0)' <= Since' /\ Since' < Boundary(2)' /\ Since' < Boundary(1)'
  BY <1>5, <1>6, <1>8 DEF m
<1> QED
  BY <1>5, <1>9 DEF SyncInv

(* The deadlines, as far as the steps of init_rtc rely on them.            *)
LEMMA Deadlines ==
  ASSUME TypeInv, Syncing
  PROVE  /\ Freq \in Nat /\ UipTicks \in Nat /\ MaxDelay \in Nat \ {0}
         /\ MaxDelay < UipTicks /\ MaxDelay <= Freq - UipTicks /\ 3 * MaxDelay < Freq
         /\ now \in Nat /\ Since \in Int /\ Since <= now /\ now <= Since + MaxDelay
BY ClockAssumption, DelayAssumption DEF TypeInv, Since

(* A step after which the flag is waited for from now on.                  *)
LEMMA WaitSync ==
  ASSUME IInv, WaitUp \/ WaitDown
  PROVE  SyncInv'
<1>1. TypeInv /\ Syncing
  BY DEF IInv, WaitUp, WaitDown, Syncing
<1> DEFINE B(k) == Boundary(k)
<1>2. \A k \in 0..2 : B(k) \in Int
  BY <1>1, BoundaryIs
<1>3. B(1) = B(0) + Freq /\ B(2) = B(1) + Freq
  <2> DEFINE m == FirstSecond * Freq
  <2>1. m \in Int /\ B(0) = m /\ B(1) = m + Freq /\ B(2) = m + 2 * Freq
    BY <1>1, BoundaryIs, Units
  <2> HIDE DEF m, B
  <2> QED
    BY <2>1, Units
<1>4. \A k \in 0..2 : B(k) <= now /\ now < B(k) + Freq => (Uip <=> now >= (B(k) + Freq) - UipTicks)
  <2> SUFFICES ASSUME NEW k \in 0..2, B(k) <= now, now < B(k) + Freq
               PROVE  Uip <=> now >= (B(k) + Freq) - UipTicks
    OBVIOUS
  <2>1. FirstSecond + k \in Int /\ B(k) = (FirstSecond + k) * Freq
    BY <1>1, BoundaryIs
  <2> PICK j \in Int : j = FirstSecond + k
    BY <2>1
  <2>2. B(k) = j * Freq
    BY <2>1
  <2> HIDE DEF B
  <2>3. j * Freq <= now /\ now < j * Freq + Freq
    BY <2>2
  <2>4. Uip <=> now >= (j * Freq + Freq) - UipTicks
    BY <1>1, <2>3, SecondAndFlag
  <2> QED
    BY <2>2, <2>4
<1>5. Since' = now /\ \A k \in 0..2 : Boundary(k)' = B(k)
  <2>1. now' = now /\ late_step' = 0 /\ values' = values
    BY DEF WaitUp, WaitDown, Goto, hw
  <2>2. now - 0 = now
    BY <1>1 DEF TypeInv
  <2> QED
    BY <2>1, <2>2 DEF Since, Boundary, FirstSecond
<1>6. \/ pc = "up" /\ pc' = (IF Uip THEN "down" ELSE "up")
      \/ pc = "down" /\ pc' = (IF Uip THEN "down" ELSE "boottime")
  BY DEF WaitUp, WaitDown, Goto
<1>7. /\ pc = "up" => /\ B(0) <= Since /\ Since < B(2)
                      /\ Since < B(1) \/ Since < B(2) - UipTicks
      /\ pc = "down" => \E k \in 1..2 : B(k) - UipTicks <= Since /\ Since < B(k)
  BY DEF IInv, SyncInv
<1>8. /\ pc' = "up" => /\ B(0) <= now /\ now < B(2)
                       /\ now < B(1) \/ now < B(2) - UipTicks
      /\ pc' = "down" => \E k \in 1..2 : B(k) - UipTicks <= now /\ now < B(k)
      /\ pc' = "boottime" => \E k \in 1..2 : B(k) <= now /\ now < B(k) + MaxDelay
  <2> HIDE DEF B
  <2> PICK b0 \in Int, b1 \in Int, b2 \in Int : b0 = B(0) /\ b1 = B(1) /\ b2 = B(2)
    BY <1>2
  <2>1. b1 = b0 + Freq /\ b2 = b1 + Freq
    BY <1>3
  <2>2. /\ b0 <= now /\ now < b1 => (Uip <=> now >= b1 - UipTicks)
        /\ b1 <= now /\ now < b2 => (Uip <=> now >= b2 - UipTicks)
    BY <1>4, <2>1
  <2>3. b2 <= now /\ now < b2 + Freq => (Uip <=> now >= (b2 + Freq) - UipTicks)
    BY <1>4
  <2>4. CASE pc = "up"
    <3>1. /\ b0 <= Since /\ Since < b2
          /\ Since < b1 \/ Since < b2 - UipTicks
      BY <1>7, <2>4
    <3>2. CASE Uip
      <4>1. \/ b1 - UipTicks <= now /\ now < b1
            \/ b2 - UipTicks <= now /\ now < b2
        BY <1>1, <2>1, <2>2, <3>1, <3>2, Deadlines
      <4> QED
        BY <1>6, <2>4, <3>2, <4>1
    <3>3. CASE ~Uip
      <4>1. b0 <= now /\ now < b2 /\ (now < b1 \/ now < b2 - UipTicks)
        BY <1>1, <2>1, <2>2, <3>1, <3>3, Deadlines
      <4> QED
        BY <1>6, <2>4, <3>3, <4>1
    <3> QED
      BY <3>2, <3>3
  <2>5. CASE pc = "down"
    <3>1. PICK k \in 1..2 : B(k) - UipTicks <= Since /\ Since < B(k)
      BY <1>7, <2>5
    <3>2. PICK b \in Int : b = B(k) /\ (b = b1 \/ b = b2)
      <4>1. k = 1 \/ k = 2
        OBVIOUS
      <4> QED
        BY <4>1
    <3>3. CASE Uip
      <4>1. b - UipTicks <= now /\ now < b
        BY <1>1, <2>1, <2>2, <2>3, <3>1, <3>2, <3>3, Deadlines
      <4> QED
        BY <1>6, <2>5, <3>2, <3>3, <4>1
    <3>4. CASE ~Uip
      <4>1. b <= now /\ now < b + MaxDelay
        BY <1>1, <2>1, <2>2, <2>3, <3>1, <3>2, <3>4, Deadlines
      <4> QED
        BY <1>6, <2>5, <3>2, <3>4, <4>1
    <3> QED
      BY <3>3, <3>4
  <2> QED
    BY <1>6, <2>4, <2>5
<1>9. pc' \in {"up", "down", "boottime"}
  BY <1>6
<1> QED
  BY <1>5, <1>8, <1>9 DEF SyncInv

LEMMA NoteBoottimeSync ==
  ASSUME IInv, NoteBoottime
  PROVE  SyncInv'
<1>1. TypeInv /\ Syncing
  BY DEF IInv, NoteBoottime, Syncing
<1> DEFINE C == NanosPerMicro
           K == PerTick
<1>2. PICK k \in 1..2, b \in Int :
        b = Boundary(k) /\ b <= Since /\ Since < b + MaxDelay
  BY <1>1, BoundaryIs DEF IInv, SyncInv, NoteBoottime
<1>3. b <= now /\ now < b + 2 * MaxDelay
  BY <1>1, <1>2, Deadlines
<1>4. /\ pc' = "second" /\ Since' = now /\ Boundary(k)' = b
      /\ rtc_last_init_boottime' = boottime
      /\ UNCHANGED <<hw, timer>>
  <2>1. /\ now' = now /\ late_step' = 0 /\ values' = values /\ pc' = "second"
        /\ rtc_last_init_boottime' = boottime /\ UNCHANGED <<hw, timer>>
    BY DEF NoteBoottime, Goto, hw
  <2>2. now - 0 = now
    BY <1>1 DEF TypeInv
  <2> QED
    BY <1>2, <2>1, <2>2 DEF Since, Boundary, FirstSecond
<1>5. /\ K \in Nat \ {0} /\ C \in Nat \ {0} /\ TimerPeriod \in Nat /\ MaxDelay \in Nat
      /\ now \in Nat /\ began \in Nat /\ late_irq \in Nat /\ late_irq <= TimerPeriod
      /\ boottime \in Nat /\ stepped \in Nat
  BY <1>1, Units, ClockAssumption DEF TypeInv
<1> DEFINE x == b - TimerPeriod - began
           y == now - late_irq - began
           z == b + 2 * MaxDelay - began
           n == boottime * C
<1>6. x \in Int /\ y \in Int /\ z \in Int /\ x <= y /\ y <= z
  BY <1>3, <1>5
<1>7. K * x <= K * y /\ K * y <= K * z /\ K * x \in Int /\ K * y \in Int /\ K * z \in Int
  <2> HIDE DEF x, y, z, K
  <2> QED
    BY <1>5, <1>6, ProductsKeepOrder
<1>8. n \in Int /\ Lost = stepped - n /\ 0 <= Lost
  <2>1. Lost = stepped - n
    BY DEF Lost
  <2>2. n \in Int
    BY <1>5
  <2> QED
    BY <2>1, <2>2 DEF IInv, BoottimeFollowsTsc
<1>9. jumps = 0 => stepped = K * y
  BY DEF IInv, SteppedInv
<1>10. jumps = 0 => K * x <= n + Lost /\ n <= K * z
  <2> DEFINE kx == K * x
             ky == K * y
             kz == K * z
  <2>1. kx <= ky /\ ky <= kz /\ kx \in Int /\ ky \in Int /\ kz \in Int
        /\ (jumps = 0 => stepped = ky)
    BY <1>7, <1>9
  <2> HIDE DEF kx, ky, kz, n
  <2>2. jumps = 0 => kx <= n + Lost /\ n <= kz
    BY <1>5, <1>8, <2>1
  <2> QED
    BY <2>2 DEF kx, kz
<1>11. Noted(b)'
  <2>1. Noted(b)' <=>
          (jumps' = 0 =>
             /\ (PerTick * (b - TimerPeriod - began))' <= (rtc_last_init_boottime * C)' + Lost'
             /\ (rtc_last_init_boottime * C)' <= (PerTick * (b + 2 * MaxDelay - began))')
    BY DEF Noted
  <2>2. /\ (PerTick * (b - TimerPeriod - began))' = K * x
        /\ (PerTick * (b + 2 * MaxDelay - began))' = K * z
    BY <1>4 DEF PerTick, hw
  <2>3. (rtc_last_init_boottime * C)' = n
    BY <1>4
  <2>4. jumps' = jumps /\ Lost' = Lost
    BY <1>4 DEF hw, timer, Lost
  <2> HIDE DEF x, z, n, K, C
  <2> QED
    BY <1>10, <2>1, <2>2, <2>3, <2>4
<1>12. b <= Since' /\ Since' < b + 2 * MaxDelay
  BY <1>3, <1>4
<1>13. \E j \in 1..2 : \E a \in {Boundary(j)'} :
         a <= Since' /\ Since' < a + 2 * MaxDelay /\ Noted(a)'
  BY <1>4, <1>11, <1>12
<1> QED
  BY <1>4, <1>13 DEF SyncInv

(* The second that is noted is the one that has begun, in whatever minute. *)
LEMMA NoteSecondIs ==
  ASSUME TypeInv, NoteSecond, NEW k \in 1..2, RtcSeconds = FirstSecond + k
  PROVE  rtc_last_init_time' = FirstSecond + k
<1> DEFINE n == SecondsPerMinute
           m == values.minute * n
           v == values.second
           a == v + k
           second == RtcSeconds % n
<1>1. /\ n \in Nat \ {0} /\ n > 2 /\ v \in 0..(n - 1) /\ values.minute \in Nat /\ m \in Nat
      /\ FirstSecond = m + v
  BY ClockAssumption, DelayAssumption DEF TypeInv, FirstSecond
<1>2. RtcSeconds = m + a
  BY <1>1
<1>3. a \in Nat /\ a < n + n
  BY <1>1
<1>4. rtc_last_init_time' = m + (IF second < v THEN second + n ELSE second)
  BY DEF NoteSecond
<1> PICK q \in Nat : q = values.minute
  BY <1>1
<1>5. m = q * n
  OBVIOUS
<1>6. CASE a < n
  <2> HIDE DEF a, m, n
  <2>1. q * n <= m + a /\ m + a < q * n + n /\ m + a \in Int
    BY <1>1, <1>3, <1>5, <1>6
  <2>2. ((m + a) % n) = (m + a) - q * n
    BY <1>1, <2>1, QuotientIs
  <2>3. ((m + a) % n) = a
    BY <1>1, <1>3, <1>5, <2>2
  <2>4. second = a
    BY <1>2, <2>3
  <2>5. ~(a < v)
    BY <1>1 DEF a
  <2> QED
    BY <1>1, <1>3, <1>4, <2>4, <2>5 DEF a
<1>7. CASE a >= n
  <2> HIDE DEF a, m, n
  <2>1. (q + 1) * n = q * n + n
    BY <1>1
  <2> PICK q1 \in Int : q1 = q + 1
    OBVIOUS
  <2>2. q1 * n = m + n
    BY <1>5, <2>1
  <2>3. q1 * n <= m + a /\ m + a < q1 * n + n /\ m + a \in Int
    BY <1>1, <1>3, <1>7, <2>2
  <2>4. ((m + a) % n) = (m + a) - q1 * n
    BY <1>1, <2>3, QuotientIs
  <2>5. ((m + a) % n) = a - n
    BY <1>1, <1>3, <2>2, <2>4
  <2>6. second = a - n
    BY <1>2, <2>5
  <2>7. a - n < v
    BY <1>1 DEF a
  <2>8. (a - n) + n = a
    BY <1>1, <1>3
  <2> QED
    BY <1>1, <1>3, <1>4, <2>6, <2>7, <2>8 DEF a
<1> QED
  BY <1>1, <1>3, <1>6, <1>7

LEMMA NoteSecondSync ==
  ASSUME IInv, NoteSecond, [Next]_vars
  PROVE  SyncInv'
<1>1. TypeInv /\ Syncing
  BY DEF IInv, NoteSecond, Syncing
<1>2. PICK k \in 1..2, b \in Int :
        b = Boundary(k) /\ b <= Since /\ Since < b + 2 * MaxDelay /\ Noted(b)
  BY <1>1, BoundaryIs DEF IInv, SyncInv, NoteSecond
<1>3. b <= now /\ now < b + Freq
  BY <1>1, <1>2, Deadlines
<1> PICK j \in Int : j = FirstSecond + k
  BY <1>1, BoundaryIs
<1>4. b = j * Freq
  BY <1>2 DEF Boundary
<1>5. RtcSeconds = j
  BY <1>1, <1>3, <1>4, SecondAndFlag
<1>6. rtc_last_init_time' = j
  BY <1>1, <1>5, NoteSecondIs
<1>7. pc' = "done" /\ rtc_last_init_boottime' = rtc_last_init_boottime
  BY DEF NoteSecond, Goto
<1>8. Noted(b)'
  BY <1>2, <1>7, NotedStep
<1>9. b = (rtc_last_init_time * Freq)'
  BY <1>4, <1>6
<1> QED
  BY <1>7, <1>8, <1>9 DEF SyncInv

LEMMA SyncStep ==
  ASSUME IInv, [Next]_vars
  PROVE  SyncInv'
<1>1. CASE Confirm
  BY <1>1, ConfirmSync, TypeStep
<1>2. CASE WaitUp \/ WaitDown
  BY <1>2, WaitSync
<1>3. CASE NoteBoottime
  BY <1>3, NoteBoottimeSync
<1>4. CASE NoteSecond
  BY <1>4, NoteSecondSync
<1>5. CASE Tick \/ SetBack \/ TimerIrq \/ ReadGlobalRtc \/ UNCHANGED vars
  <2>1. UNCHANGED <<pc, values, rtc_last_init_time, rtc_last_init_boottime>>
    BY <1>5 DEF Tick, SetBack, TimerIrq, ReadGlobalRtc, vars, rtc
  <2>2. Syncing => Since' = Since
    <3>1. CASE Tick
      <4>1. Syncing => now' = now + 1 /\ late_step' = late_step + 1
        BY <3>1 DEF Tick
      <4>2. (now + 1) - (late_step + 1) = now - late_step
        BY DEF IInv, TypeInv
      <4> QED
        BY <4>1, <4>2 DEF Since
    <3>2. CASE UNCHANGED <<now, late_step>>
      BY <3>2 DEF Since
    <3> QED
      BY <1>5, <3>1, <3>2 DEF SetBack, TimerIrq, ReadGlobalRtc, vars, hw, rtc
  <2> QED
    BY <2>1, <2>2, SyncKept
<1> QED
  BY <1>1, <1>2, <1>3, <1>4, <1>5 DEF Next, InitRtc

LEMMA NextIInv == IInv /\ [Next]_vars => IInv'
BY TypeStep, SteppedStep, LostStep, ShownStep, SyncStep DEF IInv

-----------------------------------------------------------------------------
(* The invariant holds in every reachable state.                           *)
THEOREM IInvHolds == Spec => []IInv
BY InitIInv, NextIInv, PTL DEF Spec

(* The boot time never runs ahead of the TSC, and loses less than a        *)
(* microsecond at each interrupt, whatever the frequency and however often *)
(* the TSC is set back.                                                    *)
THEOREM BoottimeFollowsTscTheorem == Spec => []BoottimeFollowsTsc
<1>1. IInv => BoottimeFollowsTsc
  BY DEF IInv
<1> QED
  BY <1>1, IInvHolds, PTL

(* What the clock shows never goes back.                                   *)
THEOREM ShownNeverBackTheorem == Spec => ShownNeverBack
<1>1. IInv /\ [Next]_vars => [Nanos(shown') >= Nanos(shown)]_vars
  BY ShownStep
<1> QED
  BY <1>1, IInvHolds, PTL DEF Spec, ShownNeverBack

(* The wall clock is the real one, to within the timer period, two steps   *)
(* of init_rtc and what rounding has lost.                                 *)
LEMMA ClockRight == IInv => ClockIsRight
<1> SUFFICES ASSUME IInv, pc = "done"
             PROVE  jumps = 0 =>
                      /\ Nanos(read_global_rtc) <= TrueNanos + NanosOf(TimerPeriod)
                      /\ Nanos(read_global_rtc)
                           >= TrueNanos - NanosOf(TimerPeriod + 2 * MaxDelay) - Lost
                      /\ Diff <= boottime
                      /\ read_global_rtc.n < NanosPerSecond
  BY DEF ClockIsRight
<1> DEFINE K == PerTick
           C == NanosPerMicro
           P == TimerPeriod
           D == 2 * MaxDelay
           T == rtc_last_init_time
           n == rtc_last_init_boottime * C
           bt == boottime * C
           R == Nanos(read_global_rtc)
<1>1. /\ K \in Nat \ {0} /\ C \in Nat \ {0} /\ P \in Nat /\ D \in Nat /\ Freq \in Nat
      /\ now \in Nat /\ began \in Nat /\ late_irq \in Nat /\ late_irq <= P
      /\ boottime \in Nat /\ rtc_last_init_boottime \in Nat /\ stepped \in Nat /\ T \in Nat
      /\ NanosPerSecond \in Nat \ {0}
  BY Units, ClockAssumption DEF IInv, TypeInv
<1>2. PICK b \in Int : b = T * Freq /\ Noted(b)
  <2>1. T * Freq \in Int
    BY <1>1
  <2> QED
    BY <2>1 DEF IInv, SyncInv
<1>3. Readable
  BY DEF IInv, ShownInv, Readable
<1>4. Diff = boottime - rtc_last_init_boottime /\ read_global_rtc \in Duration
      /\ R = T * NanosPerSecond + bt - n
  BY <1>3, ReadingInv
<1>5. Diff <= boottime /\ read_global_rtc.n < NanosPerSecond
  BY <1>1, <1>4 DEF Duration
<1>6. T * NanosPerSecond = K * b
  <2>1. T * (Freq * K) = K * (T * Freq)
    BY <1>1
  <2> QED
    BY <1>2, <2>1, Units
<1>7. TrueNanos = K * now /\ NanosOf(P) = K * P /\ NanosOf(P + D) = K * (P + D)
  <2>1. TrueNanos = NanosOf(now)
    BY DEF TrueNanos, NanosOf
  <2>2. now \in Int /\ P \in Int /\ P + D \in Int
    BY <1>1
  <2> QED
    BY <2>1, <2>2, NanosOfTicks
<1> SUFFICES ASSUME jumps = 0
             PROVE  /\ R <= K * now + K * P
                    /\ R >= K * now - K * (P + D) - Lost
  BY <1>5, <1>7
<1>8. /\ K * (b - P - began) <= n + Lost
      /\ n <= K * (b + D - began)
  BY <1>2 DEF Noted
<1>9. stepped = K * (now - late_irq - began) /\ Lost = stepped - bt
  BY DEF IInv, SteppedInv, Lost
<1>10. K * late_irq <= K * P
  BY <1>1, ProductsKeepOrder
<1> DEFINE kb == K * b
           kp == K * P
           ka == K * began
           kd == K * D
           kn == K * now
           kl == K * late_irq
<1>11. /\ kb \in Int /\ kp \in Int /\ ka \in Int /\ kd \in Int /\ kn \in Int /\ kl \in Nat
       /\ n \in Int /\ bt \in Int
       /\ K * (b - P - began) = kb - kp - ka
       /\ K * (b + D - began) = kb + kd - ka
       /\ K * (now - late_irq - began) = kn - kl - ka
       /\ K * (P + D) = kp + kd
  <2> HIDE DEF K, D
  <2> QED
    BY <1>1
<1>12. /\ kb - kp - ka <= n + Lost /\ n <= kb + kd - ka
       /\ stepped = kn - kl - ka /\ Lost = stepped - bt /\ kl <= kp
       /\ R = kb + bt - n
  BY <1>4, <1>6, <1>8, <1>9, <1>10, <1>11
<1> HIDE DEF kb, kp, ka, kd, kn, kl, n, bt, R
<1>13. R <= kn + kp /\ R >= kn - (kp + kd) - Lost
  BY <1>1, <1>11, <1>12
<1> QED
  BY <1>11, <1>13 DEF kn, kp

THEOREM ClockIsRightTheorem == Spec => []ClockIsRight
BY ClockRight, IInvHolds, PTL

-----------------------------------------------------------------------------
(***************************************************************************)
(* The date.                                                               *)
(***************************************************************************)
(* Induction over the years, by sets. *)
LEMMA YearSets ==
  ASSUME NEW S, S \subseteq Nat, 0 \in S, \A n \in S : n + 1 \in S
  PROVE  S = Nat
<1> DEFINE T == Nat \ S
           R == OpToRel(<, Nat)
<1>1. SUFFICES ASSUME T # {} PROVE FALSE
  OBVIOUS
<1>2. \E x \in T : \A y \in T : ~(<<y, x>> \in R)
  <2> HIDE DEF T, R
  <2>1. IsWellFoundedOn(R, Nat)
    BY NatLessThanWellFounded DEF R
  <2>2. T \subseteq Nat
    BY DEF T
  <2> QED
    BY <1>1, <2>1, <2>2, WFMin
<1>3. PICK x \in T : \A y \in T : ~(<<y, x>> \in R)
  BY <1>2
<1>4. x \in Nat /\ x # 0 /\ x - 1 \in Nat /\ (x - 1) + 1 = x
  OBVIOUS
<1>5. x - 1 \in T
  BY <1>4
<1>6. <<x - 1, x>> \in R
  BY <1>4 DEF OpToRel
<1> QED
  BY <1>3, <1>5, <1>6

(* How many leap years there are from 1970 to before a year. *)
Leaps(y) == ((y - 1601) \div 4) - ((y - 1601) \div 100) + ((y - 1601) \div 400) - 89

LEMMA LeapsStep ==
  ASSUME NEW y \in Nat, y >= 1970
  PROVE  Leaps(y + 1) = Leaps(y) + (IF IsLeap(y) THEN 1 ELSE 0)
<1> DEFINE s == y - 1601
<1>1. s \in Nat /\ (y + 1) - 1601 = s + 1 /\ y = s + 1601
  OBVIOUS
<1> HIDE DEF s
<1>2. (s + 1) \div 4 = (s \div 4) + (IF y % 4 = 0 THEN 1 ELSE 0)
  BY <1>1
<1>3. (s + 1) \div 100 = (s \div 100) + (IF y % 100 = 0 THEN 1 ELSE 0)
  BY <1>1
<1>4. (s + 1) \div 400 = (s \div 400) + (IF y % 400 = 0 THEN 1 ELSE 0)
  BY <1>1
<1>5. (y % 400 = 0 => y % 100 = 0) /\ (y % 100 = 0 => y % 4 = 0)
  OBVIOUS
<1> QED
  BY <1>1, <1>2, <1>3, <1>4, <1>5 DEF Leaps, IsLeap, s

LeapsCounted(y) == IsFiniteSet(LeapsBefore(y)) /\ Cardinality(LeapsBefore(y)) = Leaps(y) /\ Leaps(y) \in Nat

LEMMA FirstLeaps == LeapsCounted(1970)
<1>1. LeapsBefore(1970) = {}
  BY DEF LeapsBefore
<1>2. Leaps(1970) = 0
  BY DEF Leaps
<1> QED
  BY <1>1, <1>2, FS_EmptySet DEF LeapsCounted

LEMMA NextLeaps ==
  ASSUME NEW y \in Nat, y >= 1970, LeapsCounted(y)
  PROVE  LeapsCounted(y + 1)
<1>1. y \notin LeapsBefore(y)
  BY DEF LeapsBefore
<1>2. LeapsBefore(y + 1) = IF IsLeap(y) THEN LeapsBefore(y) \cup {y} ELSE LeapsBefore(y)
  BY DEF LeapsBefore
<1>3. Leaps(y + 1) = Leaps(y) + (IF IsLeap(y) THEN 1 ELSE 0)
  BY LeapsStep
<1>4. /\ IsFiniteSet(LeapsBefore(y) \cup {y})
      /\ Cardinality(LeapsBefore(y) \cup {y}) = Cardinality(LeapsBefore(y)) + 1
  BY <1>1, FS_AddElement DEF LeapsCounted
<1> QED
  BY <1>2, <1>3, <1>4 DEF LeapsCounted

CountedSince1970 == {n \in Nat : LeapsCounted(1970 + n)}

LEMMA AllCounted == CountedSince1970 = Nat
<1>1. CountedSince1970 \subseteq Nat /\ 0 \in CountedSince1970
  BY FirstLeaps DEF CountedSince1970
<1>2. ASSUME NEW n \in CountedSince1970 PROVE n + 1 \in CountedSince1970
  <2>1. n \in Nat /\ LeapsCounted(1970 + n)
    BY DEF CountedSince1970
  <2>2. 1970 + n \in Nat /\ 1970 + n >= 1970 /\ (1970 + n) + 1 = 1970 + (n + 1) /\ n + 1 \in Nat
    BY <2>1
  <2>3. LeapsCounted((1970 + n) + 1)
    BY <2>1, <2>2, NextLeaps
  <2> QED
    BY <2>2, <2>3 DEF CountedSince1970
<1> QED
  BY <1>1, <1>2, YearSets

LEMMA LeapsCount ==
  ASSUME NEW y \in Nat, y >= 1970
  PROVE  LeapsCounted(y)
<1>1. PICK n \in Nat : y = 1970 + n
  <2>1. y - 1970 \in Nat /\ 1970 + (y - 1970) = y
    OBVIOUS
  <2> QED
    BY <2>1
<1>2. n \in CountedSince1970
  BY AllCounted
<1> QED
  BY <1>1, <1>2 DEF CountedSince1970

-----------------------------------------------------------------------------
(* The days of a year before a month. *)
StartsAt(y, m) == StartOfMonth[m] + (IF m >= 3 /\ IsLeap(y) THEN 1 ELSE 0)

LEMMA MonthsAre ==
  ASSUME NEW m \in 1..12
  PROVE  m = 1 \/ m = 2 \/ m = 3 \/ m = 4 \/ m = 5 \/ m = 6
         \/ m = 7 \/ m = 8 \/ m = 9 \/ m = 10 \/ m = 11 \/ m = 12
OBVIOUS

LEMMA StartsNat ==
  ASSUME NEW y \in Nat, NEW m \in 1..12
  PROVE  StartsAt(y, m) \in Nat
BY MonthsAre DEF StartsAt, StartOfMonth

LEMMA StartsStep ==
  ASSUME NEW y \in Nat, NEW m \in 1..11
  PROVE  StartsAt(y, m + 1) = StartsAt(y, m) + DaysIn(y, m)
<1>1. m = 1 \/ m = 2 \/ m = 3 \/ m = 4 \/ m = 5 \/ m = 6
      \/ m = 7 \/ m = 8 \/ m = 9 \/ m = 10 \/ m = 11
  OBVIOUS
<1> QED
  BY <1>1 DEF StartsAt, StartOfMonth, DaysIn

LEMMA StartsEnds ==
  ASSUME NEW y \in Nat
  PROVE  StartsAt(y, 1) = 0 /\ StartsAt(y, 12) + 31 = 365 + (IF IsLeap(y) THEN 1 ELSE 0)
BY DEF StartsAt, StartOfMonth

LEMMA DaysInAMonth ==
  ASSUME NEW y \in Nat, NEW m \in 1..12
  PROVE  DaysIn(y, m) \in 28..31
BY DEF DaysIn

(* Counting a month more adds its days. *)
LEMMA DaysStep ==
  ASSUME NEW y \in Nat, NEW m \in 1..11, IsFiniteSet(DaysBefore(y, m))
  PROVE  /\ IsFiniteSet(DaysBefore(y, m + 1))
         /\ Cardinality(DaysBefore(y, m + 1)) = Cardinality(DaysBefore(y, m)) + DaysIn(y, m)
<1> DEFINE D == DaysIn(y, m)
           M == {m} \X (1..D)
<1>1. D \in 28..31
  BY DaysInAMonth
<1>2. DaysBefore(y, m + 1) = DaysBefore(y, m) \cup M
  <2>1. ASSUME NEW day \in (1..12) \X (1..31)
        PROVE  day \in DaysBefore(y, m + 1) <=> day \in DaysBefore(y, m) \/ day \in M
    <3>1. PICK a \in 1..12, b \in 1..31 : day = <<a, b>>
      BY <2>1
    <3>2. a < m + 1 <=> a < m \/ a = m
      OBVIOUS
    <3>3. day[1] = a /\ day[2] = b
      BY <3>1
    <3>4. day \in M <=> a = m /\ b <= D
      BY <3>1, <1>1
    <3> QED
      BY <3>2, <3>3, <3>4 DEF DaysBefore
  <2>2. M \subseteq (1..12) \X (1..31)
    BY <1>1
  <2>3. DaysBefore(y, m + 1) \subseteq (1..12) \X (1..31) /\ DaysBefore(y, m) \subseteq (1..12) \X (1..31)
    BY DEF DaysBefore
  <2> HIDE DEF M
  <2> QED
    BY <2>1, <2>2, <2>3
<1>3. DaysBefore(y, m) \cap M = {}
  BY DEF DaysBefore
<1>4. IsFiniteSet(M) /\ Cardinality(M) = D
  <2>1. IsFiniteSet({m}) /\ Cardinality({m}) = 1
    BY FS_Singleton
  <2>2. IsFiniteSet(1..D) /\ Cardinality(1..D) = D
    <3> HIDE DEF D
    <3>1. D \in Int /\ 1 \in Int /\ ~(1 > D) /\ D - 1 + 1 = D
      BY <1>1
    <3>2. IsFiniteSet(1..D) /\ Cardinality(1..D) = IF 1 > D THEN 0 ELSE D - 1 + 1
      BY <3>1, FS_Interval
    <3> QED
      BY <3>1, <3>2
  <2>3. IsFiniteSet({m} \X (1..D)) /\ Cardinality({m} \X (1..D)) = Cardinality({m}) * Cardinality(1..D)
    BY <2>1, <2>2, FS_Product
  <2> QED
    BY <1>1, <2>1, <2>2, <2>3
<1> HIDE DEF M, D
<1>5. IsFiniteSet(DaysBefore(y, m) \cup M)
      /\ Cardinality(DaysBefore(y, m) \cup M)
           = Cardinality(DaysBefore(y, m)) + Cardinality(M) - Cardinality(DaysBefore(y, m) \cap M)
  BY <1>4, FS_Union
<1>6. Cardinality({}) = 0
  BY FS_EmptySet
<1>7. Cardinality(DaysBefore(y, m)) \in Nat
  BY FS_CardinalityType
<1>8. D \in Nat
  BY <1>1
<1> QED
  BY <1>2, <1>3, <1>4, <1>5, <1>6, <1>7, <1>8 DEF D

LEMMA DaysCount ==
  ASSUME NEW y \in Nat, NEW m \in 1..12
  PROVE  IsFiniteSet(DaysBefore(y, m)) /\ Cardinality(DaysBefore(y, m)) = StartsAt(y, m)
<1> DEFINE P(n) == IsFiniteSet(DaysBefore(y, n)) /\ Cardinality(DaysBefore(y, n)) = StartsAt(y, n)
<1>1. P(1)
  <2>1. DaysBefore(y, 1) = {}
    BY DEF DaysBefore
  <2> QED
    <3>1. StartsAt(y, 1) = 0
      BY StartsEnds
    <3> QED
      BY <2>1, <3>1, FS_EmptySet
<1>2. ASSUME NEW n \in 1..11, P(n) PROVE P(n + 1)
  <2>1. n \in 1..11 /\ IsFiniteSet(DaysBefore(y, n)) /\ Cardinality(DaysBefore(y, n)) = StartsAt(y, n)
    BY <1>2
  <2>2. /\ IsFiniteSet(DaysBefore(y, n + 1))
        /\ Cardinality(DaysBefore(y, n + 1)) = Cardinality(DaysBefore(y, n)) + DaysIn(y, n)
    BY <2>1, DaysStep
  <2>3. StartsAt(y, n + 1) = StartsAt(y, n) + DaysIn(y, n)
    BY <2>1, StartsStep
  <2> QED
    BY <2>1, <2>2, <2>3
<1> HIDE DEF P
<1>3. P(2) /\ P(3) /\ P(4) /\ P(5) /\ P(6) /\ P(7) /\ P(8) /\ P(9) /\ P(10) /\ P(11) /\ P(12)
  <2>1. P(1 + 1) /\ P(2)
    BY <1>1, <1>2
  <2>2. P(2 + 1) /\ P(3)
    BY <2>1, <1>2
  <2>3. P(3 + 1) /\ P(4)
    BY <2>2, <1>2
  <2>4. P(4 + 1) /\ P(5)
    BY <2>3, <1>2
  <2>5. P(5 + 1) /\ P(6)
    BY <2>4, <1>2
  <2>6. P(6 + 1) /\ P(7)
    BY <2>5, <1>2
  <2>7. P(7 + 1) /\ P(8)
    BY <2>6, <1>2
  <2>8. P(8 + 1) /\ P(9)
    BY <2>7, <1>2
  <2>9. P(9 + 1) /\ P(10)
    BY <2>8, <1>2
  <2>10. P(10 + 1) /\ P(11)
    BY <2>9, <1>2
  <2>11. P(11 + 1) /\ P(12)
    BY <2>10, <1>2
  <2> QED
    BY <2>1, <2>2, <2>3, <2>4, <2>5, <2>6, <2>7, <2>8, <2>9, <2>10, <2>11
<1>4. P(m)
  BY <1>1, <1>3, MonthsAre
<1> QED
  BY <1>4 DEF P

-----------------------------------------------------------------------------
(* Dates of the calendar, up to the first seconds of the year 10000. (The  *)
(* large numbers have names, which keeps them from the provers.)           *)
Years == 1970..10000
EarlyYears == 1970..9999

LEMMA YearsAre ==
  /\ \A y \in Years : y \in Nat /\ y >= 1970 /\ y <= 10000
  /\ \A y \in EarlyYears : y \in Years /\ y + 1 \in Years
<1>1. \A y \in Years : y \in Nat /\ y >= 1970 /\ y <= 10000
  BY DEF Years
<1>2. ASSUME NEW y \in EarlyYears PROVE y \in Years /\ y + 1 \in Years
  BY DEF Years, EarlyYears
<1> QED
  BY <1>1, <1>2

Moment == [year : Years, month : 1..12, day : 1..31,
           hour : 0..23, minute : 0..59, second : 0..59]
OnCalendar(d) == d \in Moment /\ Valid(d)

LEMMA Parts ==
  ASSUME NEW d, OnCalendar(d)
  PROVE  /\ d.year \in Years /\ d.month \in 1..12 /\ d.day \in 1..31
         /\ d.hour \in 0..23 /\ d.minute \in 0..59 /\ d.second \in 0..59
         /\ d.day <= DaysIn(d.year, d.month)
         /\ d = [year |-> d.year, month |-> d.month, day |-> d.day,
                 hour |-> d.hour, minute |-> d.minute, second |-> d.second]
BY DEF OnCalendar, Moment, Valid

LEMMA WholeIsDate ==
  ASSUME NEW y \in Years, NEW m \in 1..12, NEW k \in 1..31, k <= DaysIn(y, m),
         NEW h \in 0..23, NEW i \in 0..59, NEW s \in 0..59
  PROVE  OnCalendar([year |-> y, month |-> m, day |-> k, hour |-> h, minute |-> i, second |-> s])
BY DEF OnCalendar, Moment, Valid

DaysUpTo(y, m, k) == 365 * (y - 1970) + Leaps(y) + StartsAt(y, m) + k - 1

LEMMA DaysUpToInt ==
  ASSUME NEW y \in Nat, NEW m \in 1..12, NEW k \in Nat, y >= 1970
  PROVE  DaysUpTo(y, m, k) \in Int
<1>1. Leaps(y) \in Nat
  BY LeapsCount DEF LeapsCounted
<1>2. StartsAt(y, m) \in Nat
  BY MonthsAre DEF StartsAt, StartOfMonth
<1> QED
  BY <1>1, <1>2 DEF DaysUpTo

LEMMA DaysAre ==
  ASSUME NEW d, OnCalendar(d)
  PROVE  /\ DaysSince1970(d) = DaysUpTo(d.year, d.month, d.day)
         /\ DaysSince1970(d) \in Int
<1> DEFINE y == d.year
           m == d.month
           k == d.day
<1>1. y \in Nat /\ y >= 1970 /\ m \in 1..12 /\ k \in Nat
  <2>1. y \in Years /\ m \in 1..12 /\ k \in 1..31
    BY Parts, Zenon
  <2> HIDE DEF y, m, k
  <2> QED
    BY <2>1, YearsAre
<1>2. DaysSince1970(d) =
        365 * (y - 1970) + Cardinality(LeapsBefore(y)) + Cardinality(DaysBefore(y, m)) + k - 1
  BY DEF DaysSince1970
<1> HIDE DEF y, m, k
<1>3. Cardinality(LeapsBefore(y)) = Leaps(y) /\ Leaps(y) \in Nat
  BY <1>1, LeapsCount DEF LeapsCounted
<1>4. Cardinality(DaysBefore(y, m)) = StartsAt(y, m)
  BY <1>1, DaysCount
<1>5. DaysSince1970(d) = DaysUpTo(y, m, k)
  BY <1>2, <1>3, <1>4 DEF DaysUpTo
<1>6. DaysUpTo(y, m, k) \in Int
  BY <1>1, DaysUpToInt
<1> QED
  BY <1>5, <1>6 DEF y, m, k

-----------------------------------------------------------------------------
(* The day after, by its year, month and day. *)
NextDay(y, m, k) ==
  IF k < DaysIn(y, m) THEN <<y, m, k + 1>>
  ELSE IF m < 12 THEN <<y, m + 1, 1>>
  ELSE <<y + 1, 1, 1>>

OneMore(y, m, k, yy, mm, kk) ==
  /\ yy \in Years /\ mm \in 1..12 /\ kk \in 1..31 /\ kk <= DaysIn(yy, mm)
  /\ DaysUpTo(yy, mm, kk) = DaysUpTo(y, m, k) + 1

LEMMA NextDayIs ==
  ASSUME NEW y \in EarlyYears, NEW m \in 1..12, NEW k \in 1..31, k <= DaysIn(y, m)
  PROVE  \E yy, mm, kk :
           /\ NextDay(y, m, k) = <<yy, mm, kk>>
           /\ OneMore(y, m, k, yy, mm, kk)
           /\ yy = y \/ (yy = y + 1 /\ mm = 1 /\ kk = 1)
<1>1. DaysIn(y, m) \in 28..31
  BY DEF DaysIn
<1>2. y \in Nat /\ y + 1 \in Nat /\ y >= 1970
  BY YearsAre
<1>3. Leaps(y) \in Nat /\ StartsAt(y, m) \in Nat
  <2>1. StartsAt(y, m) \in Nat
    BY <1>2, MonthsAre DEF StartsAt, StartOfMonth
  <2> QED
    BY <1>2, <2>1, LeapsCount DEF LeapsCounted
<1>4. CASE k < DaysIn(y, m)
  <2>1. OneMore(y, m, k, y, m, k + 1)
    BY <1>1, <1>2, <1>3, <1>4, YearsAre DEF OneMore, DaysUpTo
  <2> QED
    BY <1>4, <2>1 DEF NextDay
<1>5. CASE ~(k < DaysIn(y, m)) /\ m < 12
  <2>1. m \in 1..11 /\ m + 1 \in 1..12
    BY <1>5
  <2>2. DaysIn(y, m + 1) \in 28..31
    BY <1>2, <2>1, DaysInAMonth
  <2>3. StartsAt(y, m + 1) = StartsAt(y, m) + DaysIn(y, m)
    BY <1>2, <2>1, StartsStep
  <2>4. OneMore(y, m, k, y, m + 1, 1)
    BY <1>1, <1>2, <1>3, <1>5, <2>1, <2>2, <2>3, YearsAre DEF OneMore, DaysUpTo
  <2> QED
    BY <1>5, <2>4 DEF NextDay
<1>6. CASE ~(k < DaysIn(y, m)) /\ ~(m < 12)
  <2>1. m = 12 /\ DaysIn(y, 12) = 31 /\ DaysIn(y + 1, 1) = 31
    BY <1>6 DEF DaysIn
  <2>2. StartsAt(y, 12) + 31 = 365 + (IF IsLeap(y) THEN 1 ELSE 0) /\ StartsAt(y + 1, 1) = 0
    BY <1>2, StartsEnds
  <2>3. Leaps(y + 1) = Leaps(y) + (IF IsLeap(y) THEN 1 ELSE 0)
    BY <1>2, LeapsStep
  <2>4. k = 31
    BY <1>6, <2>1
  <2>5. OneMore(y, 12, 31, y + 1, 1, 1)
    <3>1. StartsAt(y, 12) \in Nat
      BY <1>3, <2>1
    <3> QED
      BY <1>2, <1>3, <3>1, <2>1, <2>2, <2>3, YearsAre DEF OneMore, DaysUpTo
  <2> QED
    BY <1>6, <2>1, <2>4, <2>5 DEF NextDay
<1> QED
  BY <1>4, <1>5, <1>6

-----------------------------------------------------------------------------
(* A second later: the calendar carries as the count of minutes does.      *)
Carry(d) == IF d.second = 59 THEN 1 ELSE 0

(* The first minute of a year. *)
NewYear(d) == d.month = 1 /\ d.day = 1 /\ d.hour = 0 /\ d.minute = 0

Follows(n, d) ==
  /\ OnCalendar(n)
  /\ n.second = (d.second + 1) % 60
  /\ TrueMinutes(n) = TrueMinutes(d) + Carry(d)
  /\ d.second < 59 => n = [d EXCEPT !.second = d.second + 1]
  /\ n.year = d.year \/ (n.year = d.year + 1 /\ NewYear(n) /\ n.second = 0)

LEMMA MinutesAre ==
  ASSUME NEW d, OnCalendar(d), NEW n, OnCalendar(n), NEW j \in {0, 1},
         DaysSince1970(n) = DaysSince1970(d) + j,
         (24 * j + n.hour) * 60 + n.minute = d.hour * 60 + d.minute + Carry(d)
  PROVE  TrueMinutes(n) = TrueMinutes(d) + Carry(d)
<1> DEFINE D == DaysSince1970(d)
           h == d.hour
           i == d.minute
           hh == n.hour
           ii == n.minute
           c == Carry(d)
<1>1. D \in Int
  BY DaysAre
<1>2. h \in 0..23 /\ i \in 0..59 /\ hh \in 0..23 /\ ii \in 0..59
  BY Parts, Zenon
<1>3. TrueMinutes(d) = (D * 24 + h) * 60 + i /\ TrueMinutes(n) = ((D + j) * 24 + hh) * 60 + ii
  BY DEF TrueMinutes
<1>4. (24 * j + hh) * 60 + ii = h * 60 + i + c
  OBVIOUS
<1>5. c \in Int
  BY DEF Carry
<1> HIDE DEF D, h, i, hh, ii, c
<1>6. ((D + j) * 24 + hh) * 60 + ii = (D * 24 + h) * 60 + i + c
  BY <1>1, <1>2, <1>4, <1>5
<1> QED
  BY <1>3, <1>6 DEF c

LEMMA SameDay ==
  ASSUME NEW d, OnCalendar(d), NEW n, OnCalendar(n),
         n.year = d.year, n.month = d.month, n.day = d.day,
         n.second = (d.second + 1) % 60,
         n.hour * 60 + n.minute = d.hour * 60 + d.minute + Carry(d),
         d.second < 59 => n = [d EXCEPT !.second = d.second + 1]
  PROVE  Follows(n, d)
<1>1. DaysSince1970(n) = DaysUpTo(n.year, n.month, n.day) /\ DaysSince1970(d) = DaysUpTo(d.year, d.month, d.day)
  BY DaysAre
<1>2. DaysSince1970(n) = DaysSince1970(d)
  BY <1>1
<1>3. DaysSince1970(d) \in Int
  BY DaysAre
<1>4. DaysSince1970(n) = DaysSince1970(d) + 0
  BY <1>2, <1>3
<1>5. n.hour \in 0..23 /\ n.minute \in 0..59
  BY Parts, Zenon
<1>6. (24 * 0 + n.hour) * 60 + n.minute = d.hour * 60 + d.minute + Carry(d)
  BY <1>5
<1>7. TrueMinutes(n) = TrueMinutes(d) + Carry(d)
  BY <1>4, <1>6, MinutesAre
<1> QED
  BY <1>7 DEF Follows

LEMMA NextIsLater ==
  ASSUME NEW d, OnCalendar(d), d.year \in EarlyYears
  PROVE  Follows(NextSecond(d), d)
<1> DEFINE y == d.year
           m == d.month
           k == d.day
           h == d.hour
           i == d.minute
           s == d.second
           n == NextSecond(d)
           whole(yy, mm, kk, hh, ii, ss) ==
             [year |-> yy, month |-> mm, day |-> kk, hour |-> hh, minute |-> ii, second |-> ss]
<1>1. /\ y \in EarlyYears /\ m \in 1..12 /\ k \in 1..31 /\ k <= DaysIn(y, m)
      /\ h \in 0..23 /\ i \in 0..59 /\ s \in 0..59
      /\ d = whole(y, m, k, h, i, s)
  BY Parts, Zenon
<1>3. Carry(d) = IF s = 59 THEN 1 ELSE 0
  BY DEF Carry
<1> HIDE DEF y, m, k, h, i, s
<1>5. ASSUME NEW hh \in 0..23, NEW ii \in 0..59, NEW ss \in 0..59, ss = (s + 1) % 60,
             hh * 60 + ii = h * 60 + i + (IF s = 59 THEN 1 ELSE 0),
             s < 59 => hh = h /\ ii = i,
             n = whole(y, m, k, hh, ii, ss)
      PROVE  Follows(n, d)
  <2>1. OnCalendar(n)
    <3>1. y \in Years
      BY <1>1, YearsAre
    <3>2. OnCalendar(whole(y, m, k, hh, ii, ss))
      BY <1>1, <1>5, <3>1, WholeIsDate
    <3> HIDE DEF n, whole
    <3> QED
      BY <1>5, <3>2
  <2> DEFINE hour == n.hour
             minute == n.minute
  <2>2. n.year = y /\ n.month = m /\ n.day = k /\ hour = hh /\ minute = ii /\ n.second = ss
    BY <1>5
  <2>3. s < 59 => n = [d EXCEPT !.second = s + 1]
    <3>1. s < 59 => ss = s + 1
      BY <1>1, <1>5
    <3> QED
      BY <1>1, <1>5, <3>1
  <2> HIDE DEF n, hour, minute
  <2>4. hour * 60 + minute = h * 60 + i + Carry(d)
    BY <1>3, <1>5, <2>2
  <2> QED
    BY <2>1, <2>2, <2>3, <2>4, <1>5, SameDay, Zenon DEF y, m, k, h, i, s, hour, minute
<1>6. CASE s < 59
  <2>1. n = whole(y, m, k, h, i, s + 1)
    BY <1>1, <1>6 DEF NextSecond
  <2>2. s + 1 \in 0..59 /\ s + 1 = (s + 1) % 60 /\ s # 59
    BY <1>1, <1>6
  <2>3. h * 60 + i = h * 60 + i + (IF s = 59 THEN 1 ELSE 0)
    BY <1>1, <2>2
  <2>4. PICK hh, ii, ss : <<hh, ii, ss>> = <<h, i, s + 1>>
    OBVIOUS
  <2>5. /\ hh \in 0..23 /\ ii \in 0..59 /\ ss \in 0..59 /\ ss = (s + 1) % 60
        /\ hh * 60 + ii = h * 60 + i + (IF s = 59 THEN 1 ELSE 0)
        /\ s < 59 => hh = h /\ ii = i
    BY <1>1, <2>2, <2>3, <2>4
  <2>6. n = whole(y, m, k, hh, ii, ss)
    BY <2>1, <2>4
  <2> QED
    BY <2>5, <2>6, <1>5
<1>7. CASE s = 59 /\ i < 59
  <2>1. n = whole(y, m, k, h, i + 1, 0)
    <3>1. n = [d EXCEPT !.second = 0, !.minute = @ + 1]
      BY <1>7 DEF NextSecond, s, i
    <3> HIDE DEF n
    <3> QED
      BY <1>1, <3>1
  <2>2. i + 1 \in 0..59 /\ 0 = (s + 1) % 60 /\ 0 \in 0..59 /\ ~(s < 59)
    BY <1>1, <1>7
  <2>3. h * 60 + (i + 1) = h * 60 + i + (IF s = 59 THEN 1 ELSE 0)
    BY <1>1, <1>7
  <2>4. PICK hh, ii, ss : <<hh, ii, ss>> = <<h, i + 1, 0>>
    OBVIOUS
  <2>5. /\ hh \in 0..23 /\ ii \in 0..59 /\ ss \in 0..59 /\ ss = (s + 1) % 60
        /\ hh * 60 + ii = h * 60 + i + (IF s = 59 THEN 1 ELSE 0)
        /\ s < 59 => hh = h /\ ii = i
    BY <1>1, <2>2, <2>3, <2>4
  <2>6. n = whole(y, m, k, hh, ii, ss)
    BY <2>1, <2>4
  <2> QED
    BY <2>5, <2>6, <1>5
<1>8. CASE s = 59 /\ i = 59 /\ h < 23
  <2>1. n = whole(y, m, k, h + 1, 0, 0)
    <3>1. n = [d EXCEPT !.second = 0, !.minute = 0, !.hour = @ + 1]
      BY <1>8 DEF NextSecond, s, i, h
    <3> HIDE DEF n
    <3> QED
      BY <1>1, <3>1
  <2>2. h + 1 \in 0..23 /\ 0 = (s + 1) % 60 /\ 0 \in 0..59 /\ ~(s < 59)
    BY <1>1, <1>8
  <2>3. (h + 1) * 60 + 0 = h * 60 + i + (IF s = 59 THEN 1 ELSE 0)
    BY <1>1, <1>8
  <2>4. PICK hh, ii, ss : <<hh, ii, ss>> = <<h + 1, 0, 0>>
    OBVIOUS
  <2>5. /\ hh \in 0..23 /\ ii \in 0..59 /\ ss \in 0..59 /\ ss = (s + 1) % 60
        /\ hh * 60 + ii = h * 60 + i + (IF s = 59 THEN 1 ELSE 0)
        /\ s < 59 => hh = h /\ ii = i
    BY <1>1, <2>2, <2>3, <2>4
  <2>6. n = whole(y, m, k, hh, ii, ss)
    BY <2>1, <2>4
  <2> QED
    BY <2>5, <2>6, <1>5
<1>9. CASE s = 59 /\ i = 59 /\ h = 23
  <2>1. PICK yy, mm, kk :
          /\ NextDay(y, m, k) = <<yy, mm, kk>>
          /\ OneMore(y, m, k, yy, mm, kk)
          /\ yy = y \/ (yy = y + 1 /\ mm = 1 /\ kk = 1)
    BY <1>1, NextDayIs
  <2>2. n = whole(yy, mm, kk, 0, 0, 0)
    <3>1. CASE k < DaysIn(y, m)
      <4>1. n = whole(y, m, k + 1, 0, 0, 0)
        <5> DEFINE midnight == [d EXCEPT !.second = 0, !.minute = 0, !.hour = 0]
        <5>1. midnight = whole(y, m, k, 0, 0, 0)
          <6>1. midnight = [d EXCEPT !.second = 0, !.minute = 0, !.hour = 0]
            OBVIOUS
          <6> HIDE DEF midnight
          <6> QED
            BY <1>1, <6>1
        <5>2. n = [midnight EXCEPT !.day = @ + 1]
          BY <1>9, <3>1 DEF NextSecond, s, i, h, y, m, k
        <5> HIDE DEF n, midnight
        <5> QED
          BY <5>1, <5>2
      <4> QED
        BY <2>1, <3>1, <4>1 DEF NextDay
    <3>2. CASE ~(k < DaysIn(y, m)) /\ m < 12
      <4>1. n = whole(y, m + 1, 1, 0, 0, 0)
        <5> DEFINE midnight == [d EXCEPT !.second = 0, !.minute = 0, !.hour = 0]
        <5>1. midnight = whole(y, m, k, 0, 0, 0)
          <6>1. midnight = [d EXCEPT !.second = 0, !.minute = 0, !.hour = 0]
            OBVIOUS
          <6> HIDE DEF midnight
          <6> QED
            BY <1>1, <6>1
        <5>2. n = [midnight EXCEPT !.day = 1, !.month = @ + 1]
          BY <1>9, <3>2 DEF NextSecond, s, i, h, y, m, k
        <5> HIDE DEF n, midnight
        <5> QED
          BY <5>1, <5>2
      <4> QED
        BY <2>1, <3>2, <4>1 DEF NextDay
    <3>3. CASE ~(k < DaysIn(y, m)) /\ ~(m < 12)
      <4>1. n = whole(y + 1, 1, 1, 0, 0, 0)
        <5> DEFINE midnight == [d EXCEPT !.second = 0, !.minute = 0, !.hour = 0]
        <5>1. midnight = whole(y, m, k, 0, 0, 0)
          <6>1. midnight = [d EXCEPT !.second = 0, !.minute = 0, !.hour = 0]
            OBVIOUS
          <6> HIDE DEF midnight
          <6> QED
            BY <1>1, <6>1
        <5>2. n = [midnight EXCEPT !.day = 1, !.month = 1, !.year = @ + 1]
          BY <1>9, <3>3 DEF NextSecond, s, i, h, y, m, k
        <5> HIDE DEF n, midnight
        <5> QED
          BY <5>1, <5>2
      <4> QED
        BY <2>1, <3>3, <4>1 DEF NextDay
    <3> QED
      BY <3>1, <3>2, <3>3
  <2> HIDE DEF n
  <2>3. /\ yy \in Years /\ mm \in 1..12 /\ kk \in 1..31 /\ kk <= DaysIn(yy, mm)
        /\ DaysUpTo(yy, mm, kk) = DaysUpTo(y, m, k) + 1
    BY <2>1 DEF OneMore
  <2>4. OnCalendar(n)
    <3>1. 0 \in 0..23 /\ 0 \in 0..59
      OBVIOUS
    <3> QED
      BY <2>2, <2>3, <3>1, WholeIsDate
  <2>5. n.year = yy /\ n.month = mm /\ n.day = kk /\ n.hour = 0 /\ n.minute = 0 /\ n.second = 0
    BY <2>2
  <2>6. DaysSince1970(n) = DaysUpTo(n.year, n.month, n.day)
    BY <2>4, DaysAre, Zenon
  <2>7. DaysSince1970(d) = DaysUpTo(y, m, k)
    BY DaysAre, Zenon DEF y, m, k
  <2>8. DaysSince1970(n) = DaysSince1970(d) + 1
    BY <2>3, <2>5, <2>6, <2>7
  <2>9. Carry(d) = 1 /\ (24 * 1 + 0) * 60 + 0 = h * 60 + i + Carry(d)
    BY <1>3, <1>9
  <2>10. (24 * 1 + n.hour) * 60 + n.minute = d.hour * 60 + d.minute + Carry(d)
    BY <2>5, <2>9 DEF h, i
  <2>11. TrueMinutes(n) = TrueMinutes(d) + Carry(d)
    <3>1. 1 \in {0, 1}
      OBVIOUS
    <3> QED
      BY <2>4, <2>8, <2>10, <3>1, MinutesAre, Zenon
  <2>12. n.year = d.year \/ (n.year = d.year + 1 /\ NewYear(n) /\ n.second = 0)
    BY <2>1, <2>5 DEF NewYear, y
  <2>13. n.second = (s + 1) % 60 /\ ~(s < 59)
    BY <1>9, <2>5
  <2> QED
    <3>1. Follows(n, d)
      BY <2>4, <2>11, <2>12, <2>13 DEF Follows, s
    <3> QED
      BY <3>1 DEF n
<1> QED
  <2>1. (s < 59) \/ (s = 59 /\ i < 59) \/ (s = 59 /\ i = 59 /\ h < 23) \/ (s = 59 /\ i = 59 /\ h = 23)
    BY <1>1
  <2> QED
    BY <2>1, <1>6, <1>7, <1>8, <1>9 DEF n

-----------------------------------------------------------------------------
(* The conversion. *)
RightFormat(f) ==
  f.binary \in BOOLEAN /\ f.hours24 \in BOOLEAN /\ f.century \in BOOLEAN

InCentury(f, y) == f.century \/ y \div 100 = 20
Convertible(f, d) == OnCalendar(d) /\ ConversionIsRight(f, d)

Names == {"seconds", "minutes", "hours", "days", "months", "years", "century"}

(* A reading that agrees with the registers, where they are read. *)
Reads(f, v, d) ==
  /\ DOMAIN v = Names /\ v = [r \in Names |-> v[r]]
  /\ \A r \in Names : (r = "century" /\ ~f.century) \/ v[r] = Registers(f, d)[r]

Decoded(a, d) ==
  /\ a.seconds = d.second /\ a.minutes = d.minute /\ a.hours = d.hour
  /\ a.days = d.day /\ a.months = d.month
  /\ a.years = d.year % 100 /\ a.century = d.year \div 100

LEMMA BcdIs == ASSUME NEW x \in 0..100 PROVE bcd_to_bin(Bcd(x)) = x
<1> DEFINE q == x \div 10
           r == x % 10
<1>1. q \in 0..10 /\ r \in 0..9 /\ x = 10 * q + r
  OBVIOUS
<1>2. Bcd(x) = q * 16 + r
  BY DEF Bcd
<1> HIDE DEF q, r
<1>3. (q * 16 + r) \div 16 = q /\ (q * 16 + r) % 16 = r
  BY <1>1
<1>4. bcd_to_bin(Bcd(x)) = (q * 10 + r) % 256
  BY <1>2, <1>3 DEF bcd_to_bin
<1> QED
  BY <1>1, <1>4

LEMMA HoursAre ==
  ASSUME NEW h \in 0..23
  PROVE  Hours((IF h % 12 = 0 THEN 12 ELSE h % 12) + (IF h >= 12 THEN 128 ELSE 0)) = h
<1> DEFINE t == IF h % 12 = 0 THEN 12 ELSE h % 12
<1>1. t \in 1..12 /\ (t = 12 <=> h % 12 = 0)
  OBVIOUS
<1>2. CASE h < 12
  <2>1. t + (IF h >= 12 THEN 128 ELSE 0) = t /\ h % 12 = h
    BY <1>1, <1>2
  <2>2. t % 128 = t /\ ~(t >= 128)
    BY <1>1
  <2>3. h = 0 => t = 12
    OBVIOUS
  <2>4. h # 0 => t = h
    BY <2>1
  <2> HIDE DEF t
  <2>5. Hours(t) = h
    BY <1>1, <2>2, <2>3, <2>4, <1>2 DEF Hours
  <2> QED
    BY <2>1, <2>5 DEF t
<1>3. CASE h >= 12
  <2>1. t + (IF h >= 12 THEN 128 ELSE 0) = t + 128 /\ h % 12 = h - 12
    BY <1>1, <1>3
  <2>2. (t + 128) % 128 = t /\ t + 128 >= 128
    BY <1>1
  <2>3. h = 12 => t = 12
    OBVIOUS
  <2>4. h # 12 => t = h - 12
    BY <2>1, <1>3
  <2> HIDE DEF t
  <2>5. Hours(t + 128) = h
    BY <1>1, <2>2, <2>3, <2>4, <1>3 DEF Hours
  <2> QED
    BY <2>1, <2>5 DEF t
<1> QED
  BY <1>2, <1>3

LEMMA CodedIs ==
  ASSUME NEW f, RightFormat(f), NEW x \in 0..100
  PROVE  /\ f.binary => Coded(f, x) = x
         /\ ~f.binary => bcd_to_bin(Coded(f, x)) = x
BY BcdIs DEF Coded, RightFormat

LEMMA HundredsAre ==
  ASSUME NEW y \in Years
  PROVE  /\ y \div 100 \in 19..100 /\ y % 100 \in 0..99
         /\ (y \div 100) * 100 + (y % 100) = y
BY DEF Years

LEMMA ReadsAre ==
  ASSUME NEW f, NEW v, NEW d, Reads(f, v, d)
  PROVE  /\ v.seconds = Coded(f, d.second) /\ v.minutes = Coded(f, d.minute)
         /\ v.hours = HourRegister(f, d.hour) /\ v.days = Coded(f, d.day)
         /\ v.months = Coded(f, d.month) /\ v.years = Coded(f, d.year % 100)
         /\ f.century => v.century = Coded(f, d.year \div 100)
         /\ DOMAIN v = Names
         /\ v = [r \in Names |-> v[r]]
BY DEF Reads, Registers, Names

LEMMA AdjustedBcd ==
  ASSUME NEW f, RightFormat(f), NEW v, NEW d, OnCalendar(d), Reads(f, v, d), ~f.binary,
         f.century, f.hours24 \/ d.hour < 12
  PROVE  Decoded(Adjusted(f, v), d)
<1> DEFINE u == [r \in Names |-> bcd_to_bin(v[r])]
           h == d.hour
           t == IF h % 12 = 0 THEN 12 ELSE h % 12
<1>1. Adjusted(f, v) = AdjustHours(f, u)
  BY ReadsAre DEF Adjusted, adjust_bcd, AssumeCentury
<1>2. /\ AdjustHours(f, u).seconds = bcd_to_bin(v.seconds)
      /\ AdjustHours(f, u).minutes = bcd_to_bin(v.minutes)
      /\ AdjustHours(f, u).hours = IF f.hours24 THEN bcd_to_bin(v.hours) ELSE Hours(bcd_to_bin(v.hours))
      /\ AdjustHours(f, u).days = bcd_to_bin(v.days)
      /\ AdjustHours(f, u).months = bcd_to_bin(v.months) /\ AdjustHours(f, u).years = bcd_to_bin(v.years)
      /\ AdjustHours(f, u).century = bcd_to_bin(v.century)
  BY DEF AdjustHours, Names
<1> HIDE DEF u
<1>3. ASSUME NEW x \in 0..100 PROVE bcd_to_bin(Coded(f, x)) = x
  BY CodedIs
<1>4. /\ v.seconds = Coded(f, d.second) /\ v.minutes = Coded(f, d.minute)
      /\ v.hours = HourRegister(f, h) /\ v.days = Coded(f, d.day)
      /\ v.months = Coded(f, d.month) /\ v.years = Coded(f, d.year % 100)
      /\ v.century = Coded(f, d.year \div 100)
  BY ReadsAre
<1>5. /\ d.second \in 0..100 /\ d.minute \in 0..100 /\ h \in 0..23 /\ d.day \in 0..100
      /\ d.month \in 0..100 /\ d.year % 100 \in 0..100 /\ d.year \div 100 \in 0..100
  <2>1. /\ d.year \in Years /\ d.month \in 1..12 /\ d.day \in 1..31
        /\ d.hour \in 0..23 /\ d.minute \in 0..59 /\ d.second \in 0..59
    BY Parts, Zenon
  <2>2. d.year % 100 \in 0..99 /\ d.year \div 100 \in 19..100
    BY <2>1, HundredsAre
  <2> QED
    BY <2>1, <2>2
<1> HIDE DEF h
<1>6. AdjustHours(f, u).hours = h
  <2>1. CASE f.hours24
    <3>1. h \in 0..100 /\ v.hours = Coded(f, h)
      BY <1>4, <1>5, <2>1 DEF HourRegister
    <3> QED
      BY <1>2, <1>3, <2>1, <3>1
  <2>2. CASE ~f.hours24 /\ h < 12
    <3>1. t \in 0..100 /\ ~(h >= 12) /\ t + 0 = t
      BY <1>5, <2>2
    <3>2. bcd_to_bin(Coded(f, t)) = t /\ Coded(f, t) \in Int
      BY <1>3, <3>1 DEF Coded, Bcd
    <3>3. v.hours = Coded(f, t) + 0
      BY <1>4, <2>2, <3>1 DEF HourRegister
    <3>4. Hours(t + (IF h >= 12 THEN 128 ELSE 0)) = h
      BY <1>5, HoursAre
    <3> HIDE DEF t
    <3>5. bcd_to_bin(v.hours) = t /\ Hours(t) = h
      BY <3>1, <3>2, <3>3, <3>4
    <3> QED
      BY <1>2, <2>2, <3>5
  <2> QED
    BY <2>1, <2>2 DEF h
<1> QED
  BY <1>1, <1>2, <1>3, <1>4, <1>5, <1>6 DEF Decoded, h

LEMMA AdjustedBinary ==
  ASSUME NEW f, RightFormat(f), NEW v, NEW d, OnCalendar(d), InCentury(f, d.year), Reads(f, v, d), f.binary
  PROVE  Decoded(Adjusted(f, v), d)
<1> DEFINE u == AssumeCentury(f, v)
<1>1. Adjusted(f, v) = AdjustHours(f, u)
  BY DEF Adjusted, adjust_bcd
<1>2. /\ u.seconds = v.seconds /\ u.minutes = v.minutes /\ u.hours = v.hours /\ u.days = v.days
      /\ u.months = v.months /\ u.years = v.years
      /\ u.century = IF f.century THEN v.century ELSE 20
      /\ u = [r \in Names |-> u[r]]
  <2>1. v = [r \in Names |-> v[r]]
    BY ReadsAre
  <2>2. u = IF f.century THEN v ELSE [v EXCEPT !.century = 20]
    BY DEF AssumeCentury
  <2> HIDE DEF u
  <2> QED
    BY <2>1, <2>2 DEF Names
<1>3. /\ d.year \in Years /\ d.month \in 1..12 /\ d.day \in 1..31
      /\ d.hour \in 0..23 /\ d.minute \in 0..59 /\ d.second \in 0..59
  BY Parts, Zenon
<1>4. ASSUME NEW x PROVE Coded(f, x) = x
  BY DEF Coded
<1>5. /\ v.seconds = d.second /\ v.minutes = d.minute
      /\ v.days = d.day /\ v.months = d.month /\ v.years = d.year % 100
      /\ f.century => v.century = d.year \div 100
      /\ v.hours = HourRegister(f, d.hour)
  BY <1>4, ReadsAre
<1>6. u.century = d.year \div 100
  BY <1>2, <1>5 DEF InCentury
<1>7. IF f.hours24 THEN v.hours = d.hour ELSE Hours(v.hours) = d.hour
  <2>1. CASE f.hours24
    BY <2>1, <1>4, <1>5 DEF HourRegister
  <2>2. CASE ~f.hours24
    <3>1. v.hours = (IF d.hour % 12 = 0 THEN 12 ELSE d.hour % 12) + (IF d.hour >= 12 THEN 128 ELSE 0)
      BY <2>2, <1>4, <1>5 DEF HourRegister
    <3> DEFINE h == d.hour
    <3>2. h \in 0..23
      BY <1>3
    <3> HIDE DEF h
    <3>3. Hours((IF h % 12 = 0 THEN 12 ELSE h % 12) + (IF h >= 12 THEN 128 ELSE 0)) = h
      BY <3>2, HoursAre
    <3> QED
      BY <2>2, <3>1, <3>3 DEF h
  <2> QED
    BY <2>1, <2>2
<1>8. /\ AdjustHours(f, u).seconds = u.seconds /\ AdjustHours(f, u).minutes = u.minutes
      /\ AdjustHours(f, u).days = u.days /\ AdjustHours(f, u).months = u.months
      /\ AdjustHours(f, u).years = u.years /\ AdjustHours(f, u).century = u.century
      /\ AdjustHours(f, u).hours = IF f.hours24 THEN u.hours ELSE Hours(u.hours)
  <2>1. u = [r \in Names |-> u[r]]
    BY <1>2
  <2> HIDE DEF u
  <2>2. AdjustHours(f, u) = IF f.hours24 THEN u ELSE [u EXCEPT !.hours = Hours(u.hours)]
    BY DEF AdjustHours
  <2> QED
    BY <2>1, <2>2 DEF Names
<1> HIDE DEF u
<1> QED
  BY <1>1, <1>2, <1>5, <1>6, <1>7, <1>8 DEF Decoded

LEMMA AdjustedIs ==
  ASSUME NEW f, RightFormat(f), NEW v, NEW d, Convertible(f, d), Reads(f, v, d)
  PROVE  Decoded(Adjusted(f, v), d)
BY AdjustedBcd, AdjustedBinary DEF Convertible, ConversionIsRight, InCentury, RightFormat

(* The days of init_rtc are those of the calendar. *)
LEMMA YearStart ==
  ASSUME NEW y \in Years
  PROVE  /\ (y - 1601) % 65536 = y - 1601
         /\ y - 1601 \in Nat /\ y - 1601 >= 369 /\ y - 1601 <= 8399
         /\ Int16(y - 1970) = y - 1970
         /\ y - 1970 \in 0..8030
<1>1. y \in Nat /\ y >= 1970 /\ y <= 10000
  BY YearsAre
<1>2. (y - 1601) % 65536 = y - 1601
  BY <1>1
<1>3. Int16(y - 1970) = y - 1970
  <2>1. (y - 1970) % 65536 = y - 1970
    BY <1>1
  <2> QED
    BY <1>1, <2>1 DEF Int16
<1> QED
  BY <1>1, <1>2, <1>3

LEMMA LeapDaysAre ==
  ASSUME NEW y \in Years
  PROVE  Int16(leap_days((y - 1601) % 65536) - LEAP_DAYS_1970) = Leaps(y)
<1> DEFINE s == y - 1601
           l == (s \div 4) - (s \div 100) + (s \div 400)
<1>1. s \in Nat /\ s >= 369 /\ s <= 8399 /\ s % 65536 = s
  BY YearStart
<1>2. Leaps(y) = l - 89
  BY SMT, YearsAre DEF Leaps
<1>3. leap_days(s) = l % 65536
  BY DEF leap_days
<1>4. LEAP_DAYS_1970 = 89
  BY DEF LEAP_DAYS_1970
<1>5. Leaps(y) \in Nat
  BY YearsAre, LeapsCount DEF LeapsCounted
<1> HIDE DEF s
<1>6. s \div 4 \in 0..2100 /\ s \div 100 \in 0..84 /\ s \div 400 \in 0..21
  BY <1>1
<1>7. l \in Int /\ l <= 2121
  <2> DEFINE a == s \div 4
             b == s \div 100
             c == s \div 400
  <2>1. a \in 0..2100 /\ b \in 0..84 /\ c \in 0..21 /\ l = a - b + c
    BY <1>6
  <2> HIDE DEF a, b, c, l
  <2> QED
    BY <2>1
<1> HIDE DEF l
<1>8. l >= 89 /\ l % 65536 = l
  BY <1>2, <1>5, <1>7
<1>9. (l - 89) % 65536 = l - 89
  BY <1>7, <1>8
<1>10. Int16(l - 89) = l - 89
  BY <1>7, <1>8, <1>9 DEF Int16
<1>11. leap_days((y - 1601) % 65536) = l
  BY <1>1, <1>3, <1>8 DEF s
<1> QED
  BY <1>2, <1>4, <1>10, <1>11

LEMMA MinutesRight ==
  ASSUME NEW f, NEW d, Convertible(f, d), NEW v, Decoded(v, d)
  PROVE  Minutes(v) = TrueMinutes(d)
<1> DEFINE y == d.year
           m == d.month
           k == d.day
           h == d.hour
           i == d.minute
           leap == is_leap_year((y - 1601) % 65536)
           D == Int16(y - 1970) * 365 + Int16(leap_days((y - 1601) % 65536) - LEAP_DAYS_1970)
                  + (StartOfMonth[m] + k - 1 + (IF m >= 3 /\ leap THEN 1 ELSE 0))
<1>1. y \in Years /\ m \in 1..12 /\ k \in 1..31
  <2>1. OnCalendar(d)
    BY DEF Convertible
  <2> QED
    BY <2>1, Parts, Zenon
<1>2. v.century * 100 + v.years = y
  <2>1. v.century = y \div 100 /\ v.years = y % 100
    BY DEF Decoded
  <2> HIDE DEF y
  <2> QED
    BY <1>1, <2>1, HundredsAre
<1>3. Minutes(v) = (D * 24 + h) * 60 + i
  <2>1. v.months = m /\ v.days = k /\ v.hours = h /\ v.minutes = i
    BY DEF Decoded
  <2> HIDE DEF y, m, k, h, i
  <2> QED
    BY <1>2, <2>1 DEF Minutes, DaysInYear
<1>4. m < 3 \/ (leap <=> IsLeap(y))
  BY DEF Convertible, ConversionIsRight, LeapIsKnown
<1>5. Int16(y - 1970) = y - 1970 /\ y - 1970 \in 0..8030
  <2> HIDE DEF y
  <2> QED
    BY <1>1, YearStart
<1>6. Int16(leap_days((y - 1601) % 65536) - LEAP_DAYS_1970) = Leaps(y)
  <2> HIDE DEF y
  <2> QED
    BY <1>1, LeapDaysAre
<1>7. DaysSince1970(d) = DaysUpTo(y, m, k)
  <2>1. OnCalendar(d)
    BY DEF Convertible
  <2> QED
    BY <2>1, DaysAre, Zenon
<1>8. Leaps(y) \in Nat
  <2> HIDE DEF y
  <2> QED
    BY <1>1, YearsAre, LeapsCount DEF LeapsCounted
<1>9. TrueMinutes(d) = (DaysSince1970(d) * 24 + h) * 60 + i
  BY DEF TrueMinutes
<1>10. StartOfMonth[m] \in Nat
  BY <1>1, MonthsAre DEF StartOfMonth
<1> HIDE DEF y, m, k, h, i, leap
<1>11. D = DaysUpTo(y, m, k)
  <2>1. m >= 3 /\ leap <=> m >= 3 /\ IsLeap(y)
    BY <1>1, <1>4
  <2>2. StartOfMonth[m] + k - 1 + (IF m >= 3 /\ leap THEN 1 ELSE 0) = StartsAt(y, m) + k - 1
    BY <1>1, <1>10, <2>1 DEF StartsAt
  <2>3. StartsAt(y, m) \in Nat
    BY <1>10 DEF StartsAt
  <2>4. y \in Nat
    BY <1>1, YearsAre
  <2> QED
    BY <1>1, <1>5, <1>6, <1>8, <2>2, <2>3, <2>4 DEF DaysUpTo
<1> QED
  BY <1>3, <1>7, <1>9, <1>11

-----------------------------------------------------------------------------
(* The clock goes on. *)
CanTick(d, n) == d.year \in EarlyYears \/ (NewYear(d) /\ d.second < n)

Succ(s, t) == OnCalendar(s) /\ OnCalendar(t) /\ t = NextSecond(s) /\ Follows(t, s)

LEMMA TickEarly ==
  ASSUME NEW d, NEW n \in Nat, OnCalendar(d), d.year \in EarlyYears
  PROVE  Succ(d, NextSecond(d)) /\ CanTick(NextSecond(d), n + 1)
<1> DEFINE t == NextSecond(d)
<1>1. Follows(t, d)
  BY NextIsLater
<1>2. OnCalendar(t) /\ (t.year = d.year \/ (NewYear(t) /\ t.second = 0))
  BY <1>1 DEF Follows
<1>3. CanTick(t, n + 1)
  BY <1>2 DEF CanTick
<1> QED
  BY <1>1, <1>2, <1>3 DEF Succ

LEMMA TickNewYear ==
  ASSUME NEW d, NEW n \in Nat, n < 59, OnCalendar(d), NewYear(d), d.second < n
  PROVE  Succ(d, NextSecond(d)) /\ CanTick(NextSecond(d), n + 1)
<1> DEFINE y == d.year
           m == d.month
           k == d.day
           h == d.hour
           i == d.minute
           s == d.second
           t == NextSecond(d)
           whole(yy, mm, kk, hh, ii, ss) ==
             [year |-> yy, month |-> mm, day |-> kk, hour |-> hh, minute |-> ii, second |-> ss]
<1>1. /\ y \in Years /\ m \in 1..12 /\ k \in 1..31 /\ k <= DaysIn(y, m)
      /\ h \in 0..23 /\ i \in 0..59 /\ s \in 0..59
      /\ d = whole(y, m, k, h, i, s)
  BY Parts, Zenon
<1>2. s < n /\ m = 1 /\ k = 1 /\ h = 0 /\ i = 0
  BY DEF NewYear
<1>3. t = IF s < 59 THEN [d EXCEPT !.second = s + 1] ELSE t
  BY DEF NextSecond
<1>4. Carry(d) = IF s = 59 THEN 1 ELSE 0
  BY DEF Carry
<1> HIDE DEF y, m, k, h, i, s, t
<1>6. s < 59 /\ s + 1 \in 0..59 /\ s + 1 = (s + 1) % 60 /\ s + 1 < n + 1
  BY <1>1, <1>2
<1>7. t = whole(y, m, k, h, i, s + 1)
  BY <1>1, <1>3, <1>6
<1>8. OnCalendar(t)
  <2>1. OnCalendar(whole(y, m, k, h, i, s + 1))
    BY <1>1, <1>6, WholeIsDate
  <2> HIDE DEF whole
  <2> QED
    BY <1>7, <2>1
<1>9. t.year = y /\ t.month = m /\ t.day = k /\ t.hour = h /\ t.minute = i /\ t.second = s + 1
  BY <1>7
<1>10. t.hour * 60 + t.minute = h * 60 + i + Carry(d)
  BY <1>1, <1>4, <1>6, <1>9
<1>11. t = [d EXCEPT !.second = s + 1]
  BY <1>3, <1>6
<1>12. Follows(t, d)
  <2>1. t.second = (s + 1) % 60
    BY <1>6, <1>9
  <2> QED
    BY <1>8, <1>9, <1>10, <1>11, <2>1, SameDay, Zenon DEF y, m, k, h, i, s
<1>13. NewYear(t) /\ t.second < n + 1
  BY <1>2, <1>6, <1>9 DEF NewYear
<1> QED
  BY <1>8, <1>12, <1>13 DEF Succ, CanTick, t

LEMMA TickIs ==
  ASSUME NEW d, NEW n \in Nat, n < 59, OnCalendar(d), CanTick(d, n)
  PROVE  Succ(d, NextSecond(d)) /\ CanTick(NextSecond(d), n + 1)
BY TickEarly, TickNewYear DEF CanTick

-----------------------------------------------------------------------------
(* Readings. *)
Unread(l) == {l[i] : i \in DOMAIN l}

(* The registers that are read. *)
Registered(f) == IF f.century THEN Names ELSE Names \ {"century"}

(* What has been read is from one of two seconds, each register for itself. *)
Shown(f, v, l, a, b) ==
  \A r \in Names :
    \/ r \in Unread(l) \/ (r = "century" /\ ~f.century)
    \/ v[r] = Registers(f, a)[r] \/ v[r] = Registers(f, b)[r]

Pair(a, b) == OnCalendar(a) /\ (b = a \/ Succ(a, b))

WithinMinute(s, t) == \E x : t = [s EXCEPT !.second = x]

LEMMA SameRegisters ==
  ASSUME NEW f, NEW s, OnCalendar(s), NEW t, WithinMinute(s, t), NEW r \in Names, r # "seconds"
  PROVE  Registers(f, t)[r] = Registers(f, s)[r]
<1>1. s = [year |-> s.year, month |-> s.month, day |-> s.day,
           hour |-> s.hour, minute |-> s.minute, second |-> s.second]
  BY Parts, Zenon
<1>2. t.year = s.year /\ t.month = s.month /\ t.day = s.day /\ t.hour = s.hour /\ t.minute = s.minute
  <2>1. PICK x : t = [s EXCEPT !.second = x]
    BY DEF WithinMinute
  <2> QED
    BY <1>1, <2>1
<1> QED
  BY <1>2 DEF Registers, Names

LEMMA SecondIs ==
  ASSUME NEW f, RightFormat(f), NEW x \in 0..59, NEW y \in 0..59, Coded(f, x) = Coded(f, y)
  PROVE  x = y
<1>1. x \in 0..100 /\ y \in 0..100
  OBVIOUS
<1> QED
  BY <1>1, CodedIs

(* The second x, or the one after, is the second y, some seconds later, or  *)
(* the one after.                                                          *)
OneOf(w, x, torn) == w = x \/ (torn /\ w = (x + 1) % 60)

LEMMA SecondAfter ==
  ASSUME NEW x \in 0..59
  PROVE  (x + 1) % 60 = IF x = 59 THEN 0 ELSE x + 1
OBVIOUS

Apart(x, n, y, w, p, q) ==
  /\ x \in 0..59 /\ n \in 0..59 /\ y = (x + n) % 60
  /\ OneOf(w, x, p) /\ OneOf(w, y, q) /\ (q => n < 59)

LEMMA SecondsApart ==
  ASSUME NEW x, NEW n, NEW y, NEW w, NEW p, NEW q, Apart(x, n, y, w, p, q)
  PROVE  n = 0 \/ (n = 1 /\ p /\ w = y)
<1>0. /\ x \in 0..59 /\ n \in 0..59 /\ y = (x + n) % 60
      /\ OneOf(w, x, p) /\ OneOf(w, y, q) /\ (q => n < 59)
  BY DEF Apart
<1>1. y = IF x + n < 60 THEN x + n ELSE x + n - 60
  BY <1>0
<1>2. y \in 0..59
  BY <1>0, <1>1
<1>3. w = x \/ (p /\ w = IF x = 59 THEN 0 ELSE x + 1)
  BY <1>0, SecondAfter DEF OneOf
<1>4. w = y \/ (n < 59 /\ w = IF y = 59 THEN 0 ELSE y + 1)
  BY <1>0, <1>2, SecondAfter DEF OneOf
<1>5. w = x => n = 0
  BY <1>0, <1>1, <1>2, <1>4
<1>6. (w = IF x = 59 THEN 0 ELSE x + 1) => n = 0 \/ (n = 1 /\ w = y)
  BY <1>0, <1>1, <1>2, <1>4
<1> QED
  BY <1>3, <1>5, <1>6

LEMMA PairIs ==
  ASSUME NEW a, NEW b, Pair(a, b)
  PROVE  /\ OnCalendar(a) /\ a.second \in 0..59
         /\ b = a \/ (OnCalendar(b) /\ b.second = (a.second + 1) % 60)
         /\ b = a \/ a.second = 59 \/ WithinMinute(a, b)
<1>1. OnCalendar(a) /\ (b = a \/ (OnCalendar(b) /\ Follows(b, a)))
  BY DEF Pair, Succ
<1>2. a.second \in 0..59
  BY <1>1, Parts, Zenon
<1>3. a.second < 59 \/ a.second = 59
  BY <1>2
<1> QED
  BY <1>1, <1>2, <1>3 DEF Follows, WithinMinute

(* The second of a reading. *)
LEMMA ShownSecond ==
  ASSUME NEW f, RightFormat(f), NEW v, NEW a, NEW b, Pair(a, b), Shown(f, v, <<>>, a, b),
         NEW w \in 0..59, v.seconds = Coded(f, w)
  PROVE  OneOf(w, a.second, b # a)
<1>1. Unread(<<>>) = {}
  BY DEF Unread
<1>2. "seconds" \in Names /\ "seconds" # "century"
  BY DEF Names
<1>3. Registers(f, a)["seconds"] = Coded(f, a.second) /\ Registers(f, b)["seconds"] = Coded(f, b.second)
  BY DEF Registers
<1>4. v["seconds"] = Registers(f, a)["seconds"] \/ v["seconds"] = Registers(f, b)["seconds"]
  BY <1>1, <1>2 DEF Shown
<1>5. Coded(f, w) = Coded(f, a.second) \/ (b # a /\ Coded(f, w) = Coded(f, b.second))
  BY <1>3, <1>4
<1>6. OnCalendar(a) /\ (b = a \/ (OnCalendar(b) /\ b.second = (a.second + 1) % 60))
  BY PairIs
<1>7. a.second \in 0..59 /\ (b = a \/ b.second \in 0..59)
  BY <1>6, Parts, Zenon
<1>8. w = a.second \/ (b # a /\ w = b.second)
  BY <1>5, <1>7, SecondIs, Zenon
<1> QED
  BY <1>6, <1>8 DEF OneOf

LEMMA SecondShown ==
  ASSUME NEW f, NEW v, NEW a, NEW b, Pair(a, b), Shown(f, v, <<>>, a, b)
  PROVE  \E w \in 0..59 : v.seconds = Coded(f, w)
<1>1. Unread(<<>>) = {}
  BY DEF Unread
<1>2. "seconds" \in Names /\ "seconds" # "century"
  BY DEF Names
<1>3. Registers(f, a)["seconds"] = Coded(f, a.second) /\ Registers(f, b)["seconds"] = Coded(f, b.second)
  BY DEF Registers
<1>4. v["seconds"] = Registers(f, a)["seconds"] \/ v["seconds"] = Registers(f, b)["seconds"]
  BY <1>1, <1>2 DEF Shown
<1>5. OnCalendar(a) /\ (b = a \/ OnCalendar(b))
  BY PairIs
<1>6. a.second \in 0..59 /\ (b = a \/ b.second \in 0..59)
  BY <1>5, Parts, Zenon
<1> QED
  BY <1>3, <1>4, <1>6

LEMMA TornTwice ==
  ASSUME NEW f, NEW v, NEW a, NEW c, NEW d, OnCalendar(a), OnCalendar(c),
         WithinMinute(a, c) \/ d = c \/ WithinMinute(c, d),
         NEW r \in Names, r # "seconds",
         v[r] = Registers(f, a)[r] \/ v[r] = Registers(f, c)[r],
         v[r] = Registers(f, c)[r] \/ v[r] = Registers(f, d)[r]
  PROVE  v[r] = Registers(f, c)[r]
<1>1. WithinMinute(a, c) => Registers(f, c)[r] = Registers(f, a)[r]
  BY SameRegisters
<1>2. WithinMinute(c, d) => Registers(f, d)[r] = Registers(f, c)[r]
  BY SameRegisters
<1> QED
  BY <1>1, <1>2

(* A reading that agrees with an earlier one is of the second at which it  *)
(* began, although each of the two may be torn.                            *)
LEMMA Agreed ==
  ASSUME NEW f, RightFormat(f), NEW v, NEW a, NEW b, NEW c, NEW d, NEW n \in 0..59,
         Pair(a, b), Pair(c, d), Shown(f, v, <<>>, a, b), Shown(f, v, <<>>, c, d),
         d # c => n < 59, c.second = (a.second + n) % 60,
         n = 0 => c = a /\ b = a, n = 1 => b = a \/ b = c
  PROVE  Shown(f, v, <<>>, c, c)
<1>1. PICK w \in 0..59 : v.seconds = Coded(f, w)
  BY SecondShown
<1>2. OneOf(w, a.second, b # a) /\ OneOf(w, c.second, d # c)
  BY <1>1, ShownSecond
<1>3. /\ OnCalendar(a) /\ a.second \in 0..59
      /\ b = a \/ a.second = 59 \/ WithinMinute(a, b)
  BY PairIs
<1>4. OnCalendar(c) /\ (d = c \/ c.second = 59 \/ WithinMinute(c, d))
  BY PairIs
<1>5. n = 0 \/ (n = 1 /\ b # a /\ w = c.second)
  <2> DEFINE x == a.second
             y == c.second
             p == b # a
             q == d # c
  <2>1. Apart(x, n, y, w, p, q)
    BY <1>2, <1>3 DEF Apart
  <2> HIDE DEF x, y, p, q
  <2>2. n = 0 \/ (n = 1 /\ p /\ w = y)
    BY <2>1, SecondsApart
  <2> QED
    BY <2>2 DEF p, y
<1>6. CASE n = 0
  BY <1>6
<1>7. CASE n = 1 /\ b # a /\ w = c.second
  <2>1. b = c
    BY <1>7
  <2>2. ~(a.second = 59 /\ c.second = 59)
    BY <1>7
  <2>3. WithinMinute(a, c) \/ d = c \/ WithinMinute(c, d)
    BY <1>3, <1>4, <1>7, <2>1, <2>2
  <2>4. SUFFICES ASSUME NEW r \in Names, ~(r = "century" /\ ~f.century)
                 PROVE  v[r] = Registers(f, c)[r]
    BY DEF Shown
  <2>5. Unread(<<>>) = {}
    BY DEF Unread
  <2>6. /\ v[r] = Registers(f, a)[r] \/ v[r] = Registers(f, c)[r]
        /\ v[r] = Registers(f, c)[r] \/ v[r] = Registers(f, d)[r]
    BY <2>1, <2>4, <2>5 DEF Shown
  <2>7. CASE r = "seconds"
    BY <1>1, <1>7, <2>7 DEF Registers
  <2>8. CASE r # "seconds"
    BY <1>3, <1>4, <2>3, <2>6, <2>8, TornTwice
  <2> QED
    BY <2>7, <2>8
<1> QED
  BY <1>5, <1>6, <1>7

-----------------------------------------------------------------------------
(* The inductive invariant. What the clock shows: a date from which it can *)
(* go on for as long as it may, and, during an update, some registers of   *)
(* the second after.                                                       *)
ClockInv ==
  /\ format \in Formats /\ flag \in BOOLEAN /\ crossed \in BOOLEAN
  /\ ticked \in Nat /\ ticked <= MaxSeconds /\ (flag => ticked < MaxSeconds)
  /\ OnCalendar(date)
  /\ ticked < MaxSeconds => CanTick(date, ticked)

RegistersInv ==
  /\ DOMAIN registers = Names
  /\ registers = [r \in Names |-> registers[r]]
  /\ \A r \in Names :
       \/ registers[r] = Registers(format, date)[r]
       \/ flag /\ registers[r] = Registers(format, NextSecond(date))[r]

PhaseInv ==
  /\ phase \in {"wait", "read", "compare", "confirmed", "done"}
  /\ phase = "wait" => ~crossed
  /\ phase # "wait" /\ ~crossed => ~flag

(* The reading that is under way: of the second c at which it began and,   *)
(* if an update has begun since, of the one after.                         *)
Passed == IF crossed /\ ~flag THEN 1 ELSE 0
Spans(c, d) ==
  /\ Pair(c, d)
  /\ ~crossed => c = date /\ d = date
  /\ crossed /\ flag => c = date /\ d = NextSecond(date)
  /\ crossed /\ ~flag => d = date /\ Succ(c, d)

(* The first reading, of a and b, and the second c, n seconds after a.     *)
First(f, v, a, b, c, n) ==
  /\ Pair(a, b) /\ Shown(f, v, <<>>, a, b) /\ v = [r \in Names |-> v[r]]
  /\ n \in Nat /\ c.second = (a.second + n) % 60
  /\ n = 0 => c = a
  /\ n = 1 => b = a \/ b = c

FirstBefore(c) ==
  \E a, b, n : First(format, rtc_values, a, b, c, n) /\ (n = 0 => b = a) /\ n + Passed <= ticked

UnderWay(c, d) ==
  /\ Spans(c, d) /\ Shown(format, reading, left, c, d)
  /\ rtc_values # <<>> => FirstBefore(c)

ReadInv ==
  phase \in {"read", "compare"} =>
    /\ left \in Seq(Registered(format)) /\ (phase = "compare" => left = <<>>)
    /\ ~format.century => reading.century = 0
    /\ DOMAIN reading = Names /\ reading = [r \in Names |-> reading[r]]
    /\ Passed <= ticked
    /\ \E c, d : UnderWay(c, d)

FirstWaits ==
  \E a, b, n : /\ First(format, rtc_values, a, b, date, n) /\ n <= ticked
               /\ n = 0 => b = a \/ (flag /\ b = NextSecond(a))

WaitInv == phase = "wait" /\ rtc_values # <<>> => FirstWaits

(* The confirmed date: that of the second shown, or of the one before.     *)
Confirmed(x) ==
  /\ OnCalendar(x) /\ rtc_values = Adjusted(format, AsRead(format, x))
  /\ x = date \/ (crossed /\ ~flag /\ Succ(x, date))
  /\ phase = "done" => minutes = Minutes(rtc_values)

EndInv == phase \in {"confirmed", "done"} => \E x : Confirmed(x)

UtcInv == ClockInv /\ RegistersInv /\ PhaseInv /\ ReadInv /\ WaitInv /\ EndInv

LEMMA FormatIs == ASSUME ClockInv PROVE RightFormat(format)
BY FormatsAssumption DEF ClockInv, RightFormat

LEMMA TickNow ==
  ASSUME ClockInv, ticked < MaxSeconds
  PROVE  Succ(date, NextSecond(date)) /\ CanTick(NextSecond(date), ticked + 1)
<1>1. ticked \in Nat /\ ticked < 59
  BY TickingAssumption, RightAssumption DEF ClockInv
<1> QED
  BY <1>1, TickIs DEF ClockInv

LEMMA FirstLater ==
  ASSUME NEW f, NEW v, NEW a, NEW b, NEW c, NEW d, NEW n,
         First(f, v, a, b, c, n), Succ(c, d), n = 0 => b = a \/ b = NextSecond(a)
  PROVE  First(f, v, a, b, d, n + 1)
<1>1. n \in Nat /\ c.second = (a.second + n) % 60 /\ Pair(a, b)
  BY DEF First
<1>2. d.second = (c.second + 1) % 60 /\ d = NextSecond(c)
  BY DEF Succ, Follows
<1>3. a.second \in 0..59
  BY <1>1, PairIs
<1>4. d.second = (a.second + (n + 1)) % 60
  <2> DEFINE s == a.second
             t == c.second
  <2>1. s \in 0..59 /\ t = (s + n) % 60
    BY <1>1, <1>3
  <2> HIDE DEF s, t
  <2>2. (t + 1) % 60 = (s + (n + 1)) % 60
    BY <1>1, <2>1
  <2> QED
    BY <1>2, <2>2 DEF s, t
<1>5. n + 1 \in Nat /\ n + 1 # 0 /\ (n + 1 = 1 => n = 0)
  BY <1>1
<1>6. n = 0 => b = a \/ b = d
  BY <1>2 DEF First
<1> QED
  BY <1>1, <1>4, <1>5, <1>6 DEF First

-----------------------------------------------------------------------------
(* The steps of the clock. *)
LEMMA FlagUpKeeps == ASSUME UtcInv, FlagUp PROVE UtcInv'
<1>1. /\ ~flag /\ ticked < MaxSeconds /\ ~crossed /\ phase # "done" /\ flag' = TRUE
      /\ crossed' = (phase # "wait")
      /\ format' = format /\ date' = date /\ ticked' = ticked /\ registers' = registers
      /\ phase' = phase /\ left' = left /\ reading' = reading /\ rtc_values' = rtc_values /\ minutes' = minutes
  BY DEF FlagUp, driver
<1>2. ClockInv'
  BY <1>1 DEF UtcInv, ClockInv
<1>3. RegistersInv'
  BY <1>1 DEF UtcInv, RegistersInv
<1>4. PhaseInv'
  BY <1>1 DEF UtcInv, PhaseInv
<1>5. ReadInv'
  <2> SUFFICES ASSUME phase \in {"read", "compare"} PROVE ReadInv'
    BY <1>1 DEF ReadInv
  <2>1. crossed' /\ Passed = 0 /\ Passed' = 0
    BY <1>1 DEF Passed
  <2>2. PICK c, d : UnderWay(c, d)
    BY DEF UtcInv, ReadInv
  <2>3. c = date /\ d = date
    BY <1>1, <2>2 DEF UnderWay, Spans
  <2>4. Succ(date, NextSecond(date))
    BY <1>1, TickNow DEF UtcInv
  <2>5. Spans(date, NextSecond(date))'
    BY <1>1, <2>1, <2>4 DEF Spans, Pair, Succ
  <2>6. Shown(format, reading, left, date, NextSecond(date))
    BY <2>2, <2>3 DEF UnderWay, Shown
  <2>7. rtc_values # <<>> => FirstBefore(date)'
    BY <1>1, <2>1, <2>2, <2>3 DEF UnderWay, FirstBefore
  <2>8. UnderWay(date, NextSecond(date))'
    BY <1>1, <2>5, <2>6, <2>7 DEF UnderWay
  <2> QED
    BY <1>1, <2>1, <2>8 DEF UtcInv, ReadInv
<1>6. WaitInv'
  BY <1>1 DEF UtcInv, WaitInv, FirstWaits
<1>7. EndInv'
  BY <1>1 DEF UtcInv, EndInv, Confirmed
<1> QED
  BY <1>2, <1>3, <1>4, <1>5, <1>6, <1>7 DEF UtcInv

LEMMA UpdateKeeps == ASSUME UtcInv, UpdateRegister PROVE UtcInv'
<1>1. /\ flag /\ format' = format /\ date' = date /\ ticked' = ticked /\ flag' = flag /\ crossed' = crossed
      /\ phase' = phase /\ left' = left /\ reading' = reading /\ rtc_values' = rtc_values /\ minutes' = minutes
  BY DEF UpdateRegister, driver
<1>2. RegistersInv'
  <2>1. PICK r \in DOMAIN registers :
          registers' = [registers EXCEPT ![r] = Registers(format, NextSecond(date))[r]]
    BY DEF UpdateRegister
  <2> QED
    BY <1>1, <2>1 DEF UtcInv, RegistersInv
<1>3. ClockInv' /\ PhaseInv' /\ ReadInv' /\ WaitInv' /\ EndInv'
  BY <1>1 DEF UtcInv, ClockInv, PhaseInv, ReadInv, UnderWay, Spans, FirstBefore, Passed, WaitInv, FirstWaits,
              EndInv, Confirmed
<1> QED
  BY <1>2, <1>3 DEF UtcInv

LEMMA FlagDownKeeps == ASSUME UtcInv, FlagDown PROVE UtcInv'
<1>1. /\ flag /\ registers = Registers(format, NextSecond(date)) /\ date' = NextSecond(date)
      /\ ticked' = ticked + 1 /\ flag' = FALSE /\ crossed' = crossed
      /\ format' = format /\ registers' = registers
      /\ phase' = phase /\ left' = left /\ reading' = reading /\ rtc_values' = rtc_values /\ minutes' = minutes
  BY DEF FlagDown, driver
<1>2. Succ(date, date') /\ CanTick(date', ticked')
  <2>1. ticked < MaxSeconds
    BY <1>1 DEF UtcInv, ClockInv
  <2> QED
    BY <1>1, <2>1, TickNow DEF UtcInv
<1>3. ClockInv'
  <2>1. OnCalendar(date')
    BY <1>2 DEF Succ
  <2>2. ticked' \in Nat /\ ticked' <= MaxSeconds
    BY <1>1, TickingAssumption DEF UtcInv, ClockInv
  <2>3. format \in Formats /\ crossed \in BOOLEAN
    BY DEF UtcInv, ClockInv
  <2> QED
    BY <1>1, <1>2, <2>1, <2>2, <2>3 DEF ClockInv
<1>4. RegistersInv'
  BY <1>1 DEF UtcInv, RegistersInv
<1>5. PhaseInv'
  BY <1>1 DEF UtcInv, PhaseInv
<1>6. ReadInv'
  <2> SUFFICES ASSUME phase \in {"read", "compare"} PROVE ReadInv'
    BY <1>1 DEF ReadInv
  <2>1. crossed
    BY <1>1 DEF UtcInv, PhaseInv
  <2>2. Passed = 0 /\ Passed' = 1 /\ ticked \in Nat
    BY <1>1, <2>1 DEF UtcInv, ClockInv, Passed
  <2>3. PICK c, d : UnderWay(c, d)
    BY DEF UtcInv, ReadInv
  <2>4. c = date /\ d = date'
    BY <1>1, <2>1, <2>3 DEF UnderWay, Spans
  <2>5. Spans(c, d)'
    BY <1>1, <1>2, <2>1, <2>4 DEF Spans, Pair, Succ
  <2>6. rtc_values # <<>> => FirstBefore(c)'
    <3> SUFFICES ASSUME rtc_values # <<>> PROVE FirstBefore(c)'
      OBVIOUS
    <3>1. PICK a, b, n : First(format, rtc_values, a, b, c, n) /\ (n = 0 => b = a) /\ n + Passed <= ticked
      BY <2>3 DEF UnderWay, FirstBefore
    <3>2. n \in Nat
      BY <3>1 DEF First
    <3>3. n + Passed' <= ticked'
      BY <1>1, <2>2, <3>1, <3>2
    <3> QED
      BY <1>1, <3>1, <3>3 DEF FirstBefore
  <2>7. UnderWay(c, d)'
    BY <1>1, <2>3, <2>5, <2>6 DEF UnderWay
  <2>8. Passed' <= ticked'
    BY <1>1, <2>2
  <2> QED
    BY <1>1, <2>7, <2>8 DEF UtcInv, ReadInv
<1>7. WaitInv'
  <2> SUFFICES ASSUME phase = "wait", rtc_values # <<>> PROVE FirstWaits'
    BY <1>1 DEF WaitInv
  <2>1. PICK a, b, n : /\ First(format, rtc_values, a, b, date, n) /\ n <= ticked
                       /\ n = 0 => b = a \/ (flag /\ b = NextSecond(a))
    BY DEF UtcInv, WaitInv, FirstWaits
  <2>2. n \in Nat /\ ticked \in Nat
    BY <2>1 DEF UtcInv, ClockInv, First
  <2>3. First(format, rtc_values, a, b, date', n + 1)
    BY <1>2, <2>1, FirstLater
  <2>4. n + 1 <= ticked' /\ n + 1 # 0
    BY <1>1, <2>1, <2>2
  <2> QED
    BY <1>1, <2>3, <2>4 DEF FirstWaits
<1>8. EndInv'
  <2> SUFFICES ASSUME phase \in {"confirmed", "done"} PROVE EndInv'
    BY <1>1 DEF EndInv
  <2>1. crossed
    BY <1>1 DEF UtcInv, PhaseInv
  <2>2. PICK x : Confirmed(x)
    BY DEF UtcInv, EndInv
  <2>3. x = date
    BY <1>1, <2>2 DEF Confirmed
  <2>4. Succ(x, date')
    BY <1>2, <2>3
  <2>5. Confirmed(x)'
    BY <1>1, <2>1, <2>2, <2>4 DEF Confirmed
  <2> QED
    BY <2>5 DEF EndInv
<1> QED
  BY <1>3, <1>4, <1>5, <1>6, <1>7, <1>8 DEF UtcInv

-----------------------------------------------------------------------------
(* The steps of the driver. *)
LEMMA UnreadTail ==
  ASSUME NEW S, NEW l \in Seq(S), l # <<>>
  PROVE  Head(l) \in S /\ Tail(l) \in Seq(S) /\ Unread(l) \subseteq Unread(Tail(l)) \cup {Head(l)}
<1>1. Head(l) \in S /\ Tail(l) \in Seq(S)
  OBVIOUS
<1>2. ASSUME NEW i \in DOMAIN l PROVE l[i] \in Unread(Tail(l)) \cup {Head(l)}
  <2>1. CASE i = 1
    BY <2>1
  <2>2. CASE i # 1
    <3>1. i - 1 \in DOMAIN Tail(l) /\ Tail(l)[i - 1] = l[i]
      BY <2>2
    <3> QED
      BY <3>1 DEF Unread
  <2> QED
    BY <2>1, <2>2
<1> QED
  BY <1>1, <1>2 DEF Unread

LEMMA Joined ==
  ASSUME NEW S, NEW s \in Seq(S), NEW t \in Seq(S)
  PROVE  /\ s \o t \in Seq(S) /\ DOMAIN (s \o t) = 1..(Len(s) + Len(t))
         /\ \A i \in 1..(Len(s) + Len(t)) : (s \o t)[i] = IF i <= Len(s) THEN s[i] ELSE t[i - Len(s)]
OBVIOUS

LEMMA OrderIs ==
  ASSUME NEW f, NEW r \in Names, r = "century" => f.century
  PROVE  Order(f) \in Seq(Registered(f)) /\ r \in Unread(Order(f))
<1> DEFINE six == <<"seconds", "minutes", "hours", "days", "months", "years">>
           last == <<"century">>
<1>1. CASE f.century
  <2>1. Order(f) = six \o last
    BY <1>1 DEF Order
  <2>2. six \in Seq(Names) /\ last \in Seq(Names) /\ Len(six) = 6 /\ Len(last) = 1
    BY DEF Names
  <2>3. (\E i \in 1..6 : six[i] = r) \/ last[1] = r
    BY DEF Names
  <2> HIDE DEF six, last
  <2>4. /\ six \o last \in Seq(Names) /\ DOMAIN (six \o last) = 1..(Len(six) + Len(last))
        /\ \A i \in 1..(Len(six) + Len(last)) :
             (six \o last)[i] = IF i <= Len(six) THEN six[i] ELSE last[i - Len(six)]
    BY <2>2, Joined, Zenon
  <2>5. /\ Order(f) \in Seq(Names) /\ DOMAIN Order(f) = 1..7
        /\ \A i \in 1..7 : Order(f)[i] = IF i <= 6 THEN six[i] ELSE last[i - 6]
    BY <2>1, <2>2, <2>4
  <2>6. \E i \in 1..7 : Order(f)[i] = r
    BY <2>3, <2>5
  <2> QED
    BY <1>1, <2>5, <2>6 DEF Unread, Registered
<1>2. CASE ~f.century
  <2>1. Order(f) = <<"seconds", "minutes", "hours", "days", "months", "years">>
    BY <1>2 DEF Order
  <2>2. Order(f) \in Seq(Registered(f)) /\ DOMAIN Order(f) = 1..6
    BY <1>2, <2>1 DEF Names, Registered
  <2>3. \E i \in 1..6 : Order(f)[i] = r
    BY <1>2, <2>1 DEF Names
  <2> QED
    BY <2>2, <2>3 DEF Unread
<1> QED
  BY <1>1, <1>2

LEMMA WaitKeeps == ASSUME UtcInv, Wait PROVE UtcInv'
<1>1. /\ phase = "wait" /\ ~flag /\ phase' = "read" /\ left' = Order(format) /\ reading' = Blank
      /\ format' = format /\ date' = date /\ ticked' = ticked /\ flag' = flag /\ registers' = registers
      /\ rtc_values' = rtc_values /\ minutes' = minutes /\ crossed' = crossed
  BY DEF Wait, clock
<1>2. ~crossed /\ Passed = 0 /\ Passed' = 0 /\ ticked \in Nat
  BY <1>1 DEF UtcInv, PhaseInv, ClockInv, Passed
<1>3. ClockInv' /\ RegistersInv' /\ PhaseInv' /\ WaitInv' /\ EndInv'
  BY <1>1 DEF UtcInv, ClockInv, RegistersInv, PhaseInv, WaitInv, EndInv
<1>4. left' \in Seq(Registered(format))
  <2>1. "seconds" \in Names /\ "seconds" # "century"
    BY DEF Names
  <2> QED
    BY <1>1, <2>1, OrderIs
<1>5. DOMAIN Blank = Names /\ Blank = [r \in Names |-> Blank[r]] /\ Blank.century = 0
  BY DEF Blank, Names
<1>6. UnderWay(date, date)'
  <2>1. Spans(date, date)'
    BY <1>1, <1>2 DEF UtcInv, ClockInv, Spans, Pair
  <2>2. Shown(format, reading, left, date, date)'
    BY <1>1, OrderIs DEF Shown
  <2>3. rtc_values # <<>> => FirstBefore(date)'
    <3> SUFFICES ASSUME rtc_values # <<>> PROVE FirstBefore(date)'
      OBVIOUS
    <3>1. PICK a, b, n : /\ First(format, rtc_values, a, b, date, n) /\ n <= ticked
                         /\ n = 0 => b = a \/ (flag /\ b = NextSecond(a))
      BY <1>1 DEF UtcInv, WaitInv, FirstWaits
    <3>2. n \in Nat /\ n + 0 <= ticked
      BY <1>2, <3>1 DEF First
    <3> QED
      BY <1>1, <1>2, <3>1, <3>2 DEF FirstBefore
  <2> QED
    BY <1>1, <2>1, <2>2, <2>3 DEF UnderWay
<1>7. ReadInv'
  BY <1>1, <1>2, <1>4, <1>5, <1>6 DEF ReadInv
<1> QED
  BY <1>3, <1>7 DEF UtcInv

LEMMA ReadKeeps == ASSUME UtcInv, ReadRegister PROVE UtcInv'
<1> DEFINE r0 == Head(left)
<1>1. /\ phase = "read" /\ left # <<>>
      /\ reading' = [reading EXCEPT ![r0] = registers[r0]] /\ left' = Tail(left)
      /\ phase' = IF left' = <<>> THEN "compare" ELSE "read"
      /\ format' = format /\ date' = date /\ ticked' = ticked /\ flag' = flag /\ registers' = registers
      /\ rtc_values' = rtc_values /\ minutes' = minutes /\ crossed' = crossed
  BY DEF ReadRegister, clock
<1>2. ClockInv' /\ RegistersInv' /\ PhaseInv' /\ WaitInv' /\ EndInv'
  BY <1>1 DEF UtcInv, ClockInv, RegistersInv, PhaseInv, WaitInv, EndInv
<1>3. /\ left \in Seq(Registered(format)) /\ DOMAIN reading = Names /\ reading = [r \in Names |-> reading[r]]
      /\ Passed <= ticked /\ (~format.century => reading.century = 0)
  BY <1>1 DEF UtcInv, ReadInv
<1>4. /\ r0 \in Names /\ (~format.century => r0 # "century")
      /\ left' \in Seq(Registered(format)) /\ Unread(left) \subseteq Unread(left') \cup {r0}
  <2>1. r0 \in Registered(format)
    BY <1>1, <1>3, UnreadTail
  <2>2. left' \in Seq(Registered(format)) /\ Unread(left) \subseteq Unread(left') \cup {r0}
    BY <1>1, <1>3, UnreadTail
  <2> QED
    BY <2>1, <2>2 DEF Registered
<1>5. PICK c, d : UnderWay(c, d)
  BY <1>1 DEF UtcInv, ReadInv
<1> HIDE DEF r0
<1>6. registers[r0] = Registers(format, c)[r0] \/ registers[r0] = Registers(format, d)[r0]
  <2>1. \/ registers[r0] = Registers(format, date)[r0]
        \/ flag /\ registers[r0] = Registers(format, NextSecond(date))[r0]
    BY <1>4 DEF UtcInv, RegistersInv
  <2>2. Spans(c, d) /\ (~crossed => ~flag)
    BY <1>1, <1>5 DEF UtcInv, PhaseInv, UnderWay
  <2> QED
    BY <2>1, <2>2 DEF Spans
<1>7. Shown(format, reading', left', c, d)
  <2>1. Shown(format, reading, left, c, d)
    BY <1>5 DEF UnderWay
  <2>2. ASSUME NEW r \in Names PROVE reading'[r] = IF r = r0 THEN registers[r0] ELSE reading[r]
    BY <1>1, <1>3
  <2> QED
    BY <1>4, <1>6, <2>1, <2>2 DEF Shown
<1>8. UnderWay(c, d)'
  <2>1. Spans(c, d)' /\ (FirstBefore(c) => FirstBefore(c)')
    BY <1>1, <1>5 DEF UnderWay, Spans, FirstBefore, Passed
  <2> QED
    BY <1>1, <1>5, <1>7, <2>1 DEF UnderWay
<1>9. DOMAIN reading' = Names /\ reading' = [r \in Names |-> reading'[r]]
  BY <1>1, <1>3
<1>10. Passed' = Passed /\ (~format.century => reading'.century = 0)
  <2>1. "century" \in Names
    BY DEF Names
  <2> QED
    BY <1>1, <1>3, <1>4, <2>1 DEF Passed
<1>11. ReadInv'
  BY <1>1, <1>3, <1>4, <1>8, <1>9, <1>10 DEF ReadInv
<1> QED
  BY <1>2, <1>11 DEF UtcInv

LEMMA KeepFirstKeeps == ASSUME UtcInv, KeepFirst PROVE UtcInv'
<1>1. /\ phase = "compare" /\ rtc_values' = reading /\ phase' = "wait" /\ crossed' = FALSE
      /\ format' = format /\ date' = date /\ ticked' = ticked /\ flag' = flag /\ registers' = registers
      /\ left' = left /\ reading' = reading /\ minutes' = minutes
  BY DEF KeepFirst, clock
<1>2. ClockInv' /\ RegistersInv' /\ PhaseInv' /\ ReadInv' /\ EndInv'
  BY <1>1 DEF UtcInv, ClockInv, RegistersInv, PhaseInv, ReadInv, EndInv
<1>3. PICK c, d : UnderWay(c, d)
  BY <1>1 DEF UtcInv, ReadInv
<1>4. left = <<>> /\ reading = [r \in Names |-> reading[r]] /\ Passed <= ticked
  BY <1>1 DEF UtcInv, ReadInv
<1>5. Pair(c, d) /\ Shown(format, reading, <<>>, c, d) /\ Spans(c, d)
  BY <1>3, <1>4 DEF UnderWay, Spans
<1>6. c.second \in 0..59
  BY <1>5, PairIs
<1>7. First(format, reading, c, d, date, Passed) /\ (Passed = 0 => d = c \/ (flag /\ d = NextSecond(c)))
  <2>1. CASE crossed /\ ~flag
    <3>1. Passed = 1 /\ d = date /\ Follows(d, c)
      BY <1>5, <2>1 DEF Passed, Spans, Succ
    <3>2. date.second = (c.second + 1) % 60
      BY <3>1 DEF Follows
    <3> QED
      BY <1>4, <1>5, <3>1, <3>2 DEF First
  <2>2. CASE ~(crossed /\ ~flag)
    <3>1. Passed = 0 /\ c = date /\ (d = c \/ (flag /\ d = NextSecond(c)))
      BY <1>5, <2>2 DEF Passed, Spans
    <3>2. (c.second + 0) % 60 = c.second
      <4> DEFINE s == c.second
      <4>1. s \in 0..59
        BY <1>6
      <4> HIDE DEF s
      <4>2. (s + 0) % 60 = s
        BY <4>1
      <4> QED
        BY <4>2 DEF s
    <3> QED
      BY <1>4, <1>5, <3>1, <3>2 DEF First
  <2> QED
    BY <2>1, <2>2
<1>8. WaitInv'
  <2>1. PICK n : n = Passed
    OBVIOUS
  <2>2. First(format, reading, c, d, date, n) /\ n <= ticked /\ (n = 0 => d = c \/ (flag /\ d = NextSecond(c)))
    BY <1>4, <1>7, <2>1
  <2>3. FirstWaits'
    BY <1>1, <2>2 DEF FirstWaits
  <2> QED
    BY <2>3 DEF WaitInv
<1> QED
  BY <1>2, <1>8 DEF UtcInv

LEMMA AgainKeeps == ASSUME UtcInv, ReadAgain PROVE UtcInv'
<1>1. /\ phase = "compare" /\ rtc_values # <<>> /\ phase' = "wait" /\ crossed' = FALSE
      /\ format' = format /\ date' = date /\ ticked' = ticked /\ flag' = flag /\ registers' = registers
      /\ left' = left /\ reading' = reading /\ rtc_values' = rtc_values /\ minutes' = minutes
  BY DEF ReadAgain, clock
<1>2. ClockInv' /\ RegistersInv' /\ PhaseInv' /\ ReadInv' /\ EndInv'
  BY <1>1 DEF UtcInv, ClockInv, RegistersInv, PhaseInv, ReadInv, EndInv
<1>3. PICK c, d : UnderWay(c, d)
  BY <1>1 DEF UtcInv, ReadInv
<1>4. PICK a, b, n : First(format, rtc_values, a, b, c, n) /\ (n = 0 => b = a) /\ n + Passed <= ticked
  BY <1>1, <1>3 DEF UnderWay, FirstBefore
<1>5. n \in Nat
  BY <1>4 DEF First
<1>6. CASE crossed /\ ~flag
  <2>1. Passed = 1 /\ d = date /\ Succ(c, d)
    BY <1>3, <1>6 DEF Passed, UnderWay, Spans
  <2>2. First(format, rtc_values, a, b, date, n + 1)
    BY <1>4, <2>1, FirstLater
  <2>3. n + 1 # 0 /\ n + 1 <= ticked
    BY <1>4, <1>5, <2>1
  <2> QED
    BY <1>1, <1>2, <2>2, <2>3 DEF UtcInv, WaitInv, FirstWaits
<1>7. CASE ~(crossed /\ ~flag)
  <2>1. Passed = 0 /\ c = date
    BY <1>3, <1>7 DEF Passed, UnderWay, Spans
  <2>2. n <= ticked
    BY <1>4, <1>5, <2>1
  <2> QED
    BY <1>1, <1>2, <1>4, <2>1, <2>2 DEF UtcInv, WaitInv, FirstWaits
<1> QED
  BY <1>6, <1>7

LEMMA AsReadIs ==
  ASSUME NEW f, NEW d
  PROVE  /\ DOMAIN AsRead(f, d) = Names
         /\ AsRead(f, d) = [r \in Names |-> AsRead(f, d)[r]]
         /\ \A r \in Names : AsRead(f, d)[r] = IF r = "century" /\ ~f.century THEN 0 ELSE Registers(f, d)[r]
<1>1. CASE f.century
  BY <1>1 DEF AsRead, Registers, Names
<1>2. CASE ~f.century
  BY <1>2 DEF AsRead, Registers, Names
<1> QED
  BY <1>1, <1>2

LEMMA ConfirmKeeps == ASSUME UtcInv, ConfirmDate PROVE UtcInv'
<1>1. /\ phase = "compare" /\ rtc_values # <<>> /\ reading = rtc_values
      /\ rtc_values' = Adjusted(format, reading) /\ phase' = "confirmed"
      /\ format' = format /\ date' = date /\ ticked' = ticked /\ flag' = flag /\ registers' = registers
      /\ left' = left /\ reading' = reading /\ minutes' = minutes /\ crossed' = crossed
  BY DEF ConfirmDate, clock, Agree
<1>2. ClockInv' /\ RegistersInv' /\ PhaseInv' /\ ReadInv' /\ WaitInv'
  BY <1>1 DEF UtcInv, ClockInv, RegistersInv, PhaseInv, ReadInv, WaitInv
<1>3. PICK c, d : UnderWay(c, d)
  BY <1>1 DEF UtcInv, ReadInv
<1>4. PICK a, b, n : First(format, rtc_values, a, b, c, n) /\ (n = 0 => b = a) /\ n + Passed <= ticked
  BY <1>1, <1>3 DEF UnderWay, FirstBefore
<1>5. /\ left = <<>> /\ DOMAIN reading = Names /\ reading = [r \in Names |-> reading[r]] /\ RightFormat(format)
      /\ (~format.century => reading.century = 0)
  BY <1>1, FormatIs DEF UtcInv, ReadInv
<1>6. /\ Pair(c, d) /\ Shown(format, reading, <<>>, c, d) /\ Spans(c, d)
      /\ Pair(a, b) /\ Shown(format, reading, <<>>, a, b)
      /\ n \in Nat /\ c.second = (a.second + n) % 60 /\ (n = 0 => c = a) /\ (n = 1 => b = a \/ b = c)
  BY <1>1, <1>3, <1>4, <1>5 DEF UnderWay, Spans, First
<1>7. n \in 0..59 /\ (d # c => n < 59)
  <2>1. MaxSeconds \in Nat /\ MaxSeconds < 60 /\ ticked \in Nat /\ ticked <= MaxSeconds
        /\ (flag => ticked < MaxSeconds)
    BY TickingAssumption, RightAssumption DEF UtcInv, ClockInv
  <2>2. d # c => crossed
    BY <1>6 DEF Spans
  <2>3. Passed \in {0, 1} /\ (crossed /\ ~flag => Passed = 1)
    BY DEF Passed
  <2> QED
    BY <1>4, <1>6, <2>1, <2>2, <2>3
<1>8. Shown(format, reading, <<>>, c, c)
  BY <1>4, <1>5, <1>6, <1>7, Agreed
<1>9. reading = AsRead(format, c)
  <2>1. Unread(<<>>) = {}
    BY DEF Unread
  <2>2. ASSUME NEW r \in Names PROVE reading[r] = AsRead(format, c)[r]
    <3>1. CASE r = "century" /\ ~format.century
      BY <1>5, <3>1, AsReadIs
    <3>2. CASE ~(r = "century" /\ ~format.century)
      BY <1>8, <2>1, <3>2, AsReadIs DEF Shown
    <3> QED
      BY <3>1, <3>2
  <2> QED
    BY <1>5, <2>2, AsReadIs
<1>10. OnCalendar(c)
  BY <1>6 DEF Pair
<1>12. c = date \/ (crossed /\ ~flag /\ Succ(c, date))
  BY <1>6 DEF Spans
<1>13. Confirmed(c)'
  BY <1>1, <1>9, <1>10, <1>12 DEF Confirmed
<1> QED
  BY <1>2, <1>13 DEF UtcInv, EndInv

LEMMA ConvertKeeps == ASSUME UtcInv, Convert PROVE UtcInv'
<1>1. /\ phase = "confirmed" /\ phase' = "done" /\ minutes' = Minutes(rtc_values)
      /\ format' = format /\ date' = date /\ ticked' = ticked /\ flag' = flag /\ registers' = registers
      /\ left' = left /\ reading' = reading /\ rtc_values' = rtc_values /\ crossed' = crossed
  BY DEF Convert, clock
<1>2. ClockInv' /\ RegistersInv' /\ PhaseInv' /\ ReadInv' /\ WaitInv'
  BY <1>1 DEF UtcInv, ClockInv, RegistersInv, PhaseInv, ReadInv, WaitInv
<1>3. PICK x : Confirmed(x)
  BY <1>1 DEF UtcInv, EndInv
<1>5. Confirmed(x)'
  BY <1>1, <1>3 DEF Confirmed
<1> QED
  BY <1>1, <1>2, <1>5 DEF UtcInv, EndInv

-----------------------------------------------------------------------------
LEMMA DateIs ==
  ASSUME NEW d \in Dates, Valid(d)
  PROVE  OnCalendar(d) /\ d.year \in EarlyYears
<1>1. /\ d \in [year : EarlyYears, month : 1..12, day : 1..31, hour : 0..23, minute : 0..59, second : 0..59]
  BY DatesAssumption DEF EarlyYears
<1> QED
  BY <1>1, YearsAre DEF OnCalendar, Moment

LEMMA UtcInit == ASSUME LogInit PROVE UtcInv
<1>1. /\ format \in Formats /\ date \in Dates /\ Valid(date)
      /\ ticked = IF date \in TickingDates THEN 0 ELSE MaxSeconds
      /\ flag = FALSE /\ registers = Registers(format, date) /\ phase = "wait" /\ rtc_values = <<>>
      /\ crossed = FALSE
  BY DEF LogInit, RtcInit
<1>2. OnCalendar(date) /\ date.year \in EarlyYears
  BY <1>1, DateIs
<1>3. CanTick(date, 0)
  BY <1>2 DEF CanTick
<1>4. ClockInv
  <2>1. ticked \in Nat /\ ticked <= MaxSeconds
    BY <1>1, TickingAssumption
  <2>2. ticked < MaxSeconds => CanTick(date, ticked)
    <3>1. CASE date \in TickingDates
      <4>1. ticked = 0
        BY <1>1, <3>1
      <4> QED
        BY <1>3, <3>1, <4>1
    <3>2. CASE date \notin TickingDates
      BY <1>1, <3>2, TickingAssumption
    <3> QED
      BY <3>1, <3>2
  <2> QED
    BY <1>1, <1>2, <2>1, <2>2 DEF ClockInv
<1>5. RegistersInv
  BY <1>1 DEF RegistersInv, Registers, Names
<1>6. PhaseInv /\ ReadInv /\ WaitInv /\ EndInv
  BY <1>1 DEF PhaseInv, ReadInv, WaitInv, EndInv
<1> QED
  BY <1>4, <1>5, <1>6 DEF UtcInv

LEMMA UtcStutter == ASSUME UtcInv, UNCHANGED rtc_vars PROVE UtcInv'
<1>1. /\ format' = format /\ date' = date /\ ticked' = ticked /\ flag' = flag /\ registers' = registers
      /\ phase' = phase /\ left' = left /\ reading' = reading /\ rtc_values' = rtc_values
      /\ minutes' = minutes /\ crossed' = crossed
  BY DEF rtc_vars, clock, driver
<1> QED
  BY <1>1 DEF UtcInv, ClockInv, RegistersInv, PhaseInv, ReadInv, UnderWay, Spans, FirstBefore, Passed,
              WaitInv, FirstWaits, EndInv, Confirmed

LEMMA UtcStep == ASSUME UtcInv, [LogNext]_log_vars PROVE UtcInv'
<1>1. CASE FlagUp
  BY <1>1, FlagUpKeeps
<1>2. CASE UpdateRegister
  BY <1>2, UpdateKeeps
<1>3. CASE FlagDown
  BY <1>3, FlagDownKeeps
<1>4. CASE Silent
  BY <1>4, WaitKeeps, ReadKeeps, AgainKeeps, ConfirmKeeps DEF Silent
<1>5. CASE PrintFormat
  BY <1>5, KeepFirstKeeps DEF PrintFormat
<1>6. CASE PrintDate
  BY <1>6, ConvertKeeps DEF PrintDate
<1>7. CASE UNCHANGED rtc_vars
  BY <1>7, UtcStutter
<1> QED
  BY <1>1, <1>2, <1>3, <1>4, <1>5, <1>6, <1>7 DEF LogNext, Clock, WriteText, Pcontext, log_vars

(* A second later and a second back.                                       *)
LEMMA BackAgain ==
  ASSUME NEW d, OnCalendar(d)
  PROVE  PreviousSecond(NextSecond(d)) = d
<1> DEFINE y == d.year
           m == d.month
           k == d.day
           h == d.hour
           i == d.minute
           s == d.second
           n == NextSecond(d)
           whole(yy, mm, kk, hh, ii, ss) ==
             [year |-> yy, month |-> mm, day |-> kk, hour |-> hh, minute |-> ii, second |-> ss]
<1>1. /\ y \in Years /\ m \in 1..12 /\ k \in 1..31 /\ k <= DaysIn(y, m)
      /\ h \in 0..23 /\ i \in 0..59 /\ s \in 0..59
      /\ d = whole(y, m, k, h, i, s)
  BY Parts, Zenon
<1>2. y \in Nat
  BY <1>1, YearsAre
<1> HIDE DEF y, m, k, h, i, s, n
<1>3. CASE s < 59
  <2>1. n = whole(y, m, k, h, i, s + 1)
    BY <1>1, <1>3 DEF NextSecond, n
  <2> QED
    BY <1>1, <1>3, <2>1 DEF PreviousSecond, n
<1>4. CASE s = 59 /\ i < 59
  <2>1. n = whole(y, m, k, h, i + 1, 0)
    <3>1. n = [d EXCEPT !.second = 0, !.minute = @ + 1]
      BY <1>4 DEF NextSecond, n, s, i, h
    <3> QED
      BY <1>1, <3>1
  <2>2. n.second = 0 /\ n.minute = i + 1
    BY <2>1
  <2>3. PreviousSecond(n) = whole(y, m, k, h, i, s)
    <3>1. PreviousSecond(n) = [n EXCEPT !.second = 59, !.minute = @ - 1]
      BY <1>1, <1>2, <1>4, <2>2 DEF PreviousSecond
    <3>2. PreviousSecond(n) = whole(y, m, k, h, (i + 1) - 1, 59)
      BY <2>1, <3>1
    <3>3. (i + 1) - 1 = i
      BY <1>1
    <3> QED
      BY <1>4, <3>2, <3>3
  <2> QED
    BY <1>1, <2>3 DEF n
<1>5. CASE s = 59 /\ i = 59 /\ h < 23
  <2>1. n = whole(y, m, k, h + 1, 0, 0)
    <3>1. n = [d EXCEPT !.second = 0, !.minute = 0, !.hour = @ + 1]
      BY <1>5 DEF NextSecond, n, s, i, h
    <3> QED
      BY <1>1, <3>1
  <2>2. n.second = 0 /\ n.minute = 0 /\ n.hour = h + 1
    BY <2>1
  <2>3. PreviousSecond(n) = whole(y, m, k, h, i, s)
    <3>1. PreviousSecond(n) = [n EXCEPT !.second = 59, !.minute = 59, !.hour = @ - 1]
      BY <1>1, <1>2, <1>5, <2>2 DEF PreviousSecond
    <3>2. PreviousSecond(n) = whole(y, m, k, (h + 1) - 1, 59, 59)
      BY <2>1, <3>1
    <3>3. (h + 1) - 1 = h
      BY <1>1
    <3> QED
      BY <1>5, <3>2, <3>3
  <2> QED
    BY <1>1, <2>3 DEF n
<1>6. CASE s = 59 /\ i = 59 /\ h = 23
  <2>1. CASE k < DaysIn(y, m)
    <3>1. n = whole(y, m, k + 1, 0, 0, 0)
      <4> DEFINE midnight == [d EXCEPT !.second = 0, !.minute = 0, !.hour = 0]
      <4>1. midnight = whole(y, m, k, 0, 0, 0)
        <5>1. midnight = [d EXCEPT !.second = 0, !.minute = 0, !.hour = 0]
          OBVIOUS
        <5> HIDE DEF midnight
        <5> QED
          BY <1>1, <5>1
      <4>2. n = [midnight EXCEPT !.day = @ + 1]
        BY <1>6, <2>1 DEF NextSecond, n, s, i, h, y, m, k
      <4> HIDE DEF midnight
      <4> QED
        BY <4>1, <4>2
    <3>2. n.second = 0 /\ n.minute = 0 /\ n.hour = 0 /\ n.day = k + 1
      BY <3>1
    <3>3. PreviousSecond(n) = whole(y, m, k, h, i, s)
      <4> DEFINE evening == [n EXCEPT !.second = 59, !.minute = 59, !.hour = 23]
      <4>1. evening = whole(y, m, k + 1, 23, 59, 59)
        <5>1. evening = [n EXCEPT !.second = 59, !.minute = 59, !.hour = 23]
          OBVIOUS
        <5> HIDE DEF evening
        <5> QED
          BY <3>1, <5>1
      <4>2. PreviousSecond(n) = [evening EXCEPT !.day = @ - 1]
        BY <1>1, <1>2, <1>6, <2>1, <3>2 DEF PreviousSecond
      <4> HIDE DEF evening
      <4> QED
        BY <1>1, <1>2, <1>6, <2>1, <3>2, <4>1, <4>2
    <3> QED
      BY <1>1, <3>3 DEF n
  <2>2. CASE ~(k < DaysIn(y, m)) /\ m < 12
    <3>4. DaysIn(y, m) = k /\ (m + 1) - 1 = m
      BY <1>1, <2>2 DEF DaysIn
    <3>1. n = whole(y, m + 1, 1, 0, 0, 0)
      <4> DEFINE midnight == [d EXCEPT !.second = 0, !.minute = 0, !.hour = 0]
      <4>1. midnight = whole(y, m, k, 0, 0, 0)
        <5>1. midnight = [d EXCEPT !.second = 0, !.minute = 0, !.hour = 0]
          OBVIOUS
        <5> HIDE DEF midnight
        <5> QED
          BY <1>1, <5>1
      <4>2. n = [midnight EXCEPT !.day = 1, !.month = @ + 1]
        BY <1>6, <2>2 DEF NextSecond, n, s, i, h, y, m, k
      <4> HIDE DEF midnight
      <4> QED
        BY <4>1, <4>2
    <3>2. /\ n.second = 0 /\ n.minute = 0 /\ n.hour = 0
          /\ n.day = 1 /\ n.month = m + 1 /\ n.year = y
      BY <3>1
    <3>3. PreviousSecond(n) = whole(y, m, k, h, i, s)
      <4> DEFINE evening == [n EXCEPT !.second = 59, !.minute = 59, !.hour = 23]
      <4>1. evening = whole(y, m + 1, 1, 23, 59, 59)
        <5>1. evening = [n EXCEPT !.second = 59, !.minute = 59, !.hour = 23]
          OBVIOUS
        <5> HIDE DEF evening
        <5> QED
          BY <3>1, <5>1
      <4>2. PreviousSecond(n) = [evening EXCEPT !.day = DaysIn(n.year, n.month - 1), !.month = @ - 1]
        BY <1>1, <1>2, <1>6, <2>2, <3>2, <3>4 DEF PreviousSecond
      <4> HIDE DEF evening
      <4>3. PreviousSecond(n) = whole(y, (m + 1) - 1, DaysIn(y, (m + 1) - 1), 23, 59, 59)
        <5>1. PreviousSecond(n) = [evening EXCEPT !.day = DaysIn(y, (m + 1) - 1), !.month = @ - 1]
          BY <3>2, <4>2
        <5> QED
          BY <4>1, <5>1
      <4> QED
        BY <1>6, <3>4, <4>3
    <3> QED
      BY <1>1, <3>3 DEF n
  <2>3. CASE ~(k < DaysIn(y, m)) /\ ~(m < 12)
    <3>4. k = 31 /\ m = 12
      BY <1>1, <2>3 DEF DaysIn
    <3>1. n = whole(y + 1, 1, 1, 0, 0, 0)
      <4> DEFINE midnight == [d EXCEPT !.second = 0, !.minute = 0, !.hour = 0]
      <4>1. midnight = whole(y, m, k, 0, 0, 0)
        <5>1. midnight = [d EXCEPT !.second = 0, !.minute = 0, !.hour = 0]
          OBVIOUS
        <5> HIDE DEF midnight
        <5> QED
          BY <1>1, <5>1
      <4>2. n = [midnight EXCEPT !.day = 1, !.month = 1, !.year = @ + 1]
        BY <1>6, <2>3 DEF NextSecond, n, s, i, h, y, m, k
      <4> HIDE DEF midnight
      <4> QED
        BY <4>1, <4>2
    <3>2. /\ n.second = 0 /\ n.minute = 0 /\ n.hour = 0
          /\ n.day = 1 /\ n.month = 1 /\ n.year = y + 1
      BY <3>1
    <3>3. PreviousSecond(n) = whole(y, m, k, h, i, s)
      <4> DEFINE evening == [n EXCEPT !.second = 59, !.minute = 59, !.hour = 23]
      <4>1. evening = whole(y + 1, 1, 1, 23, 59, 59)
        <5>1. evening = [n EXCEPT !.second = 59, !.minute = 59, !.hour = 23]
          OBVIOUS
        <5> HIDE DEF evening
        <5> QED
          BY <3>1, <5>1
      <4>2. PreviousSecond(n) = [evening EXCEPT !.day = 31, !.month = 12, !.year = @ - 1]
        BY <1>1, <1>2, <1>6, <2>3, <3>2, <3>4 DEF PreviousSecond
      <4> HIDE DEF evening
      <4>3. PreviousSecond(n) = whole((y + 1) - 1, 12, 31, 23, 59, 59)
        BY <4>1, <4>2
      <4>4. (y + 1) - 1 = y
        BY <1>2
      <4> QED
        BY <1>6, <3>4, <4>3, <4>4
    <3> QED
      BY <1>1, <3>3 DEF n
  <2> QED
    BY <2>1, <2>2, <2>3
<1> QED
  <2>1. (s < 59) \/ (s = 59 /\ i < 59) \/ (s = 59 /\ i = 59 /\ h < 23) \/ (s = 59 /\ i = 59 /\ h = 23)
    BY <1>1
  <2> QED
    BY <2>1, <1>3, <1>4, <1>5, <1>6

LEMMA UtcFollows == ASSUME UtcInv PROVE UtcIsRight
<1> SUFFICES ASSUME phase = "done" PROVE UtcIsRight
  BY DEF UtcIsRight
<1>1. PICK x : Confirmed(x)
  BY DEF UtcInv, EndInv
<1>2. /\ OnCalendar(x) /\ rtc_values = Adjusted(format, AsRead(format, x))
      /\ minutes = Minutes(rtc_values)
  BY <1>1 DEF Confirmed
<1>3. x \in {date, PreviousSecond(date)}
  <2>1. x = date \/ (OnCalendar(x) /\ date = NextSecond(x))
    BY <1>1 DEF Confirmed, Succ
  <2> QED
    BY <2>1, BackAgain
<1>4. ASSUME ConversionIsRight(format, x)
      PROVE  minutes = TrueMinutes(x) /\ rtc_values.seconds = x.second
  <2>1. Convertible(format, x)
    BY <1>2, <1>4 DEF Convertible
  <2>2. Reads(format, AsRead(format, x), x)
    BY AsReadIs DEF Reads
  <2>3. RightFormat(format)
    BY FormatIs DEF UtcInv
  <2>4. Decoded(rtc_values, x)
    BY <1>2, <2>1, <2>2, <2>3, AdjustedIs
  <2> QED
    BY <1>2, <2>1, <2>4, MinutesRight DEF Decoded
<1> QED
  BY <1>2, <1>3, <1>4 DEF UtcIsRight

(* UtcIsRight: on every date up to the year 9999 and in every format, and  *)
(* however the updates of the clock fall between the driver's reads for    *)
(* just under a minute, what init_rtc arrives at is made of one second,    *)
(* the one the clock shows or the one before, and it is the calendar's     *)
(* time wherever the conversion is right.                                  *)
THEOREM UtcIsRightTheorem == LogSpec => []UtcIsRight
<1>1. LogInit => UtcInv
  BY UtcInit
<1>2. UtcInv /\ [LogNext]_log_vars => UtcInv'
  BY UtcStep
<1>3. UtcInv => UtcIsRight
  BY UtcFollows
<1> QED
  BY <1>1, <1>2, <1>3, PTL DEF LogSpec
=============================================================================
