-------------------------------- MODULE Clock --------------------------------
(***************************************************************************)
(* The boot time and the wall clock: timer_irq (kernel/src/common/main.c)  *)
(* adds what the TSC says has passed to boottime (boottime.c); init_rtc    *)
(* (kernel/src/x86_64/rtc.c) notes the boot time at which the real-time    *)
(* clock ticked over; read_global_rtc adds the two.                        *)
(*                                                                         *)
(* Time passes in ticks: Freq TSC ticks are a second, of NanosPerSecond    *)
(* units. The real-time clock changes its second every Freq ticks and has  *)
(* its update flag (UIP) up for the last UipTicks before. Two deadlines    *)
(* stand for the hardware's speed: a timer interrupt comes at least every  *)
(* TimerPeriod ticks, and no step of init_rtc is delayed by more than      *)
(* MaxDelay. The first half of init_rtc, which reads the date, is one step *)
(* here, Confirm; what the date is converted to is module RtcDate.         *)
(***************************************************************************)
EXTENDS Integers

CONSTANTS
  Freq,              \* tsc_ticks_per_second
  NanosPerMicro,     \* 1'000
  MicrosPerSecond,   \* 1'000'000
  SecondsPerMinute,  \* 60
  Word32, Word64,    \* 2^32 and 2^64, or smaller moduli that behave alike
  FirstTsc,          \* what the TSC may be when init_tsc has run
  UipTicks,          \* how long the update flag stays up
  TimerPeriod,       \* ticks between two timer interrupts, at most
  MaxDelay,          \* ticks between two steps of init_rtc, at most
  MaxTicks,          \* bound: the length of a behaviour in ticks
  MaxIrqs,           \* bound: the number of timer interrupts
  SetBackTo,         \* the values the TSC may be set back to
  MaxJumps           \* bound: how often it is

NanosPerSecond == NanosPerMicro * MicrosPerSecond

ASSUME ClockAssumption ==
  /\ {Freq, NanosPerMicro, MicrosPerSecond, SecondsPerMinute, UipTicks,
      TimerPeriod, MaxDelay} \subseteq Nat \ {0}
  /\ {MaxTicks, MaxIrqs, MaxJumps, Word32, Word64} \subseteq Nat
  /\ NanosPerSecond % Freq = 0
  /\ Word32 > 2 * NanosPerSecond
  /\ UipTicks < Freq
  /\ FirstTsc \union SetBackTo \subseteq Nat
(* Neither the flag nor its fall is missed, the second read is the one that *)
(* has begun, and two waits for it are less than a minute.                 *)
ASSUME DelayAssumption ==
  /\ MaxDelay < UipTicks /\ MaxDelay <= Freq - UipTicks
  /\ 3 * MaxDelay < Freq /\ SecondsPerMinute > 2
(* The microseconds of the boot time do not run out of their word.         *)
ASSUME BoottimeAssumption ==
  MaxTicks * (NanosPerSecond \div Freq) < Word64 * NanosPerMicro

VARIABLES
  now,              \* the real-time clock, in ticks since its epoch
  tsc,
  last_timer_tsc,   \* of the context, a duration
  boottime,
  late_irq,         \* ticks since the last timer interrupt
  pc,               \* where init_rtc is
  late_step,        \* ticks since its last step
  values,           \* the second and the minute it has read
  rtc_last_init_time, rtc_last_init_boottime,
  shown,            \* what the prompt last showed of read_global_rtc
  \* counters of the behaviour, read by the properties only
  began, irqs, jumps,
  stepped           \* what the TSC has advanced from interrupt to interrupt

hw == <<now, tsc, began, jumps>>
timer == <<last_timer_tsc, boottime, late_irq, irqs, stepped>>
rtc == <<pc, late_step, values, rtc_last_init_time, rtc_last_init_boottime>>
vars == <<hw, timer, rtc, shown>>

-----------------------------------------------------------------------------
(* Durations: [s, n], with unsigned nanoseconds that wrap. *)
duration_add(d1, d2) ==
  LET n == (d1.n + d2.n) % Word32 IN
  IF n > NanosPerSecond
  THEN [s |-> d1.s + d2.s + 1, n |-> n - NanosPerSecond]
  ELSE [s |-> d1.s + d2.s, n |-> n]

duration_sub(d1, d2) ==
  LET n == (d1.n - d2.n) % Word32 IN
  IF n > NanosPerSecond
  THEN [s |-> d1.s - d2.s - 1, n |-> (n + NanosPerSecond) % Word32]
  ELSE [s |-> d1.s - d2.s, n |-> n]

Nanos(d) == d.s * NanosPerSecond + d.n

read_tsc == [s |-> tsc \div Freq,
             n |-> ((tsc % Freq) * NanosPerSecond) \div Freq]

RtcSeconds == now \div Freq
Uip == now % Freq >= Freq - UipTicks

Init ==
  /\ now \in 0..(Freq * SecondsPerMinute - 1) /\ began = now
  /\ tsc \in FirstTsc
  /\ last_timer_tsc = read_tsc
  /\ boottime = 0 /\ stepped = 0
  /\ late_irq = 0 /\ late_step = 0
  /\ irqs = 0 /\ jumps = 0
  /\ pc = "start"
  /\ values = [second |-> 0, minute |-> 0]
  /\ rtc_last_init_time = 0 /\ rtc_last_init_boottime = 0
  /\ shown = [s |-> 0, n |-> 0]

Syncing == pc \in {"up", "down", "boottime", "second"}

-----------------------------------------------------------------------------
(* Time passes, within the two deadlines. *)
Tick ==
  /\ now - began < MaxTicks
  /\ late_irq < TimerPeriod
  /\ Syncing => late_step < MaxDelay
  /\ now' = now + 1 /\ tsc' = tsc + 1
  /\ late_irq' = late_irq + 1
  /\ late_step' = IF Syncing THEN late_step + 1 ELSE 0
  /\ UNCHANGED <<began, jumps, last_timer_tsc, boottime, irqs, stepped, pc,
                 values, rtc_last_init_time, rtc_last_init_boottime, shown>>

(* The TSC of a virtual machine may be set back ("degenerate case").       *)
SetBack ==
  /\ jumps < MaxJumps
  /\ \E raw \in SetBackTo : raw < tsc /\ tsc' = raw
  /\ jumps' = jumps + 1
  /\ UNCHANGED <<now, began, timer, rtc, shown>>

(* A step back counts as none. *)
Sound(d) == IF d.s < 0 THEN [s |-> 0, n |-> 0] ELSE d

(* Faulty variant: rounded up. *)
MicrosRoundedUp(d) ==
  (d.s * MicrosPerSecond + (d.n + NanosPerMicro - 1) \div NanosPerMicro) % Word64

Micros(d) == (d.s * MicrosPerSecond + d.n \div NanosPerMicro) % Word64

isr_increment_boottime(val) == boottime' = (boottime + val) % Word64

(* timer_irq of the root context, whole: an interrupt gate, so nothing     *)
(* comes between its steps.                                                *)
TimerIrq ==
  LET step == Sound(duration_sub(read_tsc, last_timer_tsc)) IN
  /\ irqs < MaxIrqs
  /\ last_timer_tsc' = read_tsc
  /\ isr_increment_boottime(Micros(step))
  /\ late_irq' = 0
  /\ irqs' = irqs + 1
  /\ stepped' = stepped + IF Nanos(read_tsc) > Nanos(last_timer_tsc)
                          THEN Nanos(read_tsc) - Nanos(last_timer_tsc) ELSE 0
  /\ UNCHANGED <<hw, rtc, shown>>

-----------------------------------------------------------------------------
(* init_rtc from the moment the date is confirmed. *)
Goto(label) == pc' = label /\ late_step' = 0

Confirm ==
  /\ pc = "start"
  /\ values' = [second |-> RtcSeconds % SecondsPerMinute,
                minute |-> RtcSeconds \div SecondsPerMinute]
  /\ Goto("up")
  /\ UNCHANGED <<hw, timer, shown, rtc_last_init_time, rtc_last_init_boottime>>

(* Wait for the update flag to rise ... *)
WaitUp ==
  /\ pc = "up"
  /\ Goto(IF Uip THEN "down" ELSE "up")
  /\ UNCHANGED <<hw, timer, shown, values, rtc_last_init_time, rtc_last_init_boottime>>

(* Faulty variant: the fall of the flag is not waited for. *)
WaitDownNot ==
  /\ pc = "down"
  /\ Goto("boottime")
  /\ UNCHANGED <<hw, timer, shown, values, rtc_last_init_time, rtc_last_init_boottime>>

(* Faulty variant: the two waits are one loop. *)
WaitDownOrUp ==
  /\ pc = "down"
  /\ Goto(IF Uip THEN "down" ELSE "up")
  /\ UNCHANGED <<hw, timer, shown, values, rtc_last_init_time, rtc_last_init_boottime>>

(* ... and to fall. *)
WaitDown ==
  /\ pc = "down"
  /\ Goto(IF Uip THEN "down" ELSE "boottime")
  /\ UNCHANGED <<hw, timer, shown, values, rtc_last_init_time, rtc_last_init_boottime>>

NoteBoottime ==
  /\ pc = "boottime"
  /\ rtc_last_init_boottime' = boottime
  /\ Goto("second")
  /\ UNCHANGED <<hw, timer, shown, values, rtc_last_init_time>>

(* The new second; a smaller one than before is of the next minute.        *)
NoteSecond ==
  LET second == RtcSeconds % SecondsPerMinute
      new_seconds == IF second < values.second THEN second + SecondsPerMinute
                                               ELSE second
  IN
  /\ pc = "second"
  /\ rtc_last_init_time' = values.minute * SecondsPerMinute + new_seconds
  /\ Goto("done")
  /\ UNCHANGED <<hw, timer, shown, values, rtc_last_init_boottime>>

InitRtc == Confirm \/ WaitUp \/ WaitDown \/ NoteBoottime \/ NoteSecond

(* read_global_rtc: base values that no longer change, and one atomic load *)
(* of the boot time. It panics if diff > cur_boottime.                     *)
Diff == (boottime - rtc_last_init_boottime) % Word64

(* Faulty variant: whole seconds of the difference are dropped.            *)
ReadWithoutSeconds ==
  duration_add([s |-> rtc_last_init_time, n |-> 0],
               [s |-> 0, n |-> (Diff % MicrosPerSecond) * NanosPerMicro])

read_global_rtc ==
  duration_add([s |-> rtc_last_init_time, n |-> 0],
               [s |-> Diff \div MicrosPerSecond,
                n |-> (Diff % MicrosPerSecond) * NanosPerMicro])

(* The command "time" at the prompt, and uuid_genv7. *)
ReadGlobalRtc ==
  /\ pc = "done"
  /\ shown' = read_global_rtc
  /\ UNCHANGED <<hw, timer, rtc>>

Next == Tick \/ SetBack \/ TimerIrq \/ InitRtc \/ ReadGlobalRtc

Spec == Init /\ [][Next]_vars

(* Time passes, the timer interrupts when it is due, and the processor     *)
(* runs on.                                                                *)
TimerIrqDue == late_irq = TimerPeriod /\ TimerIrq
FairSpec == Spec /\ WF_vars(Tick) /\ WF_vars(TimerIrqDue) /\ WF_vars(InitRtc)

-----------------------------------------------------------------------------
(* What rounding has lost of the time between interrupts.                  *)
Lost == stepped - boottime * NanosPerMicro

(* The boot time never runs ahead of the TSC, also when that is set back,  *)
(* and each timer interrupt loses less than a microsecond of it.           *)
BoottimeFollowsTsc == 0 <= Lost /\ Lost <= irqs * (NanosPerMicro - 1)

(* The clock as it is shown never goes back, even if the TSC does.         *)
ShownNeverBack == [][Nanos(shown') >= Nanos(shown)]_vars

TrueNanos == now * (NanosPerSecond \div Freq)
NanosOf(ticks) == ticks * (NanosPerSecond \div Freq)

(* Once init_rtc is done the clock that read_global_rtc shows is the real  *)
(* one, to within one timer period ahead, and one timer period, the delay  *)
(* of two steps of init_rtc and the rounding of boottime behind, whatever  *)
(* interrupts came between the steps of init_rtc and in whatever minute it *)
(* ran. The panic of read_global_rtc is never reached, and its nanoseconds *)
(* are less than a second. (While the TSC is steady.)                      *)
ClockIsRight ==
  pc = "done" /\ jumps = 0 =>
    /\ Nanos(read_global_rtc) <= TrueNanos + NanosOf(TimerPeriod)
    /\ Nanos(read_global_rtc)
         >= TrueNanos - NanosOf(TimerPeriod + 2 * MaxDelay) - Lost
    /\ Diff <= boottime
    /\ read_global_rtc.n < NanosPerSecond

(* init_rtc synchronises within two seconds and the delay of three steps:  *)
(* it misses the flag once at most, when it begins while that is up, and   *)
(* no interrupt makes it miss it again.                                    *)
SyncEnds ==
  pc = "up" /\ now - began + 2 * Freq + 3 * MaxDelay <= MaxTicks
    ~> pc = "done" \/ irqs = MaxIrqs \/ jumps > 0
=============================================================================
