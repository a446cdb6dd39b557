----------------------------- MODULE KmainProofs -----------------------------
(***************************************************************************)
(* The kernel from its entry to the prompt, for any loader, any machine    *)
(* and interrupts inside each other to any depth.                          *)
(***************************************************************************)
EXTENDS Kmain, SequenceTheorems, FiniteSetTheorems, TLAPS

Context == [gprs : Tokens, selectors : Tokens, dregs : Tokens]
Places == {"thread", "hlt", "trap"}
WayIn == {"swapgs", "save", "pop", "bases", "dregs"}
WayOut == {"restore", "push", "unbases", "gprs", "iretq"}
InStub == WayIn \union {"handler"} \union WayOut

Frame(rip, flag) == [kind |-> "frame", rip |-> rip, flag |-> flag]
Item == [kind : {"frame"}, rip : Places, flag : BOOLEAN] \union [kind : {"code"}]
Level == [cpu : Context, rip : Places, flag : BOOLEAN, depth : Nat]

UContext == [regs : Context, rip : Places \union {"none"}, flag : BOOLEAN]

(* What has been interrupted last. *)
Now == interrupted[Len(interrupted)]

TypeInv ==
  /\ cpu \in Context
  /\ pc \in {"thread", "hcf", "trap"} \union InStub
  /\ iflag \in BOOLEAN
  /\ stack \in Seq(Item)
  /\ ucontext \in UContext
  /\ vector \in Nat
  /\ interrupted \in Seq(Level)

(* Only the outermost level is the thread; the others never return, but    *)
(* for faults in the trap of hcf.                                          *)
LevelsInv ==
  /\ pc = "thread" <=> interrupted = <<>>
  /\ iflag => pc = "thread"
  /\ \A k \in 1..Len(interrupted) :
       /\ interrupted[k].rip = "thread" => k = 1
       /\ interrupted[k].rip = "trap" => k # 1 /\ interrupted[k].flag = FALSE
  /\ pc \in InStub => (vector = BP <=> Now.rip = "hlt")
  /\ pc \in WayOut => vector # BP

(* Where each group of registers is kept, at each place of the stub. *)
RegsInv ==
  pc \in InStub =>
    /\ Now.cpu.gprs = IF pc \in {"swapgs", "save", "iretq"} THEN cpu.gprs ELSE ucontext.regs.gprs
    /\ Now.cpu.selectors = IF pc \in {"dregs", "handler", "restore", "push"}
                           THEN ucontext.regs.selectors ELSE cpu.selectors
    /\ Now.cpu.dregs = IF pc \in {"handler", "restore"} THEN ucontext.regs.dregs ELSE cpu.dregs

(* Where the place and the flag are kept. *)
FrameInv ==
  /\ pc \in {"swapgs", "save", "pop"} =>
       /\ Len(stack) = Now.depth + (IF vector \in HasCode THEN 2 ELSE 1)
       /\ stack[Now.depth + 1] = Frame(Now.rip, Now.flag)
  /\ pc \in {"bases", "dregs", "handler", "restore", "push"} =>
       /\ Len(stack) = Now.depth
       /\ ucontext.rip = Now.rip /\ ucontext.flag = Now.flag
  /\ pc \in {"unbases", "gprs", "iretq"} =>
       /\ Len(stack) = Now.depth + 1
       /\ stack[Now.depth + 1] = Frame(Now.rip, Now.flag)

StubInv == TypeInv /\ LevelsInv /\ RegsInv /\ FrameInv

(* Interrupts are on only when the tables have been read. *)
Late == {"timer", "spurious", "prompt"}
Read == {"low", "high", "sti"} \union Late

(* The steps of kmain, as far as the stub is concerned.                    *)
StubStep ==
  \/ UNCHANGED own_vars
  \/ Thread
  \/ pc = "thread" /\ kpc' \in Late /\ iflag' = TRUE
     /\ UNCHANGED <<cpu, pc, stack, ucontext, vector, errcode, interrupted>>
  \/ pc \in {"thread", "trap"} /\ \E v \in Nat \ {BP} : Enter(v)
  \/ Hcf \/ Handler \/ Stub

(* kmain before it has installed its context, or where it is lost. *)
Before == {"prekernel", "auxv", "features", "mode", "heap", "arch", "contexts", "seed",
           "context", "lost"}

GsInv ==
  /\ ContextIsFound
  /\ kpc \notin Before \/ iflag => gs_base = "ctx"

ServiceInv ==
  \/ in_service = {}
  \/ /\ pc \in WayIn \union {"handler"}
     /\ vector \in {IRQ_KB, IRQ_TIMER} /\ in_service = {vector} /\ lapic # Null


-----------------------------------------------------------------------------
LEMMA FrontFacts ==
  ASSUME NEW S, NEW s \in Seq(S), s # <<>>
  PROVE  /\ Front(s) \in Seq(S) /\ Len(Front(s)) = Len(s) - 1 /\ Len(s) \in Nat \ {0}
         /\ \A i \in 1..(Len(s) - 1) : Front(s)[i] = s[i]
         /\ Last(s) = s[Len(s)] /\ Last(s) \in S
<1>1. Len(s) \in Nat \ {0} /\ \A i \in 1..Len(s) : s[i] \in S
  BY EmptySeq, ElementOfSeq
<1>2. Last(s) = s[Len(s)] /\ Last(s) \in S
  BY <1>1 DEF Last
<1>3. Front(s) = SubSeq(s, 1, Len(s) - 1)
  BY DEF Front
<1>4. PICK n \in Nat : Len(s) = n + 1
  BY <1>1
<1>5. /\ SubSeq(s, 1, n) \in Seq(S) /\ Len(SubSeq(s, 1, n)) = IF 1 <= n THEN n - 1 + 1 ELSE 0
      /\ \A i \in 1..(n - 1 + 1) : SubSeq(s, 1, n)[i] = s[1 + i - 1]
  <2>1. \A i \in 1..n : s[i] \in S
    BY <1>1, <1>4
  <2>2. 1 \in Int /\ n \in Int
    OBVIOUS
  <2> QED
    BY <2>1, <2>2, SubSeqProperties
<1>6. Len(s) - 1 = n /\ n - 1 + 1 = n /\ \A i \in 1..n : 1 + i - 1 = i
  BY <1>4
<1>7. Len(SubSeq(s, 1, n)) = n
  BY <1>5
<1> QED
  BY <1>1, <1>2, <1>3, <1>5, <1>6, <1>7, Zenon

LEMMA AppendFacts ==
  ASSUME NEW S, NEW s \in Seq(S), NEW e \in S
  PROVE  /\ Append(s, e) \in Seq(S) /\ Len(Append(s, e)) = Len(s) + 1 /\ Len(s) \in Nat
         /\ \A i \in 1..Len(s) : Append(s, e)[i] = s[i]
         /\ Append(s, e)[Len(s) + 1] = e
  OBVIOUS

LEMMA HaveCodes == \A v \in Nat : StubHasCode(v) <=> v \in HasCode
  BY DEF StubHasCode, HasCode

(* The processor pushes a frame, or a frame and a code. *)
Pushed(v, frame) == stack \o <<frame>> \o (IF v \in HasCode THEN <<[kind |-> "code"]>> ELSE <<>>)

LEMMA PushedFacts ==
  ASSUME stack \in Seq(Item), NEW v \in Nat, NEW rip \in Places, NEW flag \in BOOLEAN
  PROVE  /\ Pushed(v, Frame(rip, flag)) \in Seq(Item)
         /\ Len(Pushed(v, Frame(rip, flag))) = Len(stack) + (IF v \in HasCode THEN 2 ELSE 1)
         /\ Pushed(v, Frame(rip, flag))[Len(stack) + 1] = Frame(rip, flag)
<1> DEFINE f == Frame(rip, flag)  c == [kind |-> "code"]
<1>1. f \in Item /\ c \in Item
  BY DEF Item, Frame
<1>2. /\ <<f>> \in Seq(Item) /\ <<c>> \in Seq(Item) /\ <<>> \in Seq(Item)
      /\ Len(<<f>>) = 1 /\ Len(<<c>>) = 1 /\ Len(<<>>) = 0 /\ <<f>>[1] = f
  <2> HIDE DEF f, c
  <2> QED
    BY <1>1
<1> DEFINE t == stack \o <<f>>
           u == IF v \in HasCode THEN <<c>> ELSE <<>>
<1>3. Pushed(v, f) = t \o u
  BY DEF Pushed
<1> HIDE DEF f, c
<1>4. u \in Seq(Item) /\ Len(u) = IF v \in HasCode THEN 1 ELSE 0
  <2>1. CASE v \in HasCode
    BY <2>1, <1>2, Zenon DEF u
  <2>2. CASE v \notin HasCode
    <3>1. u = <<>>
      BY <2>2 DEF u
    <3> QED
      BY <3>1, <2>2, <1>2 DEF u
  <2> QED
    BY <2>1, <2>2
<1>5. Len(stack) \in Nat
  OBVIOUS
<1>6. t \in Seq(Item) /\ Len(t) = Len(stack) + 1 /\ t[Len(stack) + 1] = f
  <2>1. /\ t \in Seq(Item) /\ Len(t) = Len(stack) + Len(<<f>>)
        /\ \A i \in 1..(Len(stack) + Len(<<f>>)) :
             t[i] = IF i <= Len(stack) THEN stack[i] ELSE <<f>>[i - Len(stack)]
    BY <1>2, ConcatProperties, Zenon
  <2> HIDE DEF t
  <2>2. t[Len(stack) + 1] = <<f>>[Len(stack) + 1 - Len(stack)]
    BY <2>1, <1>2, <1>5
  <2>3. Len(stack) + 1 - Len(stack) = 1
    BY <1>5
  <2> QED
    BY <2>1, <2>2, <2>3, <1>2
<1> HIDE DEF t, u
<1>7. /\ t \o u \in Seq(Item) /\ Len(t \o u) = Len(t) + Len(u)
      /\ \A i \in 1..(Len(t) + Len(u)) : (t \o u)[i] = IF i <= Len(t) THEN t[i] ELSE u[i - Len(t)]
  BY <1>4, <1>6, ConcatProperties, Zenon
<1>8. (t \o u)[Len(stack) + 1] = f
  BY <1>4, <1>5, <1>6, <1>7
<1>9. Len(t \o u) = Len(stack) + (IF v \in HasCode THEN 2 ELSE 1)
  BY <1>4, <1>5, <1>6, <1>7
<1> QED
  BY <1>3, <1>7, <1>8, <1>9 DEF f

(* The way in to the stub, from the thread or from a trap.                 *)
EnterAs(v, rip) ==
  /\ stack' = Pushed(v, Frame(rip, iflag))
  /\ interrupted' = Append(interrupted,
       [cpu |-> cpu, rip |-> rip, flag |-> iflag, depth |-> Len(stack)])
  /\ vector' = v
  /\ iflag' = FALSE
  /\ pc' = "swapgs"
  /\ UNCHANGED <<cpu, ucontext>>

LEMMA EnterKeepsStubInv ==
  ASSUME StubInv, NEW v \in Nat, NEW rip \in Places, EnterAs(v, rip),
         v = BP <=> rip = "hlt", rip = "thread" => pc = "thread", rip = "trap" => pc = "trap"
  PROVE  StubInv'
<1> DEFINE level == [cpu |-> cpu, rip |-> rip, flag |-> iflag, depth |-> Len(stack)]
           n == Len(interrupted)
<1>1. /\ stack \in Seq(Item) /\ interrupted \in Seq(Level) /\ iflag \in BOOLEAN /\ cpu \in Context
      /\ Len(stack) \in Nat
  BY DEF StubInv, TypeInv
<1>2. level \in Level
  BY <1>1 DEF Level
<1>3. /\ interrupted' \in Seq(Level) /\ n \in Nat /\ Len(interrupted') = n + 1
      /\ \A i \in 1..n : interrupted'[i] = interrupted[i]
      /\ interrupted'[n + 1] = level
  <2>1. interrupted' = Append(interrupted, level)
    BY DEF EnterAs
  <2> QED
    BY <1>1, <1>2, <2>1, AppendFacts
<1>4. Now' = level
  BY <1>3 DEF Now
<1>5. /\ level.cpu = cpu /\ level.rip = rip /\ level.flag = iflag /\ level.depth = Len(stack)
  OBVIOUS
<1>6. TypeInv'
  <2>1. stack' \in Seq(Item)
    BY <1>1, PushedFacts DEF EnterAs
  <2> QED
    BY <2>1, <1>3 DEF StubInv, TypeInv, EnterAs, InStub, WayIn
<1>7. LevelsInv'
  <2>1. interrupted' # <<>>
    BY <1>3
  <2>2. ASSUME NEW k \in 1..Len(interrupted')
        PROVE  /\ interrupted'[k].rip = "thread" => k = 1
               /\ interrupted'[k].rip = "trap" => k # 1 /\ interrupted'[k].flag = FALSE
    <3>1. CASE k \in 1..n
      <4>1. interrupted'[k] = interrupted[k]
        BY <3>1, <1>3
      <4>2. /\ interrupted[k].rip = "thread" => k = 1
            /\ interrupted[k].rip = "trap" => k # 1 /\ interrupted[k].flag = FALSE
        BY <3>1 DEF StubInv, LevelsInv
      <4> QED
        BY <4>1, <4>2, Zenon
    <3>2. CASE k = n + 1
      <4>1. interrupted'[k].rip = rip /\ interrupted'[k].flag = iflag
        BY <3>2, <1>3, <1>5
      <4>2. rip = "thread" => n = 0
        BY <1>1 DEF StubInv, LevelsInv
      <4>3. rip = "trap" => n # 0 /\ iflag = FALSE
        BY <1>1, <1>3 DEF StubInv, LevelsInv
      <4> QED
        BY <4>1, <4>2, <4>3, <3>2, <1>3
    <3>3. k \in 1..n \/ k = n + 1
      <4> HIDE DEF level, n
      <4> QED
        BY <1>3
    <3> QED
      BY <3>1, <3>2, <3>3
  <2> HIDE DEF level
  <2>3. vector' = BP <=> Now'.rip = "hlt"
    BY <1>4, <1>5 DEF EnterAs
  <2> QED
    BY <2>1, <2>2, <2>3 DEF LevelsInv, EnterAs, WayOut, InStub, WayIn
<1>8. RegsInv'
  <2> HIDE DEF level
  <2> QED
    BY <1>4, <1>5 DEF RegsInv, EnterAs
<1>9. FrameInv'
  <2>1. Now'.depth = Len(stack) /\ Now'.rip = rip /\ Now'.flag = iflag
    BY <1>4, <1>5
  <2> DEFINE p == Pushed(v, Frame(rip, iflag))
  <2>2. /\ Len(p) = Len(stack) + (IF v \in HasCode THEN 2 ELSE 1)
        /\ p[Len(stack) + 1] = Frame(rip, iflag)
    BY <1>1, PushedFacts
  <2>3. stack' = p /\ vector' = v /\ pc' = "swapgs"
    BY DEF EnterAs
  <2> HIDE DEF p, level
  <2>4. /\ Len(stack') = Now'.depth + (IF vector' \in HasCode THEN 2 ELSE 1)
        /\ stack'[Now'.depth + 1] = Frame(Now'.rip, Now'.flag)
    BY <2>1, <2>2, <2>3, Zenon
  <2> QED
    BY <2>3, <2>4 DEF FrameInv
<1> QED
  BY <1>6, <1>7, <1>8, <1>9 DEF StubInv

-----------------------------------------------------------------------------
LEMMA NowFacts ==
  ASSUME StubInv, pc # "thread"
  PROVE  /\ interrupted # <<>> /\ Now \in Level /\ Now = Last(interrupted)
         /\ Len(interrupted) \in Nat \ {0}
         /\ iflag = FALSE
<1>1. interrupted \in Seq(Level) /\ interrupted # <<>> /\ iflag = FALSE
  BY DEF StubInv, TypeInv, LevelsInv
<1> QED
  BY <1>1, FrontFacts DEF Now

LEMMA ContextFields ==
  ASSUME NEW c \in Context, NEW t \in Tokens
  PROVE  /\ c.gprs \in Tokens /\ c.selectors \in Tokens /\ c.dregs \in Tokens
         /\ LET d == [c EXCEPT !.gprs = t] IN
            d \in Context /\ d.gprs = t /\ d.selectors = c.selectors /\ d.dregs = c.dregs
         /\ LET d == [c EXCEPT !.selectors = t] IN
            d \in Context /\ d.gprs = c.gprs /\ d.selectors = t /\ d.dregs = c.dregs
         /\ LET d == [c EXCEPT !.dregs = t] IN
            d \in Context /\ d.gprs = c.gprs /\ d.selectors = c.selectors /\ d.dregs = t
  BY DEF Context

LEMMA UContextFields ==
  ASSUME NEW u \in UContext, NEW c \in Context
  PROVE  /\ u.regs \in Context
         /\ LET d == [u EXCEPT !.regs = c] IN
            d \in UContext /\ d.regs = c /\ d.rip = u.rip /\ d.flag = u.flag
  BY DEF UContext

(* A step inside the stub, as far as the levels are concerned. *)
LEMMA InStubStep ==
  ASSUME StubInv, pc \in InStub, pc' \in InStub,
         UNCHANGED <<interrupted, vector, iflag>>,
         pc' \in WayOut => vector # BP
  PROVE  /\ LevelsInv' /\ Now' = Now
         /\ interrupted' \in Seq(Level) /\ iflag' \in BOOLEAN /\ vector' \in Nat
<1>1. pc # "thread" /\ pc' # "thread"
  BY DEF InStub, WayIn, WayOut
<1>2. interrupted # <<>> /\ iflag = FALSE
  BY <1>1, NowFacts
<1>3. Now' = Now
  BY DEF Now
<1>4. LevelsInv /\ interrupted \in Seq(Level) /\ vector \in Nat
  BY DEF StubInv, TypeInv
<1> QED
  BY <1>1, <1>2, <1>3, <1>4, Zenon DEF LevelsInv

LEMMA SwapgsInKeeps == ASSUME StubInv, SwapgsIn PROVE StubInv'
<1>1. /\ pc = "swapgs" /\ pc' = "save"
      /\ UNCHANGED <<cpu, iflag, stack, ucontext, vector, interrupted>>
  BY DEF SwapgsIn, At
<1>2. LevelsInv' /\ Now' = Now
  BY <1>1, InStubStep DEF InStub, WayIn, WayOut
<1>3. TypeInv'
  BY <1>1 DEF StubInv, TypeInv, InStub, WayIn
<1>4. RegsInv'
  BY <1>1, <1>2 DEF StubInv, RegsInv, InStub, WayIn
<1>5. FrameInv'
  BY <1>1, <1>2 DEF StubInv, FrameInv
<1> QED
  BY <1>2, <1>3, <1>4, <1>5 DEF StubInv

LEMMA SaveGprsKeeps == ASSUME StubInv, SaveGprs PROVE StubInv'
<1>1. /\ pc = "save" /\ pc' = "pop"
      /\ ucontext' = [ucontext EXCEPT !.regs.gprs = cpu.gprs]
      /\ cpu' = [cpu EXCEPT !.gprs = "kernel"]
      /\ UNCHANGED <<iflag, stack, vector, interrupted>>
  BY DEF SaveGprs, At
<1>2. LevelsInv' /\ Now' = Now
  BY <1>1, InStubStep DEF InStub, WayIn, WayOut
<1>3. cpu \in Context /\ ucontext \in UContext /\ "kernel" \in Tokens
  BY DEF StubInv, TypeInv, UContext, Tokens
<1>4. /\ cpu' \in Context /\ cpu.gprs \in Tokens
      /\ cpu'.selectors = cpu.selectors /\ cpu'.dregs = cpu.dregs
  BY <1>1, <1>3, ContextFields
<1> DEFINE regs == [ucontext.regs EXCEPT !.gprs = cpu.gprs]
<1>5. regs \in Context /\ regs.gprs = cpu.gprs
  BY <1>3, <1>4, UContextFields, ContextFields, ZenonT(30)
<1>6. ucontext' = [ucontext EXCEPT !.regs = regs]
  BY <1>1
<1>7. /\ ucontext' \in UContext /\ ucontext'.regs.gprs = cpu.gprs
  BY <1>3, <1>5, <1>6, UContextFields
<1>8. TypeInv'
  BY <1>1, <1>4, <1>7 DEF StubInv, TypeInv, InStub, WayIn, UContext
<1>9. RegsInv'
  BY <1>1, <1>2, <1>4, <1>7 DEF StubInv, RegsInv, InStub, WayIn
<1>10. FrameInv'
  BY <1>1, <1>2 DEF StubInv, FrameInv
<1> QED
  BY <1>2, <1>8, <1>9, <1>10 DEF StubInv

(* The code goes, if there is one, and then the frame. *)
LEMMA PopFrameKeeps == ASSUME StubInv, PopFrame PROVE StubInv'
<1> DEFINE rest == IF StubHasCode(vector) THEN Front(stack) ELSE stack
           frame == Frame(Now.rip, Now.flag)
<1>1. /\ pc = "pop" /\ pc' = "bases"
      /\ ucontext' = IF Last(rest).kind = "frame"
                     THEN [ucontext EXCEPT !.rip = Last(rest).rip, !.flag = Last(rest).flag]
                     ELSE [ucontext EXCEPT !.rip = "code"]
      /\ stack' = Front(rest)
      /\ UNCHANGED <<cpu, iflag, vector, interrupted>>
  BY DEF PopFrame, At
<1>2. LevelsInv' /\ Now' = Now
  BY <1>1, InStubStep DEF InStub, WayIn, WayOut
<1>3. /\ stack \in Seq(Item) /\ Len(stack) \in Nat /\ ucontext \in UContext /\ vector \in Nat
  BY DEF StubInv, TypeInv
<1>4. Now \in Level /\ Now.depth \in Nat /\ Now.rip \in Places /\ Now.flag \in BOOLEAN
  BY <1>1, NowFacts DEF Level
<1>5. /\ Len(stack) = Now.depth + (IF vector \in HasCode THEN 2 ELSE 1)
      /\ stack[Now.depth + 1] = frame
  BY <1>1 DEF StubInv, FrameInv
<1>6. rest \in Seq(Item) /\ Len(rest) = Now.depth + 1 /\ rest[Now.depth + 1] = frame
  <2> HIDE DEF frame
  <2>1. CASE vector \in HasCode
    <3>1. rest = Front(stack) /\ Len(stack) = Now.depth + 2
      BY <2>1, <1>3, <1>5, HaveCodes
    <3>2. stack # <<>>
      BY <3>1, <1>3, <1>4
    <3>3. /\ Front(stack) \in Seq(Item) /\ Len(Front(stack)) = Len(stack) - 1
          /\ \A i \in 1..(Len(stack) - 1) : Front(stack)[i] = stack[i]
      BY <3>2, <1>3, FrontFacts
    <3>4. Len(stack) - 1 = Now.depth + 1 /\ Now.depth + 1 \in 1..(Len(stack) - 1)
      BY <3>1, <1>4
    <3> HIDE DEF rest
    <3> QED
      BY <3>1, <3>3, <3>4, <1>5, Zenon
  <2>2. CASE vector \notin HasCode
    BY <2>2, <1>3, <1>5, HaveCodes
  <2> QED
    BY <2>1, <2>2
<1> HIDE DEF rest
<1>7. Front(rest) \in Seq(Item) /\ Len(Front(rest)) = Now.depth /\ Last(rest) = frame
  <2>1. rest # <<>>
    BY <1>4, <1>6
  <2> QED
    BY <2>1, <1>4, <1>6, FrontFacts, SMTT(30)
<1>8. frame.kind = "frame" /\ frame.rip = Now.rip /\ frame.flag = Now.flag
  BY DEF Frame
<1> HIDE DEF frame
<1>9. ucontext' = [ucontext EXCEPT !.rip = Now.rip, !.flag = Now.flag]
  BY <1>1, <1>7, <1>8
<1>10. /\ ucontext' \in UContext /\ ucontext'.regs = ucontext.regs
       /\ ucontext'.rip = Now.rip /\ ucontext'.flag = Now.flag
  BY <1>3, <1>4, <1>9 DEF UContext
<1>11. TypeInv'
  BY <1>1, <1>7, <1>10 DEF StubInv, TypeInv, InStub, WayIn
<1>12. RegsInv'
  BY <1>1, <1>2, <1>10 DEF StubInv, RegsInv, InStub, WayIn
<1>13. FrameInv'
  BY <1>1, <1>2, <1>7, <1>10 DEF FrameInv
<1> QED
  BY <1>2, <1>11, <1>12, <1>13 DEF StubInv

LEMMA SaveBasesKeeps == ASSUME StubInv, SaveBases PROVE StubInv'
<1>1. /\ pc = "bases" /\ pc' = "dregs"
      /\ ucontext' = [ucontext EXCEPT !.regs.selectors = cpu.selectors]
      /\ cpu' = [cpu EXCEPT !.selectors = "kernel"]
      /\ UNCHANGED <<iflag, stack, vector, interrupted>>
  BY DEF SaveBases, At
<1>2. LevelsInv' /\ Now' = Now
  BY <1>1, InStubStep DEF InStub, WayIn, WayOut
<1>3. cpu \in Context /\ ucontext \in UContext /\ "kernel" \in Tokens
  BY DEF StubInv, TypeInv, Tokens
<1>4. /\ cpu' \in Context /\ cpu.selectors \in Tokens
      /\ cpu'.gprs = cpu.gprs /\ cpu'.dregs = cpu.dregs
  BY <1>1, <1>3, ContextFields
<1> DEFINE regs == [ucontext.regs EXCEPT !.selectors = cpu.selectors]
<1>5. regs \in Context /\ regs.selectors = cpu.selectors /\ regs.gprs = ucontext.regs.gprs
  BY <1>3, <1>4, UContextFields, ContextFields, ZenonT(30)
<1>6. ucontext' = [ucontext EXCEPT !.regs = regs]
  BY <1>1
<1> HIDE DEF regs
<1>7. /\ ucontext' \in UContext /\ ucontext'.regs = regs
      /\ ucontext'.rip = ucontext.rip /\ ucontext'.flag = ucontext.flag
  BY <1>3, <1>5, <1>6, UContextFields
<1>8. TypeInv'
  BY <1>1, <1>4, <1>7 DEF StubInv, TypeInv, InStub, WayIn
<1>9. RegsInv'
  BY <1>1, <1>2, <1>4, <1>5, <1>7 DEF StubInv, RegsInv, InStub, WayIn
<1>10. FrameInv'
  BY <1>1, <1>2, <1>7 DEF StubInv, FrameInv
<1> QED
  BY <1>2, <1>8, <1>9, <1>10 DEF StubInv

LEMMA SaveDregsKeeps == ASSUME StubInv, SaveDregs PROVE StubInv'
<1>1. /\ pc = "dregs" /\ pc' = "handler"
      /\ ucontext' = [ucontext EXCEPT !.regs.dregs = cpu.dregs]
      /\ UNCHANGED <<cpu, iflag, stack, vector, interrupted>>
  BY DEF SaveDregs, At
<1>2. LevelsInv' /\ Now' = Now
  BY <1>1, InStubStep DEF InStub, WayIn, WayOut
<1>3. cpu \in Context /\ ucontext \in UContext /\ cpu.dregs \in Tokens
  BY ContextFields DEF StubInv, TypeInv, Context
<1> DEFINE regs == [ucontext.regs EXCEPT !.dregs = cpu.dregs]
<1>5. /\ regs \in Context /\ regs.dregs = cpu.dregs
      /\ regs.gprs = ucontext.regs.gprs /\ regs.selectors = ucontext.regs.selectors
  BY <1>3, UContextFields, ContextFields, ZenonT(30)
<1>6. ucontext' = [ucontext EXCEPT !.regs = regs]
  BY <1>1
<1> HIDE DEF regs
<1>7. /\ ucontext' \in UContext /\ ucontext'.regs = regs
      /\ ucontext'.rip = ucontext.rip /\ ucontext'.flag = ucontext.flag
  BY <1>3, <1>5, <1>6, UContextFields
<1>8. TypeInv'
  BY <1>1, <1>7 DEF StubInv, TypeInv, InStub, WayIn
<1>9. RegsInv'
  BY <1>1, <1>2, <1>5, <1>7 DEF StubInv, RegsInv, InStub, WayIn
<1>10. FrameInv'
  BY <1>1, <1>2, <1>7 DEF StubInv, FrameInv
<1> QED
  BY <1>2, <1>8, <1>9, <1>10 DEF StubInv

(* Whatever the handler leaves in the registers, what was interrupted is   *)
(* in the ucontext by now.                                                 *)
LEMMA HandlerKeeps == ASSUME StubInv, Handler PROVE StubInv'
<1>1. /\ pc = "handler"
      /\ pc' = CASE vector = PF -> "hcf" [] vector = BP -> "trap" [] OTHER -> "restore"
      /\ cpu' = [cpu EXCEPT !.gprs = "handler", !.dregs = "handler"]
      /\ UNCHANGED <<iflag, stack, ucontext, vector, interrupted>>
  BY DEF Handler, At
<1>2. \/ pc' \in {"hcf", "trap"}
      \/ pc' = "restore" /\ vector # BP
  BY <1>1 DEF BP, PF
<1>3. interrupted # <<>> /\ iflag = FALSE /\ Now' = Now
  BY <1>1, NowFacts DEF Now
<1>4. LevelsInv'
  <2>1. LevelsInv /\ pc \in InStub
    BY <1>1 DEF StubInv, InStub
  <2> QED
    BY <2>1, <1>1, <1>2, <1>3 DEF LevelsInv, InStub, WayIn, WayOut
<1>5. cpu \in Context
  BY DEF StubInv, TypeInv
<1>6. cpu' \in Context /\ cpu'.selectors = cpu.selectors
  BY <1>1, <1>5 DEF Context, Tokens
<1>7. TypeInv'
  BY <1>1, <1>2, <1>6 DEF StubInv, TypeInv, InStub, WayOut
<1>8. RegsInv'
  BY <1>1, <1>2, <1>3, <1>6 DEF StubInv, RegsInv, InStub, WayIn, WayOut
<1>9. FrameInv'
  BY <1>1, <1>2, <1>3 DEF StubInv, FrameInv
<1> QED
  BY <1>4, <1>7, <1>8, <1>9 DEF StubInv

LEMMA RestoreDregsKeeps == ASSUME StubInv, RestoreDregs PROVE StubInv'
<1>1. /\ pc = "restore" /\ pc' = "push"
      /\ cpu' = [cpu EXCEPT !.dregs = ucontext.regs.dregs]
      /\ UNCHANGED <<iflag, stack, ucontext, vector, interrupted>>
  BY DEF RestoreDregs, At
<1>2. LevelsInv' /\ Now' = Now
  <2>1. vector # BP
    BY <1>1 DEF StubInv, LevelsInv, WayOut
  <2> QED
    BY <1>1, <2>1, InStubStep DEF InStub, WayIn, WayOut
<1>3. cpu \in Context /\ ucontext.regs.dregs \in Tokens
  BY UContextFields, ContextFields DEF StubInv, TypeInv, Context, UContext
<1>4. cpu' \in Context /\ cpu'.dregs = ucontext.regs.dregs
  BY <1>1, <1>3, ContextFields
<1>5. TypeInv'
  BY <1>1, <1>4 DEF StubInv, TypeInv, InStub, WayOut
<1>6. RegsInv'
  BY <1>1, <1>2, <1>4 DEF StubInv, RegsInv, InStub, WayOut
<1>7. FrameInv'
  BY <1>1, <1>2 DEF StubInv, FrameInv
<1> QED
  BY <1>2, <1>5, <1>6, <1>7 DEF StubInv

LEMMA PushFrameKeeps == ASSUME StubInv, PushFrame PROVE StubInv'
<1> DEFINE frame == Frame(ucontext.rip, ucontext.flag)
<1>1. /\ pc = "push" /\ pc' = "unbases"
      /\ stack' = Append(stack, frame)
      /\ cpu' = [cpu EXCEPT !.selectors = ucontext.regs.selectors]
      /\ UNCHANGED <<iflag, ucontext, vector, interrupted>>
  BY DEF PushFrame, At, Frame
<1>2. LevelsInv' /\ Now' = Now
  <2>1. vector # BP
    BY <1>1 DEF StubInv, LevelsInv, WayOut
  <2> QED
    BY <1>1, <2>1, InStubStep DEF InStub, WayIn, WayOut
<1>3. cpu \in Context /\ ucontext.regs.selectors \in Tokens /\ stack \in Seq(Item)
  BY UContextFields, ContextFields DEF StubInv, TypeInv, Context, UContext
<1>4. cpu' \in Context /\ cpu'.selectors = ucontext.regs.selectors /\ cpu'.gprs = cpu.gprs
      /\ cpu'.dregs = cpu.dregs
  BY <1>1, <1>3, ContextFields
<1>5. Now.rip \in Places /\ Now.flag \in BOOLEAN
  BY <1>1, NowFacts DEF Level
<1>6. Len(stack) = Now.depth /\ ucontext.rip = Now.rip /\ ucontext.flag = Now.flag
  BY <1>1 DEF StubInv, FrameInv
<1>7. frame \in Item
  BY <1>5, <1>6 DEF Item, Frame
<1> HIDE DEF frame
<1>8. /\ stack' \in Seq(Item) /\ Len(stack') = Len(stack) + 1
      /\ stack'[Len(stack) + 1] = frame
  BY <1>1, <1>3, <1>7, AppendFacts
<1>9. TypeInv'
  BY <1>1, <1>4, <1>8 DEF StubInv, TypeInv, InStub, WayOut
<1>10. RegsInv'
  BY <1>1, <1>2, <1>4 DEF StubInv, RegsInv, InStub, WayOut
<1>11. FrameInv'
  BY <1>1, <1>2, <1>6, <1>8 DEF FrameInv, frame
<1> QED
  BY <1>2, <1>9, <1>10, <1>11 DEF StubInv

LEMMA RestoreBasesKeeps == ASSUME StubInv, RestoreBases PROVE StubInv'
<1>1. /\ pc = "unbases" /\ pc' = "gprs"
      /\ UNCHANGED <<cpu, iflag, stack, ucontext, vector, interrupted>>
  BY DEF RestoreBases, At
<1>2. LevelsInv' /\ Now' = Now
  <2>1. vector # BP
    BY <1>1 DEF StubInv, LevelsInv, WayOut
  <2> QED
    BY <1>1, <2>1, InStubStep DEF InStub, WayIn, WayOut
<1>3. TypeInv'
  BY <1>1 DEF StubInv, TypeInv, InStub, WayOut
<1>4. RegsInv'
  BY <1>1, <1>2 DEF StubInv, RegsInv, InStub, WayOut
<1>5. FrameInv'
  BY <1>1, <1>2 DEF StubInv, FrameInv
<1> QED
  BY <1>2, <1>3, <1>4, <1>5 DEF StubInv

LEMMA RestoreGprsKeeps == ASSUME StubInv, RestoreGprs PROVE StubInv'
<1>1. /\ pc = "gprs" /\ pc' = "iretq"
      /\ cpu' = [cpu EXCEPT !.gprs = ucontext.regs.gprs]
      /\ UNCHANGED <<iflag, stack, ucontext, vector, interrupted>>
  BY DEF RestoreGprs, At
<1>2. LevelsInv' /\ Now' = Now
  <2>1. vector # BP
    BY <1>1 DEF StubInv, LevelsInv, WayOut
  <2> QED
    BY <1>1, <2>1, InStubStep DEF InStub, WayIn, WayOut
<1>3. cpu \in Context /\ ucontext.regs.gprs \in Tokens
  BY UContextFields, ContextFields DEF StubInv, TypeInv, Context, UContext
<1>4. /\ cpu' \in Context /\ cpu'.gprs = ucontext.regs.gprs
      /\ cpu'.selectors = cpu.selectors /\ cpu'.dregs = cpu.dregs
  BY <1>1, <1>3, ContextFields
<1>5. TypeInv'
  BY <1>1, <1>4 DEF StubInv, TypeInv, InStub, WayOut
<1>6. RegsInv'
  BY <1>1, <1>2, <1>4 DEF StubInv, RegsInv, InStub, WayOut
<1>7. FrameInv'
  BY <1>1, <1>2 DEF StubInv, FrameInv
<1> QED
  BY <1>2, <1>5, <1>6, <1>7 DEF StubInv

(* At iretq everything is again as it was interrupted. *)
LEMMA IretqResumes ==
  ASSUME StubInv, Iretq
  PROVE  /\ Now = Last(interrupted)
         /\ cpu' = Now.cpu /\ pc' = Now.rip /\ iflag' = Now.flag /\ Len(stack') = Now.depth
         /\ Now.rip \in {"thread", "trap"} /\ vector # BP
<1>1. /\ pc = "iretq" /\ pc' = Last(stack).rip /\ iflag' = Last(stack).flag
      /\ stack' = Front(stack) /\ cpu' = cpu
  BY DEF Iretq
<1>2. /\ Now = Last(interrupted) /\ Now \in Level
  BY <1>1, NowFacts
<1>3. /\ Now.cpu \in Context /\ Now.depth \in Nat /\ Now.rip \in Places
  BY <1>2 DEF Level
<1>4. vector # BP /\ Now.rip # "hlt"
  BY <1>1 DEF StubInv, LevelsInv, InStub, WayOut
<1>5. cpu = Now.cpu
  <2>1. Now.cpu.gprs = cpu.gprs /\ Now.cpu.selectors = cpu.selectors /\ Now.cpu.dregs = cpu.dregs
    BY <1>1 DEF StubInv, RegsInv, InStub, WayOut
  <2>2. cpu \in Context
    BY DEF StubInv, TypeInv
  <2> QED
    BY <2>1, <2>2, <1>3 DEF Context
<1>6. /\ stack \in Seq(Item) /\ Len(stack) = Now.depth + 1
      /\ stack[Now.depth + 1] = Frame(Now.rip, Now.flag)
  BY <1>1 DEF StubInv, TypeInv, FrameInv
<1>7. stack # <<>>
  BY <1>3, <1>6
<1>8. Len(Front(stack)) = Now.depth /\ Last(stack) = Frame(Now.rip, Now.flag)
  <2>1. Len(Front(stack)) = Len(stack) - 1 /\ Last(stack) = stack[Len(stack)]
    BY <1>6, <1>7, FrontFacts
  <2>2. Len(stack) - 1 = Now.depth
    BY <1>3, <1>6
  <2> QED
    BY <2>1, <2>2, <1>6
<1>9. Last(stack).rip = Now.rip /\ Last(stack).flag = Now.flag
  BY <1>8 DEF Frame
<1> QED
  BY <1>1, <1>2, <1>3, <1>4, <1>5, <1>8, <1>9 DEF Places

LEMMA IretqKeeps == ASSUME StubInv, Iretq PROVE StubInv'
<1>1. /\ pc = "iretq" /\ stack' = Front(stack) /\ interrupted' = Front(interrupted)
      /\ UNCHANGED <<ucontext, vector>>
  BY DEF Iretq
<1>2. /\ cpu' = Now.cpu /\ pc' = Now.rip /\ iflag' = Now.flag
      /\ Now.rip \in {"thread", "trap"} /\ vector # BP
  BY IretqResumes
<1>3. Now \in Level /\ interrupted # <<>> /\ interrupted \in Seq(Level) /\ stack \in Seq(Item)
  BY <1>1, NowFacts DEF StubInv, TypeInv
<1> DEFINE n == Len(interrupted)
<1>4. /\ interrupted' \in Seq(Level) /\ Len(interrupted') = n - 1 /\ n \in Nat \ {0}
      /\ \A i \in 1..(n - 1) : interrupted'[i] = interrupted[i]
  BY <1>1, <1>3, FrontFacts
<1>5. stack' \in Seq(Item)
  <2>1. stack # <<>>
    <3>1. Len(stack) = Now.depth + 1 /\ Now.depth \in Nat
      BY <1>1, <1>3 DEF StubInv, FrameInv, Level
    <3> QED
      BY <3>1
  <2> QED
    BY <2>1, <1>1, <1>3, FrontFacts
<1>6. cpu' \in Context /\ iflag' \in BOOLEAN
  BY <1>2, <1>3 DEF Level
<1>7. pc' \notin InStub
  BY <1>2 DEF InStub, WayIn, WayOut
<1>8. TypeInv'
  BY <1>1, <1>2, <1>4, <1>5, <1>6 DEF StubInv, TypeInv
<1>9. LevelsInv'
  <2> DEFINE Ordered(s, k) == /\ s[k].rip = "thread" => k = 1
                              /\ s[k].rip = "trap" => k # 1 /\ s[k].flag = FALSE
  <2>1. \A k \in 1..n : Ordered(interrupted, k)
    BY DEF StubInv, LevelsInv
  <2>2. \A k \in 1..Len(interrupted') : Ordered(interrupted', k)
    <3>1. ASSUME NEW k \in 1..(n - 1)  PROVE interrupted'[k] = interrupted[k] /\ k \in 1..n
      BY <1>4
    <3> QED
      BY <3>1, <2>1, <1>4, Zenon
  <2>3. Now.rip = "thread" <=> interrupted' = <<>>
    <3>1. Now = interrupted[n] /\ n \in 1..n
      BY <1>4 DEF Now
    <3>2. Now.rip = "thread" => n = 1
      BY <2>1, <3>1
    <3>3. Now.rip = "trap" => n # 1
      BY <2>1, <3>1
    <3>4. interrupted' = <<>> <=> n = 1
      <4> HIDE DEF n
      <4>1. interrupted' = <<>> <=> Len(interrupted') = 0
        BY <1>4, EmptySeq
      <4> QED
        BY <4>1, <1>4
    <3> QED
      BY <3>2, <3>3, <3>4, <1>2
  <2>4. Now.rip = "trap" => Now.flag = FALSE
    <3>1. Now = interrupted[n] /\ n \in 1..n
      BY <1>4 DEF Now
    <3> QED
      BY <3>1, <2>1
  <2>5. pc' \notin WayOut
    BY <1>7 DEF InStub
  <2> QED
    BY <1>2, <1>7, <2>2, <2>3, <2>4, <2>5 DEF LevelsInv
<1>10. RegsInv'
  BY <1>7 DEF RegsInv
<1>11. FrameInv'
  BY <1>2 DEF FrameInv
<1> QED
  BY <1>8, <1>9, <1>10, <1>11 DEF StubInv

(* The interrupted code goes on. *)
LEMMA ThreadKeeps == ASSUME StubInv, Thread PROVE StubInv'
<1>1. pc = "thread" /\ UNCHANGED <<pc, iflag, stack, ucontext, vector, interrupted>>
  BY DEF Thread
<1>2. cpu' \in Context
  <2>1. cpu \in Context
    BY DEF StubInv, TypeInv
  <2>2. PICK r \in {"gprs", "dregs"} :
          cpu' = [cpu EXCEPT ![r] = IF @ = "task" THEN "busy" ELSE "task"]
    BY DEF Thread
  <2> QED
    BY <2>1, <2>2 DEF Context, Tokens
<1>3. TypeInv'
  BY <1>1, <1>2 DEF StubInv, TypeInv
<1>4. LevelsInv'
  BY <1>1 DEF StubInv, LevelsInv, InStub, WayIn, WayOut
<1>5. RegsInv' /\ FrameInv'
  BY <1>1 DEF RegsInv, FrameInv, InStub, WayIn, WayOut
<1> QED
  BY <1>3, <1>4, <1>5 DEF StubInv

-----------------------------------------------------------------------------
LEMMA EnterKeeps ==
  ASSUME StubInv, pc \in {"thread", "trap"}, NEW v \in Nat \ {BP}, Enter(v)
  PROVE  StubInv'
<1>1. pc \in Places
  BY DEF Places
<1>2. EnterAs(v, pc)
  BY DEF Enter, EnterAs, Pushed, Frame, Gate
<1> QED
  BY <1>1, <1>2, EnterKeepsStubInv

LEMMA HcfKeeps == ASSUME StubInv, Hcf PROVE StubInv'
<1> DEFINE frame == Frame("hlt", iflag)
<1>1. Pushed(BP, frame) = Append(stack, frame)
  <2>1. BP \notin HasCode
    BY DEF BP, HasCode
  <2>2. stack \in Seq(Item) /\ iflag \in BOOLEAN
    BY DEF StubInv, TypeInv
  <2>3. frame \in Item
    BY <2>2 DEF Frame, Item, Places
  <2> HIDE DEF frame
  <2>4. Pushed(BP, frame) = (stack \o <<frame>>) \o <<>>
    BY <2>1 DEF Pushed
  <2>5. stack \o <<frame>> = Append(stack, frame)
    BY <2>2, <2>3
  <2>6. Append(stack, frame) \o <<>> = Append(stack, frame)
    BY <2>2, <2>3, AppendFacts, ConcatEmptySeq
  <2> QED
    BY <2>4, <2>5, <2>6
<1>2. EnterAs(BP, "hlt")
  BY <1>1 DEF Hcf, EnterAs, Frame, Gate
<1> QED
  BY <1>2, EnterKeepsStubInv DEF Places, BP

LEMMA StubKeeps == ASSUME StubInv, Stub PROVE StubInv'
  BY SwapgsInKeeps, SaveGprsKeeps, PopFrameKeeps, SaveBasesKeeps, SaveDregsKeeps,
     RestoreDregsKeeps, PushFrameKeeps, RestoreBasesKeeps, RestoreGprsKeeps, IretqKeeps DEF Stub

LEMMA StiKeeps ==
  ASSUME StubInv, pc = "thread", iflag' = TRUE,
         UNCHANGED <<cpu, pc, stack, ucontext, vector, errcode, interrupted>>
  PROVE  StubInv'
<1>1. TypeInv' /\ LevelsInv'
  BY DEF StubInv, TypeInv, LevelsInv, InStub, WayIn, WayOut
<1>2. RegsInv' /\ FrameInv'
  BY DEF RegsInv, FrameInv, InStub, WayIn, WayOut
<1> QED
  BY <1>1, <1>2 DEF StubInv

LEMMA RestKeeps == ASSUME StubInv, UNCHANGED own_vars PROVE StubInv'
<1>1. UNCHANGED <<cpu, pc, iflag, stack, ucontext, vector, interrupted>> /\ Now' = Now
  BY DEF own_vars, Now
<1>2. TypeInv' /\ LevelsInv'
  BY <1>1 DEF StubInv, TypeInv, LevelsInv
<1>3. RegsInv' /\ FrameInv'
  BY <1>1 DEF StubInv, RegsInv, FrameInv
<1> QED
  BY <1>2, <1>3 DEF StubInv

LEMMA StubStepKeeps == ASSUME StubInv, StubStep PROVE StubInv'
  BY RestKeeps, ThreadKeeps, StiKeeps, EnterKeeps, HcfKeeps, HandlerKeeps, StubKeeps DEF StubStep

(* Whatever kmain and the devices do is one of the steps of the stub.      *)
LEMMA KmainStubStep == ASSUME StubInv, [KmainNext]_all_vars PROVE StubStep
<1>1. /\ iflag => pc = "thread"
      /\ \A v \in {0, GP, IRQ_DEBUG, IRQ_KB, IRQ_TIMER, IRQ_SPURIOUS} \union Exceptions :
           v \in Nat \ {BP}
  BY VectorsAssumption DEF StubInv, LevelsInv, GP, IRQ_DEBUG, IRQ_KB, IRQ_TIMER, IRQ_SPURIOUS, BP
<1>2. CASE UNCHANGED all_vars
  BY <1>2 DEF all_vars, vars, own_vars, StubStep
<1>3. CASE FirstHalf
  BY <1>3 DEF FirstHalf, vars, own_vars, StubStep
<1>4. CASE LoadArchState
  BY <1>4 DEF LoadArchState, LoadIdt, StubStep
<1>5. CASE InstallContext
  BY <1>5 DEF InstallContext, InitContext, StubStep
<1>6. CASE FirstHalfFails
  BY <1>6, <1>1 DEF FirstHalfFails, StubStep
<1>7. CASE Lost
  BY <1>7 DEF Lost, all_vars, vars, own_vars, StubStep
<1>8. CASE LoadSystemDescriptorTables
  BY <1>8 DEF LoadSystemDescriptorTables, vars, own_vars, StubStep
<1>9. CASE InstallKeyboardIrq
  BY <1>9 DEF InstallKeyboardIrq, vars, own_vars, StubStep
<1>10. CASE Sti
  BY <1>10 DEF Sti, Step, Go, StubStep, Late
<1>11. CASE SetupTimer
  BY <1>11 DEF SetupTimer, vars, own_vars, StubStep
<1>12. CASE PrintContext
  BY <1>12, <1>1 DEF PrintContext, Software, StubStep
<1>13. CASE KeyboardIrq
  BY <1>13, <1>1 DEF KeyboardIrq, Interrupt, StubStep
<1>14. CASE TimerIrq
  BY <1>14, <1>1 DEF TimerIrq, Interrupt, StubStep
<1>15. CASE SpuriousIrq
  BY <1>15, <1>1 DEF SpuriousIrq, Interrupt, StubStep
<1>16. CASE HandleInt
  BY <1>16 DEF HandleInt, StubStep
<1>17. CASE Others
  BY <1>17, <1>1 DEF Others, Exception, Trap, StubStep
<1> QED
  BY <1>2, <1>3, <1>4, <1>5, <1>6, <1>7, <1>8, <1>9, <1>10, <1>11, <1>12, <1>13, <1>14, <1>15,
     <1>16, <1>17 DEF KmainNext

LEMMA InitStubInv == KmainInit => StubInv
<1> SUFFICES ASSUME KmainInit PROVE StubInv
  OBVIOUS
<1>1. /\ cpu = Fresh /\ pc = "thread" /\ iflag = FALSE /\ stack = <<>> /\ interrupted = <<>>
      /\ ucontext = [regs |-> Fresh, rip |-> "none", flag |-> FALSE] /\ vector = 0
  BY DEF KmainInit, Init
<1>2. Fresh \in Context
  BY DEF Fresh, Context, Tokens
<1>3. ucontext \in UContext
  BY <1>1, <1>2 DEF UContext
<1>4. TypeInv
  <2>1. stack \in Seq(Item) /\ interrupted \in Seq(Level)
    BY <1>1, EmptySeq
  <2> QED
    BY <1>1, <1>2, <1>3, <2>1 DEF TypeInv
<1>5. LevelsInv
  BY <1>1 DEF LevelsInv, InStub, WayIn, WayOut
<1>6. RegsInv /\ FrameInv
  BY <1>1 DEF RegsInv, FrameInv, InStub, WayIn, WayOut
<1> QED
  BY <1>4, <1>5, <1>6 DEF StubInv

LEMMA StubInvTheorem == KmainSpec => []StubInv
<1>1. StubInv /\ [KmainNext]_all_vars => StubInv'
  BY KmainStubStep, StubStepKeeps
<1> QED
  BY <1>1, InitStubInv, PTL DEF KmainSpec

(* One handler or stub less is under way only after iretq. *)
LEMMA OnlyIretqReturns ==
  ASSUME StubInv, StubStep, Len(interrupted') < Len(interrupted)
  PROVE  Iretq
<1>1. interrupted \in Seq(Level) /\ Len(interrupted) \in Nat
  BY DEF StubInv, TypeInv
<1>2. interrupted' # interrupted
  BY <1>1
<1>3. ASSUME NEW e, interrupted' = Append(interrupted, e)  PROVE FALSE
  BY <1>1, <1>3
<1>4. CASE UNCHANGED own_vars
  BY <1>2, <1>4 DEF own_vars
<1>5. CASE Thread \/ Handler
  BY <1>2, <1>5 DEF Thread, Handler
<1>6. CASE \E v \in Nat \ {BP} : Enter(v)
  BY <1>3, <1>6 DEF Enter
<1>7. CASE Hcf
  BY <1>3, <1>7 DEF Hcf
<1>8. CASE Stub
  BY <1>2, <1>8 DEF Stub, SwapgsIn, SaveGprs, PopFrame, SaveBases, SaveDregs, RestoreDregs,
                    PushFrame, RestoreBases, RestoreGprs
<1> QED
  BY <1>2, <1>4, <1>5, <1>6, <1>7, <1>8 DEF StubStep

(* Whatever was interrupted, kmain, the loop at its end or the trap of     *)
(* hcf, goes on as if nothing had happened: with its registers, its place, *)
(* its interrupt flag and its stack (isr_stub of idt.s, for any exceptions *)
(* and any number of handlers inside each other).                          *)
THEOREM ResumesTheorem == KmainSpec => ResumesAsInterrupted
<1> DEFINE Resumes == Len(interrupted') < Len(interrupted) =>
                        /\ cpu' = Last(interrupted).cpu
                        /\ pc' = Last(interrupted).rip
                        /\ iflag' = Last(interrupted).flag
                        /\ Len(stack') = Last(interrupted).depth
<1>1. StubInv /\ [KmainNext]_all_vars => Resumes
  BY KmainStubStep, OnlyIretqReturns, IretqResumes
<1>2. StubInv /\ [KmainNext]_all_vars => [Resumes]_vars
  BY <1>1
<1> QED
  BY <1>2, StubInvTheorem, PTL DEF KmainSpec, ResumesAsInterrupted

-----------------------------------------------------------------------------
(* No step takes the context from either of the two bases.                 *)
LEMMA ContextStays ==
  ASSUME [KmainNext]_all_vars, gs_base = "ctx", kernel_gs_base = "ctx"
  PROVE  gs_base' = "ctx" /\ kernel_gs_base' = "ctx"
<1>1. CASE UNCHANGED bases
  BY <1>1 DEF bases
<1>2. CASE InstallContext
  BY <1>2 DEF InstallContext, InitContext
<1>3. CASE Stub
  BY <1>3 DEF Stub, SwapgsIn, SaveGprs, PopFrame, SaveBases, SaveDregs, RestoreDregs,
              PushFrame, RestoreBases, RestoreGprs, Iretq, bases
<1>4. Thread \/ Handler \/ Hcf \/ (\E v \in Nat : Enter(v)) => UNCHANGED bases
  BY DEF Thread, Handler, Hcf, Enter, bases
<1>5. \A v : Enter(v) => UNCHANGED bases
  BY DEF Enter, bases
<1>6. CASE FirstHalf \/ LoadSystemDescriptorTables \/ InstallKeyboardIrq \/ SetupTimer
  BY <1>1, <1>6 DEF FirstHalf, LoadSystemDescriptorTables, InstallKeyboardIrq, SetupTimer, vars
<1>7. CASE LoadArchState \/ Sti
  BY <1>1, <1>7 DEF LoadArchState, LoadIdt, Sti
<1>8. CASE FirstHalfFails \/ PrintContext
  BY <1>1, <1>4, <1>5, <1>8 DEF FirstHalfFails, PrintContext, Software
<1>9. CASE Lost \/ UNCHANGED all_vars
  BY <1>1, <1>9 DEF Lost, all_vars, vars
<1>10. CASE KeyboardIrq \/ TimerIrq \/ SpuriousIrq
  BY <1>1, <1>5, <1>10 DEF KeyboardIrq, TimerIrq, SpuriousIrq, Interrupt
<1>11. CASE HandleInt
  BY <1>1, <1>4, <1>11 DEF HandleInt
<1>12. CASE Others
  BY <1>1, <1>3, <1>4, <1>5, <1>12 DEF Others, Exception, Trap
<1> QED
  BY <1>2, <1>6, <1>7, <1>8, <1>9, <1>10, <1>11, <1>12 DEF KmainNext

(* Before the context is installed nothing interrupts kmain.               *)
LEMMA NothingBefore ==
  ASSUME StubInv, GsInv, gs_base # "ctx", [KmainNext]_all_vars
  PROVE  \/ gs_base' = "ctx" /\ kernel_gs_base' = "ctx"
         \/ UNCHANGED <<gs_base, kernel_gs_base, interrupted, iflag>> /\ kpc' \in Before
<1>1. /\ gs_base = "none" /\ kernel_gs_base = "none" /\ interrupted = <<>>
      /\ kpc \in Before /\ iflag = FALSE /\ pc = "thread"
  BY DEF GsInv, ContextIsFound, StubInv, LevelsInv, TypeInv
<1>2. ~InSecondHalf /\ kpc \notin {"tsc", "clone", "link"}
  BY <1>1 DEF Before, InSecondHalf
<1>3. CASE UNCHANGED all_vars \/ Lost
  BY <1>1, <1>3 DEF Lost, all_vars, vars, bases, boot_vars, startup_vars
<1>4. CASE FirstHalf
  BY <1>1, <1>2, <1>4 DEF FirstHalf, StartupStep, CallKmain, CopyAuxv, InitCpuidArray, PickMode,
     StartHeap, AllocContexts, SeedContext, InitTsc, ClonePageTable, LinkKernel, Go, Before, vars,
     bases
<1>5. CASE LoadArchState
  BY <1>5 DEF LoadArchState, LoadIdt, Step, Go, own_vars, bases, Before
<1>6. CASE InstallContext
  BY <1>6 DEF InstallContext, InitContext
<1>7. ~FirstHalfFails
  BY <1>2 DEF FirstHalfFails, Fails
<1>8. ~LoadSystemDescriptorTables /\ ~InstallKeyboardIrq /\ ~Sti /\ ~SetupTimer /\ ~PrintContext
  BY <1>1 DEF LoadSystemDescriptorTables, InstallKeyboardIrq, Sti, SetupTimer, PrintContext,
     Step, Go, Before
<1>9. ~KeyboardIrq /\ ~TimerIrq /\ ~SpuriousIrq
  BY <1>1 DEF KeyboardIrq, TimerIrq, SpuriousIrq, Interrupt
<1>10. ~HandleInt
  BY <1>1 DEF HandleInt, Handler, At
<1>11. ~Others
  BY <1>1, <1>2 DEF Others, Trap, Stub, SwapgsIn, SaveGprs, PopFrame, SaveBases, SaveDregs,
     RestoreDregs, PushFrame, RestoreBases, RestoreGprs, Iretq, At
<1> QED
  BY <1>3, <1>4, <1>5, <1>6, <1>7, <1>8, <1>9, <1>10, <1>11 DEF KmainNext

LEMMA GsInvTheorem == KmainSpec => []GsInv
<1>1. KmainInit => GsInv
  BY DEF KmainInit, Init, StartupInit, GsInv, ContextIsFound, Before
<1>2. StubInv /\ GsInv /\ [KmainNext]_all_vars => GsInv'
  <2> SUFFICES ASSUME StubInv, GsInv, [KmainNext]_all_vars PROVE GsInv'
    OBVIOUS
  <2>1. CASE gs_base = "ctx"
    <3>1. kernel_gs_base = "ctx"
      BY <2>1 DEF GsInv, ContextIsFound
    <3> QED
      BY <2>1, <3>1, ContextStays DEF GsInv, ContextIsFound
  <2>2. CASE gs_base # "ctx"
    <3>1. gs_base = "none" /\ kernel_gs_base = "none" /\ interrupted = <<>> /\ ~iflag
      BY <2>2 DEF GsInv, ContextIsFound
    <3> QED
      BY <2>2, <3>1, NothingBefore DEF GsInv, ContextIsFound
  <2> QED
    BY <2>1, <2>2
<1> QED
  BY <1>1, <1>2, StubInvTheorem, PTL DEF KmainSpec

(* gs:[16] and getcontext find the context in every stub, every handler    *)
(* and the code they return to (init_context of kmain, and swapgs and the  *)
(* writes of the two bases in idt.s), for any exceptions and any depth.    *)
THEOREM ContextIsFoundTheorem == KmainSpec => []ContextIsFound
  BY GsInvTheorem, PTL DEF GsInv

-----------------------------------------------------------------------------
(* What the kernel is told. The vector says everything once. *)
Entry == [a_type : Types, a_val : Nat]
Once(v) == \A i, j \in 1..Len(v) : v[i].a_type = v[j].a_type => i = j
Told(v) == {v[i].a_type : i \in 1..Len(v)}
Says(v, t, x) == \E i \in 1..Len(v) : v[i].a_type = t /\ v[i].a_val = x

Grown(v, w, t, x, b) ==
  /\ w \in Seq(Entry) /\ Once(w) /\ Len(w) \in Len(v)..(Len(v) + 1)
  /\ Told(w) = IF b THEN Told(v) \union {t} ELSE Told(v)
  /\ b => Says(w, t, x)
  /\ \A u, y : Says(v, u, y) => Says(w, u, y)

LEMMA OneMore ==
  ASSUME NEW v \in Seq(Entry), Once(v), NEW t \in Types \ Told(v), NEW x \in Nat,
         NEW w, w = v \o Aux(t, x)
  PROVE  /\ w \in Seq(Entry) /\ Once(w) /\ Len(w) = Len(v) + 1
         /\ Told(w) = Told(v) \union {t}
         /\ Says(w, t, x)
         /\ \A u, y : Says(v, u, y) => Says(w, u, y)
<1> DEFINE e == [a_type |-> t, a_val |-> x]
<1>1. e \in Entry /\ e.a_type = t /\ e.a_val = x
  BY DEF Entry
<1>2. w = v \o <<e>>
  BY DEF Aux
<1> HIDE DEF e
<1>3. <<e>> \in Seq(Entry) /\ Len(<<e>>) = 1 /\ <<e>>[1] = e
  BY <1>1
<1>4. /\ w \in Seq(Entry) /\ Len(w) = Len(v) + Len(<<e>>)
      /\ \A i \in 1..(Len(v) + Len(<<e>>)) : w[i] = IF i <= Len(v) THEN v[i] ELSE <<e>>[i - Len(v)]
  <2>1. /\ v \o <<e>> \in Seq(Entry) /\ Len(v \o <<e>>) = Len(v) + Len(<<e>>)
        /\ \A i \in 1..(Len(v) + Len(<<e>>)) :
             (v \o <<e>>)[i] = IF i <= Len(v) THEN v[i] ELSE <<e>>[i - Len(v)]
    BY <1>3, ConcatProperties, Zenon
  <2> QED
    BY <1>2, <2>1
<1>5. PICK n \in Nat : n = Len(v)
  OBVIOUS
<1>6. Len(w) = n + 1 /\ n + 1 - n = 1
  BY <1>3, <1>4, <1>5
<1>7. \A i \in 1..n : w[i] = v[i]
  BY <1>3, <1>4, <1>5
<1>8. w[n + 1] = e
  BY <1>3, <1>4, <1>5, <1>6
<1>9. 1..(n + 1) = 1..n \union {n + 1}
  OBVIOUS
<1>10. Told(w) = Told(v) \union {t}
  BY <1>1, <1>5, <1>6, <1>7, <1>8, <1>9 DEF Told
<1>11. Once(w)
  <2> SUFFICES ASSUME NEW i \in 1..(n + 1), NEW j \in 1..(n + 1), w[i].a_type = w[j].a_type
               PROVE  i = j
    BY <1>6 DEF Once
  <2>1. CASE i \in 1..n /\ j \in 1..n
    BY <2>1, <1>5, <1>7 DEF Once
  <2>2. \A k \in 1..n : w[k].a_type # t
    BY <1>5, <1>7 DEF Told
  <2> QED
    BY <2>1, <2>2, <1>1, <1>8, <1>9
<1>12. Says(w, t, x)
  BY <1>1, <1>6, <1>8, <1>9 DEF Says
<1>13. ASSUME NEW u, NEW y, Says(v, u, y)  PROVE Says(w, u, y)
  <2>1. PICK i \in 1..n : v[i].a_type = u /\ v[i].a_val = y
    BY <1>5, <1>13 DEF Says
  <2>2. i \in 1..Len(w) /\ w[i] = v[i]
    BY <1>6, <1>7, <1>9
  <2> QED
    BY <2>1, <2>2 DEF Says
<1> QED
  BY <1>4, <1>5, <1>6, <1>10, <1>11, <1>12, <1>13

LEMMA OneMoreIf ==
  ASSUME NEW v \in Seq(Entry), Once(v), NEW t \in Types \ Told(v), NEW x \in Nat, NEW b \in BOOLEAN
  PROVE  Grown(v, v \o Optional(b, Aux(t, x)), t, x, b)
<1> DEFINE w == v \o Optional(b, Aux(t, x))
<1>0. Len(v) \in Nat
  OBVIOUS
<1>1. CASE b = TRUE
  <2>1. w = v \o Aux(t, x)
    BY <1>1 DEF Optional
  <2>2. /\ w \in Seq(Entry) /\ Once(w) /\ Len(w) = Len(v) + 1
        /\ Told(w) = Told(v) \union {t} /\ Says(w, t, x)
        /\ \A u, y : Says(v, u, y) => Says(w, u, y)
    BY <2>1, OneMore, ZenonT(30)
  <2>3. Len(w) \in Len(v)..(Len(v) + 1)
    BY <2>2, <1>0
  <2> HIDE DEF w
  <2>4. Grown(v, w, t, x, b)
    BY <1>1, <2>2, <2>3 DEF Grown
  <2> QED
    BY <2>4 DEF w
<1>2. CASE b = FALSE
  <2>1. w = v
    <3>1. w = v \o <<>>
      BY <1>2 DEF Optional
    <3> QED
      BY <3>1, ConcatEmptySeq
  <2>2. Len(w) \in Len(v)..(Len(v) + 1)
    BY <2>1, <1>0
  <2> QED
    BY <1>2, <2>1, <2>2 DEF Grown
<1> QED
  BY <1>1, <1>2

(* The vector of call_kmain, whatever is left out of it.                   *)
LEMMA VectorFacts ==
  ASSUME NEW l \in Loaders
  PROVE  /\ Vector(l) \in Seq(Entry) /\ Once(Vector(l)) /\ Len(Vector(l)) < 16
         /\ Says(Vector(l), AT_XINIX_CPU_FEATURES_ARRAY, AT_XINIX_CPU_FEATURES_ARRAY)
         /\ l.tsc_freq # 0 => Says(Vector(l), AT_KXINIX_TSC_FREQ, l.tsc_freq)
         /\ IF l.new_rsdp THEN Says(Vector(l), AT_KXINIX_XSDT_ADDR, AT_KXINIX_XSDT_ADDR)
            ELSE AT_KXINIX_XSDT_ADDR \notin Told(Vector(l))
<1> DEFINE e == [a_type |-> AT_PAGESZ, a_val |-> 4096]
           v1 == Aux(AT_PAGESZ, 4096)
           v2 == v1 \o Pointer(AT_PLATFORM)
           v3 == v2 \o Pointer(AT_XINIX_CPU_FEATURES_ARRAY)
           v4 == v3 \o Aux(AT_XINIX_CPU_FEATURES_LEN, 38)
           v5 == v4 \o Optional(RandSlowGetEntropy(l.features) # "nothing", Pointer(AT_RANDOM))
           v6 == v5 \o Pointer(AT_KXINIX_HHDM_OFFSET)
           v7 == v6 \o Pointer(AT_KXINIX_MEMMAP)
           v8 == v7 \o Aux(AT_BASE, 0)
           v9 == v8 \o Optional(l.tsc_freq # 0, Aux(AT_KXINIX_TSC_FREQ, l.tsc_freq))
           v10 == v9 \o Optional(l.mode_count > 0, Pointer(AT_KXINIX_FRAMEBUFFER))
           v11 == v10 \o Pointer(AT_KXINIX_RSDT_ADDR)
           v12 == v11 \o Optional(l.new_rsdp, Pointer(AT_KXINIX_XSDT_ADDR))
<1>1. Vector(l) = v12
  BY DEF Vector
<1>2. l.tsc_freq \in Nat
  BY LoadersAssumption
<1>3. e \in Entry /\ e.a_type = 6
  BY DEF Entry, Types, AT_PAGESZ
<1>4. v1 = <<e>>
  BY DEF Aux
<1> HIDE DEF e, v1
<1>5. v1 \in Seq(Entry) /\ Len(v1) = 1 /\ v1[1] = e
  BY <1>3, <1>4
<1>6. Once(v1) /\ Told(v1) \subseteq {6}
  BY <1>3, <1>5 DEF Once, Told
<1>7. /\ v1 \in Seq(Entry) /\ Once(v1) /\ Len(v1) <= 1
      /\ Told(v1) \subseteq {6}
  BY <1>5, <1>6
<1>8. /\ v2 \in Seq(Entry) /\ Once(v2) /\ Len(v2) <= 2
      /\ Told(v2) \subseteq {6, 8}
  <2>1. /\ AT_PLATFORM \in Types \ Told(v1) /\ AT_PLATFORM \in Nat
        /\ TRUE \in BOOLEAN
    BY <1>7, <1>2, LoadersAssumption DEF Types, AT_PLATFORM
  <2>2. v2 = v1 \o Optional(TRUE, Aux(AT_PLATFORM, AT_PLATFORM))
    BY DEF Optional, Pointer
  <2> HIDE DEF v2
  <2>3. Grown(v1, v1 \o Optional(TRUE, Aux(AT_PLATFORM, AT_PLATFORM)),
                  AT_PLATFORM, AT_PLATFORM, TRUE)
    BY <2>1, <1>7, OneMoreIf
  <2>4. Grown(v1, v2, AT_PLATFORM, AT_PLATFORM, TRUE)
    BY <2>2, <2>3, Zenon
  <2>5. Len(v1) \in Nat
    BY <1>7
  <2> QED
    BY <2>1, <2>4, <2>5, <1>7 DEF Grown, AT_PLATFORM
<1> HIDE DEF v2
<1>9. /\ v3 \in Seq(Entry) /\ Once(v3) /\ Len(v3) <= 3
      /\ Told(v3) \subseteq {6, 8, 80}
      /\ Says(v3, 80, 80)
  <2>1. /\ AT_XINIX_CPU_FEATURES_ARRAY \in Types \ Told(v2) /\ AT_XINIX_CPU_FEATURES_ARRAY \in Nat
        /\ TRUE \in BOOLEAN
    BY <1>8, <1>2, LoadersAssumption DEF Types, AT_XINIX_CPU_FEATURES_ARRAY
  <2>2. v3 = v2 \o Optional(TRUE, Aux(AT_XINIX_CPU_FEATURES_ARRAY, AT_XINIX_CPU_FEATURES_ARRAY))
    BY DEF Optional, Pointer
  <2> HIDE DEF v3
  <2>3. Grown(v2,
                  v2 \o Optional(TRUE,
                      Aux(AT_XINIX_CPU_FEATURES_ARRAY, AT_XINIX_CPU_FEATURES_ARRAY)),
                  AT_XINIX_CPU_FEATURES_ARRAY, AT_XINIX_CPU_FEATURES_ARRAY, TRUE)
    BY <2>1, <1>8, OneMoreIf
  <2>4. Grown(v2, v3, AT_XINIX_CPU_FEATURES_ARRAY, AT_XINIX_CPU_FEATURES_ARRAY, TRUE)
    BY <2>2, <2>3, Zenon
  <2>5. Len(v2) \in Nat
    BY <1>8
  <2> QED
    BY <2>1, <2>4, <2>5, <1>8 DEF Grown, AT_XINIX_CPU_FEATURES_ARRAY
<1> HIDE DEF v3
<1>10. /\ v4 \in Seq(Entry) /\ Once(v4) /\ Len(v4) <= 4
      /\ Told(v4) \subseteq {6, 8, 80, 81}
      /\ Says(v4, 80, 80)
  <2>1. /\ AT_XINIX_CPU_FEATURES_LEN \in Types \ Told(v3) /\ 38 \in Nat
        /\ TRUE \in BOOLEAN
    BY <1>9, <1>2, LoadersAssumption DEF Types, AT_XINIX_CPU_FEATURES_LEN
  <2>2. v4 = v3 \o Optional(TRUE, Aux(AT_XINIX_CPU_FEATURES_LEN, 38))
    BY DEF Optional
  <2> HIDE DEF v4
  <2>3. \A x \in Nat : Grown(v3, v3 \o Optional(TRUE, Aux(AT_XINIX_CPU_FEATURES_LEN, x)),
                                 AT_XINIX_CPU_FEATURES_LEN, x, TRUE)
    BY <2>1, <1>9, OneMoreIf
  <2>4. Grown(v3, v4, AT_XINIX_CPU_FEATURES_LEN, 38, TRUE)
    BY <2>1, <2>2, <2>3
  <2>5. Len(v3) \in Nat
    BY <1>9
  <2> QED
    BY <2>1, <2>4, <2>5, <1>9 DEF Grown, AT_XINIX_CPU_FEATURES_LEN
<1> HIDE DEF v4
<1>11. /\ v5 \in Seq(Entry) /\ Once(v5) /\ Len(v5) <= 5
      /\ Told(v5) \subseteq {6, 8, 26, 80, 81}
      /\ Says(v5, 80, 80)
  <2>1. /\ AT_RANDOM \in Types \ Told(v4) /\ AT_RANDOM \in Nat
        /\ (RandSlowGetEntropy(l.features) # "nothing") \in BOOLEAN
    BY <1>10, <1>2, LoadersAssumption DEF Types, AT_RANDOM
  <2>2. v5 = v4 \o Optional(RandSlowGetEntropy(l.features) # "nothing", Aux(AT_RANDOM, AT_RANDOM))
    BY DEF Pointer
  <2> HIDE DEF v5
  <2>3. Grown(v4,
                  v4 \o Optional(RandSlowGetEntropy(l.features) # "nothing",
                      Aux(AT_RANDOM, AT_RANDOM)),
                  AT_RANDOM, AT_RANDOM, RandSlowGetEntropy(l.features) # "nothing")
    BY <2>1, <1>10, OneMoreIf
  <2>4. Grown(v4, v5, AT_RANDOM, AT_RANDOM, RandSlowGetEntropy(l.features) # "nothing")
    BY <2>2, <2>3, Zenon
  <2>5. Len(v4) \in Nat
    BY <1>10
  <2> QED
    BY <2>1, <2>4, <2>5, <1>10 DEF Grown, AT_RANDOM
<1> HIDE DEF v5
<1>12. /\ v6 \in Seq(Entry) /\ Once(v6) /\ Len(v6) <= 6
      /\ Told(v6) \subseteq {6, 8, 26, 80, 81, 101}
      /\ Says(v6, 80, 80)
  <2>1. /\ AT_KXINIX_HHDM_OFFSET \in Types \ Told(v5) /\ AT_KXINIX_HHDM_OFFSET \in Nat
        /\ TRUE \in BOOLEAN
    BY <1>11, <1>2, LoadersAssumption DEF Types, AT_KXINIX_HHDM_OFFSET
  <2>2. v6 = v5 \o Optional(TRUE, Aux(AT_KXINIX_HHDM_OFFSET, AT_KXINIX_HHDM_OFFSET))
    BY DEF Optional, Pointer
  <2> HIDE DEF v6
  <2>3. Grown(v5, v5 \o Optional(TRUE, Aux(AT_KXINIX_HHDM_OFFSET, AT_KXINIX_HHDM_OFFSET)),
                  AT_KXINIX_HHDM_OFFSET, AT_KXINIX_HHDM_OFFSET, TRUE)
    BY <2>1, <1>11, OneMoreIf
  <2>4. Grown(v5, v6, AT_KXINIX_HHDM_OFFSET, AT_KXINIX_HHDM_OFFSET, TRUE)
    BY <2>2, <2>3, Zenon
  <2>5. Len(v5) \in Nat
    BY <1>11
  <2> QED
    BY <2>1, <2>4, <2>5, <1>11 DEF Grown, AT_KXINIX_HHDM_OFFSET
<1> HIDE DEF v6
<1>13. /\ v7 \in Seq(Entry) /\ Once(v7) /\ Len(v7) <= 7
      /\ Told(v7) \subseteq {6, 8, 26, 80, 81, 100, 101}
      /\ Says(v7, 80, 80)
  <2>1. /\ AT_KXINIX_MEMMAP \in Types \ Told(v6) /\ AT_KXINIX_MEMMAP \in Nat
        /\ TRUE \in BOOLEAN
    BY <1>12, <1>2, LoadersAssumption DEF Types, AT_KXINIX_MEMMAP
  <2>2. v7 = v6 \o Optional(TRUE, Aux(AT_KXINIX_MEMMAP, AT_KXINIX_MEMMAP))
    BY DEF Optional, Pointer
  <2> HIDE DEF v7
  <2>3. Grown(v6, v6 \o Optional(TRUE, Aux(AT_KXINIX_MEMMAP, AT_KXINIX_MEMMAP)),
                  AT_KXINIX_MEMMAP, AT_KXINIX_MEMMAP, TRUE)
    BY <2>1, <1>12, OneMoreIf
  <2>4. Grown(v6, v7, AT_KXINIX_MEMMAP, AT_KXINIX_MEMMAP, TRUE)
    BY <2>2, <2>3, Zenon
  <2>5. Len(v6) \in Nat
    BY <1>12
  <2> QED
    BY <2>1, <2>4, <2>5, <1>12 DEF Grown, AT_KXINIX_MEMMAP
<1> HIDE DEF v7
<1>14. /\ v8 \in Seq(Entry) /\ Once(v8) /\ Len(v8) <= 8
      /\ Told(v8) \subseteq {6, 7, 8, 26, 80, 81, 100, 101}
      /\ Says(v8, 80, 80)
  <2>1. /\ AT_BASE \in Types \ Told(v7) /\ 0 \in Nat
        /\ TRUE \in BOOLEAN
    BY <1>13, <1>2, LoadersAssumption DEF Types, AT_BASE
  <2>2. v8 = v7 \o Optional(TRUE, Aux(AT_BASE, 0))
    BY DEF Optional
  <2> HIDE DEF v8
  <2>3. \A x \in Nat : Grown(v7, v7 \o Optional(TRUE, Aux(AT_BASE, x)), AT_BASE, x, TRUE)
    BY <2>1, <1>13, OneMoreIf
  <2>4. Grown(v7, v8, AT_BASE, 0, TRUE)
    BY <2>1, <2>2, <2>3
  <2>5. Len(v7) \in Nat
    BY <1>13
  <2> QED
    BY <2>1, <2>4, <2>5, <1>13 DEF Grown, AT_BASE
<1> HIDE DEF v8
<1>15. /\ v9 \in Seq(Entry) /\ Once(v9) /\ Len(v9) <= 9
      /\ Told(v9) \subseteq {6, 7, 8, 26, 80, 81, 100, 101, 104}
      /\ Says(v9, 80, 80)
      /\ (l.tsc_freq # 0 => Says(v9, 104, l.tsc_freq))
  <2>1. /\ AT_KXINIX_TSC_FREQ \in Types \ Told(v8) /\ l.tsc_freq \in Nat
        /\ (l.tsc_freq # 0) \in BOOLEAN
    BY <1>14, <1>2, LoadersAssumption DEF Types, AT_KXINIX_TSC_FREQ
  <2>2. v9 = v8 \o Optional(l.tsc_freq # 0, Aux(AT_KXINIX_TSC_FREQ, l.tsc_freq))
    OBVIOUS
  <2> HIDE DEF v9
  <2>3. Grown(v8, v8 \o Optional(l.tsc_freq # 0, Aux(AT_KXINIX_TSC_FREQ, l.tsc_freq)),
                  AT_KXINIX_TSC_FREQ, l.tsc_freq, l.tsc_freq # 0)
    BY <2>1, <1>14, OneMoreIf
  <2>4. Grown(v8, v9, AT_KXINIX_TSC_FREQ, l.tsc_freq, l.tsc_freq # 0)
    BY <2>2, <2>3, Zenon
  <2>5. Len(v8) \in Nat
    BY <1>14
  <2> QED
    BY <2>1, <2>4, <2>5, <1>14 DEF Grown, AT_KXINIX_TSC_FREQ
<1> HIDE DEF v9
<1>16. /\ v10 \in Seq(Entry) /\ Once(v10) /\ Len(v10) <= 10
      /\ Told(v10) \subseteq {6, 7, 8, 26, 80, 81, 96, 100, 101, 104}
      /\ Says(v10, 80, 80)
      /\ (l.tsc_freq # 0 => Says(v10, 104, l.tsc_freq))
  <2>1. /\ AT_KXINIX_FRAMEBUFFER \in Types \ Told(v9) /\ AT_KXINIX_FRAMEBUFFER \in Nat
        /\ (l.mode_count > 0) \in BOOLEAN
    BY <1>15, <1>2, LoadersAssumption DEF Types, AT_KXINIX_FRAMEBUFFER
  <2>2. v10 = v9 \o Optional(l.mode_count > 0, Aux(AT_KXINIX_FRAMEBUFFER, AT_KXINIX_FRAMEBUFFER))
    BY DEF Pointer
  <2> HIDE DEF v10
  <2>3. Grown(v9,
                  v9 \o Optional(l.mode_count > 0,
                      Aux(AT_KXINIX_FRAMEBUFFER, AT_KXINIX_FRAMEBUFFER)),
                  AT_KXINIX_FRAMEBUFFER, AT_KXINIX_FRAMEBUFFER, l.mode_count > 0)
    BY <2>1, <1>15, OneMoreIf
  <2>4. Grown(v9, v10, AT_KXINIX_FRAMEBUFFER, AT_KXINIX_FRAMEBUFFER, l.mode_count > 0)
    BY <2>2, <2>3, Zenon
  <2>5. Len(v9) \in Nat
    BY <1>15
  <2> QED
    BY <2>1, <2>4, <2>5, <1>15 DEF Grown, AT_KXINIX_FRAMEBUFFER
<1> HIDE DEF v10
<1>17. /\ v11 \in Seq(Entry) /\ Once(v11) /\ Len(v11) <= 11
      /\ Told(v11) \subseteq {6, 7, 8, 26, 80, 81, 96, 100, 101, 102, 104}
      /\ Says(v11, 80, 80)
      /\ (l.tsc_freq # 0 => Says(v11, 104, l.tsc_freq))
  <2>1. /\ AT_KXINIX_RSDT_ADDR \in Types \ Told(v10) /\ AT_KXINIX_RSDT_ADDR \in Nat
        /\ TRUE \in BOOLEAN
    BY <1>16, <1>2, LoadersAssumption DEF Types, AT_KXINIX_RSDT_ADDR
  <2>2. v11 = v10 \o Optional(TRUE, Aux(AT_KXINIX_RSDT_ADDR, AT_KXINIX_RSDT_ADDR))
    BY DEF Optional, Pointer
  <2> HIDE DEF v11
  <2>3. Grown(v10, v10 \o Optional(TRUE, Aux(AT_KXINIX_RSDT_ADDR, AT_KXINIX_RSDT_ADDR)),
                   AT_KXINIX_RSDT_ADDR, AT_KXINIX_RSDT_ADDR, TRUE)
    BY <2>1, <1>16, OneMoreIf
  <2>4. Grown(v10, v11, AT_KXINIX_RSDT_ADDR, AT_KXINIX_RSDT_ADDR, TRUE)
    BY <2>2, <2>3, Zenon
  <2>5. Len(v10) \in Nat
    BY <1>16
  <2> QED
    BY <2>1, <2>4, <2>5, <1>16 DEF Grown, AT_KXINIX_RSDT_ADDR
<1> HIDE DEF v11
<1>18. /\ v12 \in Seq(Entry) /\ Once(v12) /\ Len(v12) <= 12
      /\ Told(v12) \subseteq {6, 7, 8, 26, 80, 81, 96, 100, 101, 102, 103, 104}
      /\ Says(v12, 80, 80)
      /\ (l.tsc_freq # 0 => Says(v12, 104, l.tsc_freq))
      /\ IF l.new_rsdp THEN Says(v12, 103, 103) ELSE 103 \notin Told(v12)
  <2>1. /\ AT_KXINIX_XSDT_ADDR \in Types \ Told(v11) /\ AT_KXINIX_XSDT_ADDR \in Nat
        /\ l.new_rsdp \in BOOLEAN
    BY <1>17, <1>2, LoadersAssumption DEF Types, AT_KXINIX_XSDT_ADDR
  <2>2. v12 = v11 \o Optional(l.new_rsdp, Aux(AT_KXINIX_XSDT_ADDR, AT_KXINIX_XSDT_ADDR))
    BY DEF Pointer
  <2> HIDE DEF v12
  <2>3. Grown(v11, v11 \o Optional(l.new_rsdp, Aux(AT_KXINIX_XSDT_ADDR, AT_KXINIX_XSDT_ADDR)),
                   AT_KXINIX_XSDT_ADDR, AT_KXINIX_XSDT_ADDR, l.new_rsdp)
    BY <2>1, <1>17, OneMoreIf
  <2>4. Grown(v11, v12, AT_KXINIX_XSDT_ADDR, AT_KXINIX_XSDT_ADDR, l.new_rsdp)
    BY <2>2, <2>3, Zenon
  <2>5. Len(v11) \in Nat
    BY <1>17
  <2> QED
    BY <2>1, <2>4, <2>5, <1>17 DEF Grown, AT_KXINIX_XSDT_ADDR
<1> HIDE DEF v12
<1>19. Len(v12) < 16
  BY <1>18
<1> QED
  BY <1>18, <1>1, <1>19 DEF AT_XINIX_CPU_FEATURES_ARRAY, AT_KXINIX_TSC_FREQ, AT_KXINIX_XSDT_ADDR

-----------------------------------------------------------------------------
(* The loop at the entry of kmain: k entries of v are in f, and elsewhere  *)
(* f is still as it was.                                                   *)
AuxSlots == {t - 2 : t \in Types}
AuxValues == Nat \union {Garbage}

Copied(v, k, f, bss) ==
  /\ \A i \in 1..k : f[v[i].a_type - 2] = v[i].a_val
  /\ \A t \in Types : (\A i \in 1..k : v[i].a_type # t) => f[t - 2] = bss

LEMMA CopiedOneMore ==
  ASSUME NEW v \in Seq(Entry), Once(v), NEW k \in Nat, k < Len(v), NEW bss,
         NEW f \in [AuxSlots -> AuxValues], Copied(v, k, f, bss)
  PROVE  LET g == [f EXCEPT ![v[k + 1].a_type - 2] = v[k + 1].a_val]
         IN  g \in [AuxSlots -> AuxValues] /\ Copied(v, k + 1, g, bss)
<1> DEFINE t == v[k + 1].a_type
           g == [f EXCEPT ![t - 2] = v[k + 1].a_val]
<1>1. Len(v) \in Nat /\ \A i \in 1..(k + 1) : i \in 1..Len(v)
  OBVIOUS
<1>2. \A i \in 1..(k + 1) : v[i] \in Entry
  BY <1>1, ElementOfSeq
<1>3. k + 1 \in 1..(k + 1) /\ \A i \in 1..(k + 1) : i \in 1..k \/ i = k + 1
  OBVIOUS
<1>4. v[k + 1].a_type \in Types /\ v[k + 1].a_val \in Nat
  BY <1>2, <1>3 DEF Entry
<1>5. \A i \in 1..k : v[i].a_type \in Types /\ v[i].a_type # t /\ i \in 1..(k + 1)
  <2> SUFFICES ASSUME NEW i \in 1..k
               PROVE  v[i].a_type \in Types /\ v[i].a_type # t /\ i \in 1..(k + 1)
    OBVIOUS
  <2>1. i \in 1..(k + 1) /\ i # k + 1
    OBVIOUS
  <2>2. v[i] \in Entry
    BY <2>1, <1>2
  <2> QED
    BY <2>1, <2>2, <1>1, <1>3 DEF Once, Entry
<1>6. \A s \in Types : s \in Int /\ s - 2 \in AuxSlots
  BY DEF AuxSlots, Types
<1> HIDE DEF t
<1>7. t \in Types /\ t = v[k + 1].a_type
  BY <1>4 DEF t
<1>8. g \in [AuxSlots -> AuxValues] /\ g[t - 2] = v[k + 1].a_val
  BY <1>4, <1>6, <1>7 DEF AuxValues
<1>9. \A s \in Types \ {t} : g[s - 2] = f[s - 2]
  <2> SUFFICES ASSUME NEW s \in Types, s # t  PROVE g[s - 2] = f[s - 2]
    OBVIOUS
  <2>1. s - 2 # t - 2
    BY <1>6, <1>7
  <2> QED
    BY <2>1, <1>6
<1> HIDE DEF g
<1>10. \A i \in 1..(k + 1) : g[v[i].a_type - 2] = v[i].a_val
  BY <1>3, <1>5, <1>7, <1>8, <1>9 DEF Copied
<1>11. ASSUME NEW s \in Types, \A i \in 1..(k + 1) : v[i].a_type # s  PROVE g[s - 2] = bss
  <2>1. s # t
    BY <1>3, <1>7, <1>11
  <2>2. \A i \in 1..k : v[i].a_type # s
    BY <1>5, <1>11
  <2> QED
    BY <2>1, <2>2, <1>9 DEF Copied
<1>12. Copied(v, k + 1, g, bss)
  BY <1>10, <1>11 DEF Copied
<1> QED
  BY <1>8, <1>12 DEF g, t

(* What remains of v after its first k entries. *)
Remains(rest, v, k) ==
  /\ rest \in Seq(Entry) /\ Len(rest) + k = Len(v)
  /\ \A i \in 1..Len(rest) : rest[i] = v[k + i]

LEMMA RemainsOneLess ==
  ASSUME NEW v \in Seq(Entry), NEW k \in Nat, NEW rest, Remains(rest, v, k), rest # <<>>
  PROVE  k < Len(v) /\ Head(rest) = v[k + 1] /\ Remains(Tail(rest), v, k + 1)
<1>1. rest \in Seq(Entry) /\ Len(rest) + k = Len(v)
  BY DEF Remains
<1>2. PICK n \in Nat : Len(rest) = n + 1
  <2>1. Len(rest) \in Nat \ {0}
    BY <1>1, EmptySeq
  <2>2. Len(rest) - 1 \in Nat /\ Len(rest) = (Len(rest) - 1) + 1
    BY <2>1
  <2> QED
    BY <2>2
<1>3. Head(rest) = rest[1]
  BY <1>1
<1>4. /\ Tail(rest) \in Seq(Entry) /\ Len(Tail(rest)) = n
      /\ \A i \in 1..n : Tail(rest)[i] = rest[i + 1]
  BY <1>1, <1>2, HeadTailProperties
<1>5. \A i \in 1..(n + 1) : rest[i] = v[k + i]
  BY <1>2 DEF Remains
<1>6. \A i \in 1..n : Tail(rest)[i] = v[(k + 1) + i]
  <2> SUFFICES ASSUME NEW i \in 1..n  PROVE Tail(rest)[i] = v[(k + 1) + i]
    OBVIOUS
  <2>1. i + 1 \in 1..(n + 1) /\ k + (i + 1) = (k + 1) + i
    OBVIOUS
  <2> QED
    BY <2>1, <1>4, <1>5
<1>7. n + (k + 1) = Len(v) /\ k < Len(v) /\ 1 \in 1..(n + 1)
  BY <1>1, <1>2
<1> QED
  BY <1>3, <1>4, <1>5, <1>6, <1>7 DEF Remains

-----------------------------------------------------------------------------
Deaf == {"prekernel", "auxv"}

AuxInv ==
  /\ loader \in Loaders
  /\ auxent \in [AuxSlots -> AuxValues]
  /\ kpc = "prekernel" => Copied(Vector(loader), 0, auxent, loader.bss)
  /\ kpc = "auxv" =>
       \E k \in Nat : /\ Remains(auxv, Vector(loader), k)
                      /\ Copied(Vector(loader), k, auxent, loader.bss)
  /\ kpc \notin Deaf => Copied(Vector(loader), Len(Vector(loader)), auxent, loader.bss)

(* The entries of the vector are found, and nothing else is. *)
LEMMA Found ==
  ASSUME AuxInv, kpc \notin Deaf
  PROVE  LET v == Vector(loader) IN
         /\ Len(v) < 16
         /\ \A i \in DOMAIN v : getauxval(v[i].a_type) = v[i].a_val
         /\ \A t \in Types \ {v[i].a_type : i \in DOMAIN v} : getauxval(t) = loader.bss
         /\ \A t, x : Says(v, t, x) => getauxval(t) = x
         /\ \A t \in Types \ Told(v) : getauxval(t) = loader.bss
<1> DEFINE v == Vector(loader)
<1>1. v \in Seq(Entry) /\ Len(v) < 16
  BY VectorFacts DEF AuxInv
<1>2. DOMAIN v = 1..Len(v) /\ \A i \in 1..Len(v) : v[i].a_type \in Types
  <2> HIDE DEF v
  <2>1. DOMAIN v = 1..Len(v)
    BY <1>1
  <2>2. \A i \in 1..Len(v) : v[i] \in Entry
    BY <1>1, ElementOfSeq
  <2> QED
    BY <2>1, <2>2 DEF Entry
<1>3. Copied(v, Len(v), auxent, loader.bss)
  BY DEF AuxInv
<1>4. \A t \in Types : getauxval(t) = auxent[t - 2]
  BY DEF getauxval, Types
<1> HIDE DEF v
<1>5. \A i \in 1..Len(v) : getauxval(v[i].a_type) = v[i].a_val
  BY <1>2, <1>3, <1>4 DEF Copied
<1>6. \A t \in Types \ Told(v) : getauxval(t) = loader.bss
  BY <1>3, <1>4 DEF Copied, Told
<1>7. Told(v) = {v[i].a_type : i \in DOMAIN v}
  BY <1>2 DEF Told
<1>8. \A t, x : Says(v, t, x) => getauxval(t) = x
  BY <1>5 DEF Says
<1> QED
  BY <1>1, <1>2, <1>5, <1>6, <1>7, <1>8 DEF v

LEMMA InitAuxInv == KmainInit => AuxInv
<1> SUFFICES ASSUME KmainInit PROVE AuxInv
  OBVIOUS
<1>1. /\ loader \in Loaders /\ kpc = "prekernel"
      /\ auxent = [i \in AuxSlots |-> loader.bss]
  BY DEF KmainInit, StartupInit, AuxSlots
<1>2. loader.bss \in AuxValues
  BY <1>1, LoadersAssumption DEF AuxValues
<1>3. auxent \in [AuxSlots -> AuxValues]
  BY <1>1, <1>2
<1>4. \A t \in Types : t - 2 \in AuxSlots
  BY DEF AuxSlots
<1>5. Copied(Vector(loader), 0, auxent, loader.bss)
  BY <1>1, <1>4 DEF Copied
<1> QED
  BY <1>1, <1>3, <1>5 DEF AuxInv, Deaf

(* Each entry of the vector goes to its place. *)
LEMMA CopyAuxvKeeps == ASSUME AuxInv, CopyAuxv PROVE AuxInv'
<1> DEFINE v == Vector(loader)
<1>1. /\ kpc = "auxv" /\ loader' = loader /\ loader \in Loaders
      /\ auxent \in [AuxSlots -> AuxValues]
  BY DEF CopyAuxv, AuxInv
<1>2. v \in Seq(Entry) /\ Once(v)
  BY <1>1, VectorFacts
<1>3. PICK k \in Nat : Remains(auxv, v, k) /\ Copied(v, k, auxent, loader.bss)
  BY <1>1 DEF AuxInv
<1>4. Vector(loader') = v /\ loader'.bss = loader.bss
  BY <1>1
<1>5. CASE auxv # <<>>
  <2> HIDE DEF v
  <2>1. k < Len(v) /\ Head(auxv) = v[k + 1] /\ Remains(Tail(auxv), v, k + 1)
    BY <1>2, <1>3, <1>5, RemainsOneLess
  <2>2. v[k + 1].a_type # AT_IGNORE
    <3>1. k + 1 \in 1..Len(v)
      BY <1>2, <2>1
    <3>2. v[k + 1] \in Entry
      BY <1>2, <3>1, ElementOfSeq
    <3> QED
      BY <3>2 DEF Entry, Types, AT_IGNORE
  <2>3. /\ auxent' = [auxent EXCEPT ![v[k + 1].a_type - 2] = v[k + 1].a_val]
        /\ auxv' = Tail(auxv) /\ kpc' = "auxv"
    BY <1>1, <1>5, <2>1, <2>2 DEF CopyAuxv
  <2>4. auxent' \in [AuxSlots -> AuxValues] /\ Copied(v, k + 1, auxent', loader.bss)
    BY <1>1, <1>2, <1>3, <2>1, <2>3, CopiedOneMore
  <2>5. k + 1 \in Nat /\ Remains(auxv', v, k + 1)
    BY <2>1, <2>3
  <2>6. \E m \in Nat : /\ Remains(auxv', Vector(loader'), m)
                       /\ Copied(Vector(loader'), m, auxent', loader'.bss)
    BY <1>4, <2>4, <2>5
  <2> QED
    BY <1>1, <2>3, <2>4, <2>6 DEF AuxInv, Deaf
<1>6. CASE auxv = <<>>
  <2>1. k = Len(v)
    <3>1. Len(auxv) = 0
      BY <1>6
    <3> HIDE DEF v
    <3> QED
      BY <1>2, <1>3, <3>1 DEF Remains
  <2>2. kpc' = "features" /\ auxent' = auxent
    BY <1>6 DEF CopyAuxv
  <2> QED
    BY <1>1, <1>3, <1>4, <2>1, <2>2 DEF AuxInv, Deaf
<1> QED
  BY <1>5, <1>6

LEMMA CallKmainKeeps == ASSUME AuxInv, CallKmain PROVE AuxInv'
<1> DEFINE v == Vector(loader)
<1>1. /\ kpc = "prekernel" /\ kpc' = "auxv" /\ auxv' = v /\ loader' = loader /\ auxent' = auxent
      /\ loader \in Loaders
  BY DEF CallKmain, Go, AuxInv
<1>2. v \in Seq(Entry)
  BY <1>1, VectorFacts
<1>3. Remains(v, v, 0)
  <2> HIDE DEF v
  <2> QED
    BY <1>2 DEF Remains
<1>4. Copied(v, 0, auxent, loader.bss)
  BY <1>1 DEF AuxInv
<1> QED
  BY <1>1, <1>3, <1>4 DEF AuxInv, Deaf

(* Of what kmain is told no other step changes anything. *)
LEMMA OthersAuxInv ==
  ASSUME AuxInv, UNCHANGED <<loader, auxv, auxent>>, kpc' = kpc \/ {kpc, kpc'} \cap Deaf = {}
  PROVE  AuxInv'
<1>1. kpc' = kpc \/ (kpc \notin Deaf /\ kpc' \notin Deaf)
  OBVIOUS
<1>2. CASE kpc' = kpc
  BY <1>2 DEF AuxInv
<1>3. CASE kpc \notin Deaf /\ kpc' \notin Deaf
  BY <1>3 DEF AuxInv, Deaf
<1> QED
  BY <1>1, <1>2, <1>3

(* The other steps of kmain, as far as its first half is concerned. *)
Further == {"contexts", "tsc", "low", "high", "sti", "timer", "spurious", "prompt", "lost"}
LEMMA KmainStartupStep ==
  ASSUME [KmainNext]_all_vars
  PROVE  \/ UNCHANGED startup_vars
         \/ StartupStep
         \/ /\ UNCHANGED told_vars /\ kpc' \in Further
            /\ kpc \notin {"prekernel", "auxv", "features", "mode", "heap", "seed"}
<1>1. CASE UNCHANGED all_vars \/ Lost \/ FirstHalfFails \/ PrintContext
  BY <1>1 DEF Lost, FirstHalfFails, PrintContext, all_vars, boot_vars
<1>2. CASE FirstHalf
  BY <1>2 DEF FirstHalf
<1>3. CASE LoadArchState \/ InstallContext \/ InstallKeyboardIrq \/ Sti \/ SetupTimer
  BY <1>3 DEF LoadArchState, InstallContext, InstallKeyboardIrq, Sti, SetupTimer, Step, Go, Further
<1>4. CASE LoadSystemDescriptorTables
  BY <1>4 DEF LoadSystemDescriptorTables, Further, told_vars, startup_vars
<1>5. CASE KeyboardIrq \/ TimerIrq \/ SpuriousIrq \/ HandleInt \/ Others
  BY <1>5 DEF KeyboardIrq, TimerIrq, SpuriousIrq, HandleInt, Others, boot_vars
<1> QED
  BY <1>1, <1>2, <1>3, <1>4, <1>5 DEF KmainNext

LEMMA AuxInvStep == ASSUME AuxInv, [KmainNext]_all_vars PROVE AuxInv'
<1>1. CASE UNCHANGED startup_vars
  BY <1>1, OthersAuxInv DEF startup_vars
<1>2. CASE CallKmain \/ CopyAuxv
  BY <1>2, CallKmainKeeps, CopyAuxvKeeps
<1>3. CASE InitCpuidArray \/ PickMode \/ StartHeap \/ AllocContexts \/ SeedContext
             \/ InitTsc \/ ClonePageTable \/ LinkKernel
  <2>1. UNCHANGED <<loader, auxv, auxent>> /\ kpc \notin Deaf /\ kpc' \notin Deaf
    BY <1>3 DEF InitCpuidArray, PickMode, StartHeap, AllocContexts, SeedContext, InitTsc,
       ClonePageTable, LinkKernel, Go, Deaf
  <2> QED
    BY <2>1, OthersAuxInv
<1>4. CASE UNCHANGED told_vars /\ kpc' \in Further /\ kpc \notin Deaf
  <2>1. kpc' \notin Deaf
    BY <1>4 DEF Further, Deaf
  <2> QED
    BY <1>4, <2>1, OthersAuxInv DEF told_vars
<1> QED
  BY <1>1, <1>2, <1>3, <1>4, KmainStartupStep DEF StartupStep, Deaf

-----------------------------------------------------------------------------
(* What kmain makes of what it is told. *)
HeardInv ==
  /\ kpc \notin Deaf \union {"features"} => features = loader.features
  /\ kpc = "context" => kgen = RandSlowGetEntropy(loader.features)
  /\ ticks # 0 /\ loader.tsc_freq # 0 => ticks = loader.tsc_freq
  /\ kpc \in {"clone", "link", "tables"} => ticks # 0

LEMMA HeardInvStep ==
  ASSUME AuxInv, HeardInv, [KmainNext]_all_vars
  PROVE  HeardInv'
<1>1. CASE UNCHANGED startup_vars
  BY <1>1 DEF HeardInv, startup_vars
<1>2. CASE UNCHANGED told_vars /\ kpc' \in Further /\ kpc \notin Deaf \union {"features"}
  BY <1>2 DEF HeardInv, told_vars, Further, Deaf
<1>3. CASE CallKmain \/ CopyAuxv
  BY <1>3 DEF HeardInv, CallKmain, CopyAuxv, Go, Deaf
<1>4. CASE InitCpuidArray
  <2>1. getauxval(AT_XINIX_CPU_FEATURES_ARRAY) = AT_XINIX_CPU_FEATURES_ARRAY
    <3>1. kpc \notin Deaf
      BY <1>4 DEF InitCpuidArray, Go, Deaf
    <3>2. Says(Vector(loader), AT_XINIX_CPU_FEATURES_ARRAY, AT_XINIX_CPU_FEATURES_ARRAY)
      BY VectorFacts DEF AuxInv
    <3> QED
      BY <3>1, <3>2, Found
  <2> QED
    BY <1>4, <2>1 DEF HeardInv, InitCpuidArray, Go, Deaf
<1>5. CASE PickMode \/ StartHeap \/ AllocContexts
  BY <1>5 DEF HeardInv, PickMode, StartHeap, AllocContexts, Go, Deaf
<1>6. CASE SeedContext
  <2>1. features = loader.features
    BY <1>6 DEF HeardInv, SeedContext, Go, Deaf
  <2>2. kpc' = "context" => kgen' = RandSlowGetEntropy(loader.features)
    BY <1>6, <2>1 DEF SeedContext, Go
  <2> QED
    BY <1>6, <2>2 DEF HeardInv, SeedContext, Go, Deaf
<1>7. CASE InitTsc
  <2>1. kpc = "tsc" /\ kpc' = "clone" /\ ticks' = getauxval(AT_KXINIX_TSC_FREQ)
        /\ UNCHANGED <<loader, features>> /\ ~NoFrequency /\ ~DividesByZero
    BY <1>7 DEF InitTsc, Go
  <2>2. loader \in Loaders /\ loader.max_leaf \in Nat
    BY LoadersAssumption DEF AuxInv
  <2>3. ticks' # 0
    BY <2>1, <2>2 DEF NoFrequency, DividesByZero
  <2>4. loader.tsc_freq # 0 => ticks' = loader.tsc_freq
    <3>1. kpc \notin Deaf
      BY <2>1 DEF Deaf
    <3>2. loader.tsc_freq # 0 => Says(Vector(loader), AT_KXINIX_TSC_FREQ, loader.tsc_freq)
      BY <2>2, VectorFacts
    <3> QED
      BY <2>1, <3>1, <3>2, Found
  <2> QED
    BY <2>1, <2>3, <2>4 DEF HeardInv, Deaf
<1>8. CASE ClonePageTable \/ LinkKernel
  BY <1>8 DEF HeardInv, ClonePageTable, LinkKernel, Go, Deaf
<1> QED
  BY <1>1, <1>2, <1>3, <1>4, <1>5, <1>6, <1>7, <1>8, KmainStartupStep DEF StartupStep, Deaf

LEMMA HeardInvTheorem == KmainSpec => [](AuxInv /\ HeardInv)
<1>1. KmainInit => HeardInv
  BY DEF KmainInit, StartupInit, HeardInv, Deaf
<1>2. AuxInv /\ HeardInv /\ [KmainNext]_all_vars => (AuxInv /\ HeardInv)'
  BY AuxInvStep, HeardInvStep
<1> QED
  BY <1>1, <1>2, InitAuxInv, PTL DEF KmainSpec

(* The kernel goes by what the boot loader and the machine have said:      *)
(* every entry of call_kmain's vector is found under its type by           *)
(* getauxval, nothing else is, the generator is fed from the best source   *)
(* and the frequency of the TSC is the one given (kmain of main.c).        *)
THEOREM LoaderIsHeardTheorem == KmainSpec => []LoaderIsHeard
<1>1. AuxInv /\ HeardInv => LoaderIsHeard
  <2> SUFFICES ASSUME AuxInv, HeardInv PROVE LoaderIsHeard
    OBVIOUS
  <2>1. kpc \notin {"prekernel", "auxv"} =>
          LET v == Vector(loader) IN
          /\ Len(v) < 16
          /\ \A i \in DOMAIN v : getauxval(v[i].a_type) = v[i].a_val
          /\ \A t \in Types \ {v[i].a_type : i \in DOMAIN v} : getauxval(t) = loader.bss
    BY Found, Zenon DEF Deaf
  <2>2. /\ kpc = "context" => kgen = RandSlowGetEntropy(loader.features)
        /\ ticks # 0 /\ loader.tsc_freq # 0 => ticks = loader.tsc_freq
        /\ kpc \in {"clone", "link", "tables"} => ticks # 0
    BY DEF HeardInv
  <2> QED
    BY <2>1, <2>2, Zenon DEF LoaderIsHeard
<1> QED
  BY <1>1, HeardInvTheorem, PTL

-----------------------------------------------------------------------------
(* The tables and the local APIC. There is a MADT among the tables to come *)
(* until lapic is known.                                                   *)
Listed == {Root(machine)[i] : i \in DOMAIN Root(machine)}

TablesInv ==
  /\ machine \in Machines /\ loader.new_rsdp = machine.has_xsdt
  /\ apc # "root" => tables \in Seq(Listed)
  /\ \/ lapic # Null \/ apc = "root"
     \/ apc = "table" /\ \E i \in 1..Len(tables) : IsMadt(tables[i])
  /\ kpc \in Read => lapic # Null

FlagInv ==
  /\ iflag => kpc \in Late
  /\ \A k \in 1..Len(interrupted) : interrupted[k].flag => kpc \in Late

LEMMA MachineFacts ==
  ASSUME NEW m \in Machines
  PROVE  /\ Root(m) \in Seq({Root(m)[i] : i \in DOMAIN Root(m)})
         /\ \E i \in 1..Len(Root(m)) : IsMadt(Root(m)[i])
         /\ \A t \in {Root(m)[i] : i \in DOMAIN Root(m)} : IsMadt(t) => t.local_apic # Null
<1> DEFINE root == Root(m)
           S == {root[i] : i \in DOMAIN root}
<1>1. /\ root \in Seq(S) /\ \E i \in DOMAIN root : IsMadt(root[i])
      /\ \A i \in DOMAIN root : IsMadt(root[i]) => root[i].local_apic # Null
  BY MachinesAssumption DEF IsList
<1>2. \A t \in S : IsMadt(t) => t.local_apic # Null
  BY <1>1
<1> HIDE DEF root
<1>3. DOMAIN root = 1..Len(root)
  <2> HIDE DEF S
  <2> QED
    BY <1>1
<1> QED
  BY <1>1, <1>2, <1>3 DEF root

(* The tables are those that the machine's root lists: the address of the  *)
(* XSDT is given if there is one, and null if not.                         *)
LEMMA RightRoot ==
  ASSUME AuxInv, TablesInv, kpc = "tables",
         getauxval(AT_KXINIX_XSDT_ADDR) # Garbage
  PROVE  (getauxval(AT_KXINIX_XSDT_ADDR) # Null) = machine.has_xsdt
<1> DEFINE a == getauxval(AT_KXINIX_XSDT_ADDR)
<1>1. kpc \notin Deaf /\ loader \in Loaders /\ AT_KXINIX_XSDT_ADDR \in Types
  BY DEF AuxInv, Deaf, Types, AT_KXINIX_XSDT_ADDR
<1>2. /\ loader.bss \in {0, Garbage} /\ loader.new_rsdp \in BOOLEAN
      /\ loader.new_rsdp = machine.has_xsdt
  BY <1>1, LoadersAssumption DEF TablesInv
<1>3. CASE loader.new_rsdp = TRUE
  <2>1. Says(Vector(loader), AT_KXINIX_XSDT_ADDR, AT_KXINIX_XSDT_ADDR)
    BY <1>1, <1>3, VectorFacts
  <2>2. a = AT_KXINIX_XSDT_ADDR
    BY <1>1, <2>1, Found
  <2>3. a # Null
    BY <2>2 DEF AT_KXINIX_XSDT_ADDR, Null
  <2> QED
    BY <1>2, <1>3, <2>3
<1>4. CASE loader.new_rsdp = FALSE
  <2>1. AT_KXINIX_XSDT_ADDR \notin Told(Vector(loader))
    BY <1>1, <1>4, VectorFacts
  <2>2. a = loader.bss
    BY <1>1, <2>1, Found
  <2>3. a = Null
    BY <1>2, <2>2 DEF Null
  <2> QED
    BY <1>2, <1>4, <2>3
<1> QED
  BY <1>2, <1>3, <1>4

LEMMA TablesInvStep ==
  ASSUME AuxInv, TablesInv, [KmainNext]_all_vars
  PROVE  TablesInv'
<1>1. machine \in Machines
  BY DEF TablesInv
<1>2. CASE LoadSystemDescriptorTables
  <2>1. kpc = "tables" /\ UNCHANGED loader
    BY <1>2 DEF LoadSystemDescriptorTables, told_vars
  <2>2. CASE kpc' = "lost" /\ UNCHANGED acpi_vars
    BY <2>1, <2>2 DEF TablesInv, Listed, acpi_vars, madt_vars, Read, Late
  <2> DEFINE a == getauxval(AT_KXINIX_XSDT_ADDR)
  <2>3. CASE /\ LoadTables(a) /\ kpc' = IF apc' = "done" THEN "low" ELSE "tables"
             /\ ~(apc = "root" /\ a = Garbage)
    <3>1. UNCHANGED machine /\ Listed' = Listed
      BY <2>3 DEF LoadTables, LoadRoot, OtherSdt, LoadMadt, CountRecord, AllocIoapics,
         PopulateRecord, MadtEnds, LoadFadt, TablesEnd, HandleSdt, Listed
    <3>2. kpc' \in Read => apc' = "done"
      BY <2>3 DEF Read, Late
    <3>3. CASE LoadRoot(a)
      <4>1. tables' = Root(machine) /\ apc' = "table"
        BY <2>1, <2>3, <3>3, RightRoot DEF LoadRoot, Root
      <4>2. tables' \in Seq(Listed) /\ \E i \in 1..Len(tables') : IsMadt(tables'[i])
        BY <1>1, <4>1, MachineFacts DEF Listed
      <4> QED
        BY <2>1, <3>1, <3>2, <4>1, <4>2 DEF TablesInv
    <3>4. CASE OtherSdt \/ LoadMadt \/ LoadFadt
      <4>1. /\ apc = "table" /\ tables # <<>> /\ tables' = Tail(tables)
            /\ tables \in Seq(Listed)
        BY <3>4 DEF OtherSdt, LoadMadt, LoadFadt, HandleSdt, TablesInv
      <4>2. /\ Head(tables) \in Listed /\ Tail(tables) \in Seq(Listed)
            /\ Len(Tail(tables)) = Len(tables) - 1
            /\ \A i \in 1..Len(Tail(tables)) : Tail(tables)[i] = tables[i + 1]
            /\ Head(tables) = tables[1] /\ Len(tables) \in Nat \ {0}
        BY <4>1, HeadTailProperties, EmptySeq
      <4>3. CASE LoadMadt
        <5>1. lapic' = Head(tables).local_apic /\ IsMadt(Head(tables)) /\ apc' = "count"
          BY <4>3 DEF LoadMadt, HandleSdt, IsMadt
        <5>2. lapic' # Null
          BY <1>1, <4>2, <5>1, MachineFacts DEF Listed
        <5> QED
          BY <2>1, <3>1, <3>2, <4>1, <4>2, <5>1, <5>2 DEF TablesInv
      <4>4. CASE OtherSdt \/ LoadFadt
        <5>1. ~IsMadt(Head(tables)) /\ UNCHANGED <<apc, lapic>>
          BY <4>4 DEF OtherSdt, LoadFadt, HandleSdt, IsMadt, madt_vars
        <5>2. ASSUME NEW i \in 1..Len(tables), IsMadt(tables[i])
              PROVE  \E j \in 1..Len(Tail(tables)) : IsMadt(Tail(tables)[j])
          <6>1. i # 1
            BY <4>2, <5>1, <5>2
          <6>2. i - 1 \in 1..Len(Tail(tables)) /\ (i - 1) + 1 = i
            BY <4>2, <6>1
          <6> QED
            BY <4>2, <5>2, <6>2
        <5>3. lapic' # Null \/ \E j \in 1..Len(tables') : IsMadt(tables'[j])
          BY <4>1, <5>1, <5>2 DEF TablesInv
        <5> QED
          BY <2>1, <3>1, <3>2, <4>1, <4>2, <5>1, <5>3 DEF TablesInv
      <4> QED
        BY <3>4, <4>3, <4>4
    <3>5. CASE CountRecord \/ AllocIoapics \/ PopulateRecord \/ MadtEnds
      <4>1. apc \in {"count", "populate"} /\ apc' \in {"count", "populate", "table"}
            /\ UNCHANGED <<tables, lapic>>
        BY <3>5 DEF CountRecord, AllocIoapics, PopulateRecord, MadtEnds, madt_vars
      <4>2. lapic # Null /\ tables \in Seq(Listed)
        BY <4>1 DEF TablesInv
      <4> QED
        BY <2>1, <3>1, <3>2, <4>1, <4>2 DEF TablesInv
    <3>6. CASE TablesEnd
      <4>1. apc = "table" /\ tables = <<>> /\ UNCHANGED <<tables, lapic>> /\ apc' = "done"
        BY <3>6 DEF TablesEnd, madt_vars
      <4>2. Len(tables) = 0
        BY <4>1
      <4>3. lapic # Null /\ tables \in Seq(Listed)
        BY <4>1, <4>2 DEF TablesInv
      <4> QED
        BY <2>1, <3>1, <4>1, <4>3 DEF TablesInv
    <3> QED
      BY <2>3, <3>3, <3>4, <3>5, <3>6 DEF LoadTables
  <2> QED
    BY <1>2, <2>2, <2>3 DEF LoadSystemDescriptorTables
<1>3. CASE InstallKeyboardIrq
  <2>1. UNCHANGED <<machine, apc, tables, lapic, loader>> /\ lapic # Null
    BY <1>3 DEF InstallKeyboardIrq, Step, Go, told_vars, WriteLow, WriteHigh, madt_vars,
       TablesInv, Read
  <2> QED
    BY <2>1 DEF TablesInv, Listed
<1>4. ASSUME UNCHANGED <<acpi_vars, loader>>, kpc' \in Read => kpc \in Read
      PROVE  TablesInv'
  BY <1>4 DEF TablesInv, Listed, acpi_vars, madt_vars
<1>5. CASE UNCHANGED all_vars \/ Lost
  BY <1>4, <1>5 DEF Lost, all_vars, boot_vars, startup_vars
<1>6. CASE FirstHalf
  BY <1>4, <1>6 DEF FirstHalf, StartupStep, CallKmain, CopyAuxv, InitCpuidArray, PickMode,
     StartHeap, AllocContexts, SeedContext, InitTsc, ClonePageTable, LinkKernel, Go, Read, Late
<1>7. CASE LoadArchState \/ InstallContext \/ Sti \/ SetupTimer
  BY <1>4, <1>7 DEF LoadArchState, InstallContext, Sti, SetupTimer, Step, Go, told_vars, Read, Late
<1>8. CASE FirstHalfFails \/ PrintContext \/ SpuriousIrq \/ Others
  BY <1>4, <1>8 DEF FirstHalfFails, PrintContext, SpuriousIrq, Others, boot_vars, startup_vars
<1>9. CASE KeyboardIrq \/ TimerIrq \/ HandleInt
  BY <1>4, <1>9 DEF KeyboardIrq, TimerIrq, HandleInt, startup_vars
<1> QED
  BY <1>2, <1>3, <1>5, <1>6, <1>7, <1>8, <1>9 DEF KmainNext

LEMMA TablesInvTheorem == KmainSpec => [](AuxInv /\ TablesInv)
<1>1. KmainInit => TablesInv
  BY DEF KmainInit, StartupInit, AcpiInit, TablesInv, Read, Late
<1>2. AuxInv /\ TablesInv /\ [KmainNext]_all_vars => (AuxInv /\ TablesInv)'
  BY AuxInvStep, TablesInvStep
<1> QED
  BY <1>1, <1>2, InitAuxInv, PTL DEF KmainSpec

-----------------------------------------------------------------------------
LEMMA LateStays == ASSUME [KmainNext]_all_vars, kpc \in Late PROVE kpc' \in Late
<1>1. CASE UNCHANGED kpc
  BY <1>1
<1>2. CASE SetupTimer
  BY <1>2 DEF SetupTimer, Step, Go, Late
<1>3. ~StartupStep
  BY DEF StartupStep, CallKmain, CopyAuxv, InitCpuidArray, PickMode, StartHeap, AllocContexts,
     SeedContext, InitTsc, ClonePageTable, LinkKernel, Go, Late
<1>4. ~FirstHalf /\ ~LoadArchState /\ ~InstallContext /\ ~LoadSystemDescriptorTables
      /\ ~InstallKeyboardIrq /\ ~Sti
  BY <1>3 DEF FirstHalf, LoadArchState, InstallContext, LoadSystemDescriptorTables,
     InstallKeyboardIrq, Sti, Step, Go, Late
<1>5. CASE UNCHANGED all_vars \/ Lost \/ FirstHalfFails \/ PrintContext \/ SpuriousIrq \/ Others
  BY <1>1, <1>5 DEF Lost, FirstHalfFails, PrintContext, SpuriousIrq, Others, all_vars, boot_vars,
     startup_vars
<1>6. CASE KeyboardIrq \/ TimerIrq \/ HandleInt
  BY <1>1, <1>6 DEF KeyboardIrq, TimerIrq, HandleInt, startup_vars
<1> QED
  BY <1>2, <1>4, <1>5, <1>6 DEF KmainNext

LEMMA FlagInvStep ==
  ASSUME StubInv, FlagInv, [KmainNext]_all_vars
  PROVE  FlagInv'
<1>1. interrupted \in Seq(Level) /\ iflag \in BOOLEAN
  BY DEF StubInv, TypeInv
<1> DEFINE n == Len(interrupted)
<1>2. CASE kpc' \in Late
  BY <1>2 DEF FlagInv
<1>3. CASE kpc' \notin Late
  <2>1. kpc \notin Late
    BY <1>3, LateStays
  <2>2. iflag = FALSE /\ \A k \in 1..n : ~interrupted[k].flag
    BY <1>1, <2>1 DEF FlagInv
  <2>3. StubStep
    BY KmainStubStep
  <2>4. ASSUME NEW rip, interrupted' = Append(interrupted,
                 [cpu |-> cpu, rip |-> rip, flag |-> iflag, depth |-> Len(stack)])
        PROVE  \A k \in 1..Len(interrupted') : ~interrupted'[k].flag
    <3> DEFINE level == [cpu |-> cpu, rip |-> rip, flag |-> iflag, depth |-> Len(stack)]
    <3>1. level.flag = FALSE
      BY <2>2
    <3> HIDE DEF level
    <3>2. /\ Len(interrupted') = n + 1 /\ n \in Nat /\ interrupted'[n + 1] = level
          /\ \A k \in 1..n : interrupted'[k] = interrupted[k]
      BY <1>1, <2>4 DEF level
    <3>3. \A k \in 1..(n + 1) : k \in 1..n \/ k = n + 1
      BY <3>2
    <3> QED
      BY <2>2, <3>1, <3>2, <3>3, Zenon
  <2>5. CASE UNCHANGED <<interrupted, iflag>>
    BY <2>2, <2>5 DEF FlagInv
  <2>6. CASE \E v \in Nat \ {BP} : Enter(v)
    <3>1. iflag' = FALSE
      BY <2>6 DEF Enter, Gate
    <3>2. \A k \in 1..Len(interrupted') : ~interrupted'[k].flag
      BY <2>4, <2>6 DEF Enter
    <3> QED
      BY <3>1, <3>2 DEF FlagInv
  <2>7. CASE Hcf
    <3>1. iflag' = FALSE
      BY <2>7 DEF Hcf, Gate
    <3>2. \A k \in 1..Len(interrupted') : ~interrupted'[k].flag
      BY <2>4, <2>7 DEF Hcf
    <3> QED
      BY <3>1, <3>2 DEF FlagInv
  <2>8. CASE Iretq
    <3>1. pc # "thread" /\ interrupted' = Front(interrupted)
      BY <2>8 DEF Iretq
    <3>2. interrupted # <<>> /\ n \in Nat \ {0}
      BY <3>1, NowFacts
    <3>3. iflag' = interrupted[n].flag
      BY <2>8, IretqResumes DEF Now
    <3>4. Len(interrupted') = n - 1 /\ \A k \in 1..(n - 1) : interrupted'[k] = interrupted[k]
      BY <1>1, <3>1, <3>2, FrontFacts
    <3>5. n \in 1..n /\ \A k \in 1..(n - 1) : k \in 1..n
      BY <3>2
    <3>6. ~iflag' /\ \A k \in 1..Len(interrupted') : ~interrupted'[k].flag
      BY <2>2, <3>3, <3>4, <3>5, Zenon
    <3> QED
      BY <3>6 DEF FlagInv
  <2>9. CASE Stub /\ ~Iretq
    BY <2>5, <2>9 DEF Stub, SwapgsIn, SaveGprs, PopFrame, SaveBases, SaveDregs, RestoreDregs,
       PushFrame, RestoreBases, RestoreGprs
  <2>10. CASE UNCHANGED own_vars \/ Thread \/ Handler
    BY <2>5, <2>10 DEF own_vars, Thread, Handler
  <2> QED
    BY <1>3, <2>3, <2>6, <2>7, <2>8, <2>9, <2>10 DEF StubStep
<1> QED
  BY <1>2, <1>3

LEMMA ServiceInvStep ==
  ASSUME StubInv, TablesInv, FlagInv, ServiceInv, [KmainNext]_all_vars
  PROVE  ServiceInv'
<1>1. iflag => pc = "thread" /\ lapic # Null
  BY DEF StubInv, LevelsInv, FlagInv, TablesInv, Read
<1>2. pc \in {"thread", "hcf", "trap"} => in_service = {}
  BY DEF ServiceInv, WayIn
<1>3. CASE UNCHANGED in_service /\ in_service = {}
  BY <1>3 DEF ServiceInv
<1>4. CASE KeyboardIrq
  <2>1. in_service' = {IRQ_KB} /\ pc' = "swapgs" /\ vector' = IRQ_KB /\ lapic' # Null
    BY <1>1, <1>2, <1>4 DEF KeyboardIrq, Interrupt, Enter, acpi_vars, madt_vars
  <2> QED
    BY <2>1 DEF ServiceInv, WayIn
<1>5. CASE TimerIrq
  <2>1. in_service' = {IRQ_TIMER} /\ pc' = "swapgs" /\ vector' = IRQ_TIMER /\ lapic' # Null
    BY <1>1, <1>2, <1>5 DEF TimerIrq, Interrupt, Enter, acpi_vars, madt_vars
  <2> QED
    BY <2>1 DEF ServiceInv, WayIn
<1>6. CASE HandleInt
  <2>1. CASE in_service = {}
    BY <1>6, <2>1 DEF HandleInt, ServiceInv
  <2>2. CASE in_service # {}
    <3>1. vector \in {IRQ_KB, IRQ_TIMER} /\ in_service = {vector} /\ lapic # Null
      BY <2>2 DEF ServiceInv
    <3>2. in_service' = {vector} \ {v \in {vector} : \A w \in {vector} : w <= v}
      BY <1>6, <3>1 DEF HandleInt, Acknowledges
    <3>3. vector <= vector
      BY <3>1 DEF IRQ_KB, IRQ_TIMER
    <3>4. in_service' = {}
      BY <3>2, <3>3
    <3> QED
      BY <3>4 DEF ServiceInv
  <2> QED
    BY <2>1, <2>2
<1>7. CASE Others
  <2>1. CASE Stub
    <3>1. UNCHANGED <<lapic, in_service>>
      BY <1>7 DEF Others, acpi_vars, madt_vars, boot_vars
    <3>2. pc \in WayIn \union {"handler"} =>
            pc' \in WayIn \union {"handler"} /\ vector' = vector
      BY <2>1 DEF Stub, SwapgsIn, SaveGprs, PopFrame, SaveBases, SaveDregs, RestoreDregs,
         PushFrame, RestoreBases, RestoreGprs, Iretq, At, WayIn
    <3> QED
      BY <3>1, <3>2 DEF ServiceInv
  <2>2. CASE ~Stub
    <3>1. pc \in {"thread", "hcf", "trap"} /\ UNCHANGED in_service
      BY <1>7, <2>2 DEF Others, Thread, Exception, Trap, boot_vars
    <3> QED
      BY <3>1, <1>2, <1>3
  <2> QED
    BY <2>1, <2>2
<1>8. CASE UNCHANGED all_vars \/ Lost
  BY <1>8 DEF Lost, all_vars, vars, acpi_vars, madt_vars, boot_vars, ServiceInv
<1>9. CASE SpuriousIrq
  BY <1>1, <1>2, <1>3, <1>9 DEF SpuriousIrq, Interrupt, boot_vars
<1>10. CASE FirstHalf \/ FirstHalfFails \/ PrintContext \/ LoadSystemDescriptorTables
  BY <1>2, <1>3, <1>10 DEF FirstHalf, FirstHalfFails, PrintContext, Software,
     LoadSystemDescriptorTables, boot_vars
<1>11. CASE LoadArchState \/ InstallContext \/ InstallKeyboardIrq \/ Sti \/ SetupTimer
  BY <1>2, <1>3, <1>11 DEF LoadArchState, InstallContext, InstallKeyboardIrq, Sti, SetupTimer, Step
<1> QED
  BY <1>4, <1>5, <1>6, <1>7, <1>8, <1>9, <1>10, <1>11 DEF KmainNext

(* When the thread goes on, the local APIC waits for no end of an          *)
(* interrupt (keyboard_irq and timer_irq of main.c, which write to it      *)
(* through ctx->lapic), for any machine with a MADT.                       *)
THEOREM AcknowledgedTheorem == KmainSpec => []Acknowledged
<1>1. KmainInit => FlagInv /\ ServiceInv
  BY DEF KmainInit, Init, FlagInv, ServiceInv
<1>2. StubInv /\ TablesInv /\ FlagInv /\ ServiceInv /\ [KmainNext]_all_vars
        => (FlagInv /\ ServiceInv)'
  BY FlagInvStep, ServiceInvStep
<1>3. StubInv /\ ServiceInv => Acknowledged
  BY DEF StubInv, LevelsInv, ServiceInv, Acknowledged, WayIn
<1> QED
  BY <1>1, <1>2, <1>3, StubInvTheorem, TablesInvTheorem, PTL DEF KmainSpec

-----------------------------------------------------------------------------
(* The two passes over the MADT. Once it is loaded no other comes, so that *)
(* the count starts from nothing; and what the second pass has still to    *)
(* find is what is free of the array.                                      *)
Ahead == \E i \in 1..Len(tables) : IsMadt(tables[i])
Named(i) == ioapics[i].register_base # Null /\ Page(ioapics[i].register_base) \in mapped
Counted(record) == IF IsIoapic(record) THEN 1 ELSE 0
Among(first, last) == Cardinality(IoapicsAmong(first..last))

PassesInv ==
  /\ num_ioapics \in Nat /\ Len(ioapics) \in Nat /\ DOMAIN ioapics = 1..Len(ioapics)
  /\ apc # "root" =>
       \A i, j \in 1..Len(tables) : IsMadt(tables[i]) /\ IsMadt(tables[j]) => i = j
  /\ apc = "root" \/ (apc = "table" /\ Ahead) => num_ioapics = 0 /\ ioapics = <<>>
  /\ apc \in {"count", "populate"} =>
       /\ ~Ahead /\ Len(madt) \in Nat /\ pos \in 1..(Len(madt) + 1)
       /\ \A i \in 1..Len(madt) : IsIoapic(madt[i]) => madt[i].address # Null
  /\ apc = "count" => num_ioapics = Among(1, pos - 1)
  /\ apc = "populate" => Len(ioapics) = num_ioapics + Among(pos, Len(madt))
  /\ apc \in {"table", "done"} => Len(ioapics) = num_ioapics
  /\ apc # "count" => \A i \in 1..num_ioapics : Named(i)

LEMMA AmongFinite ==
  ASSUME NEW a \in Nat, NEW b \in Nat
  PROVE  /\ IsFiniteSet(IoapicsAmong(a..b)) /\ Among(a, b) \in Nat
         /\ b < a => Among(a, b) = 0
<1>1. IsFiniteSet(a..b)
  BY FS_Interval
<1>2. IoapicsAmong(a..b) \subseteq a..b
  BY DEF IoapicsAmong
<1>3. IsFiniteSet(IoapicsAmong(a..b)) /\ Cardinality(IoapicsAmong(a..b)) \in Nat
  BY <1>1, <1>2, FS_Subset, FS_CardinalityType
<1>4. ASSUME b < a PROVE Cardinality(IoapicsAmong(a..b)) = 0
  <2>1. IoapicsAmong(a..b) = {}
    BY <1>2, <1>4
  <2> QED
    BY <2>1, FS_EmptySet
<1> QED
  BY <1>3, <1>4 DEF Among

LEMMA FoundMore ==
  ASSUME NEW F, NEW G, NEW x, IsFiniteSet(F), x \notin F,
         IsIoapic(madt[x]) => G = F \union {x}, ~IsIoapic(madt[x]) => G = F
  PROVE  Cardinality(G) = Cardinality(F) + Counted(madt[x])
<1>1. Cardinality(F) \in Nat
  BY FS_CardinalityType
<1>2. CASE IsIoapic(madt[x])
  BY <1>1, <1>2, FS_AddElement DEF Counted
<1>3. CASE ~IsIoapic(madt[x])
  BY <1>1, <1>3 DEF Counted
<1> QED
  BY <1>2, <1>3

LEMMA AmongLast ==
  ASSUME NEW a \in Nat, NEW b \in Nat, a <= b + 1
  PROVE  Among(a, b + 1) = Among(a, b) + Counted(madt[b + 1])
<1> DEFINE F == IoapicsAmong(a..b)
           G == IoapicsAmong(a..(b + 1))
           x == b + 1
<1>1. IsFiniteSet(F)
  BY AmongFinite
<1>2. a..(b + 1) = (a..b) \union {x} /\ x \notin a..b
  OBVIOUS
<1>3. x \notin F /\ (IsIoapic(madt[x]) => G = F \union {x}) /\ (~IsIoapic(madt[x]) => G = F)
  <2> HIDE DEF x
  <2> QED
    BY <1>2 DEF IoapicsAmong
<1>4. Cardinality(G) = Cardinality(F) + Counted(madt[x])
  <2> HIDE DEF F, G, x
  <2> QED
    BY <1>1, <1>3, FoundMore
<1> QED
  BY <1>4 DEF Among

LEMMA AmongFirst ==
  ASSUME NEW a \in Nat, NEW b \in Nat, a <= b
  PROVE  Among(a, b) = Among(a + 1, b) + Counted(madt[a])
<1> DEFINE F == IoapicsAmong((a + 1)..b)
           G == IoapicsAmong(a..b)
<1>1. IsFiniteSet(F)
  BY AmongFinite
<1>2. a..b = ((a + 1)..b) \union {a} /\ a \notin (a + 1)..b
  OBVIOUS
<1>3. a \notin F /\ (IsIoapic(madt[a]) => G = F \union {a}) /\ (~IsIoapic(madt[a]) => G = F)
  BY <1>2 DEF IoapicsAmong
<1>4. Cardinality(G) = Cardinality(F) + Counted(madt[a])
  <2> HIDE DEF F, G
  <2> QED
    BY <1>1, <1>3, FoundMore
<1> QED
  BY <1>4 DEF Among

LEMMA LenOf == ASSUME NEW n \in Nat, NEW f, f = [i \in 1..n |-> f[i]] PROVE Len(f) = n
  OBVIOUS

LEMMA MadtFacts ==
  ASSUME NEW m \in Machines
  PROVE  /\ \A i, j \in 1..Len(Root(m)) : IsMadt(Root(m)[i]) /\ IsMadt(Root(m)[j]) => i = j
         /\ \A t \in {Root(m)[i] : i \in DOMAIN Root(m)} : IsMadt(t) =>
              /\ Len(t.records) \in Nat
              /\ \A j \in 1..Len(t.records) :
                   IsIoapic(t.records[j]) => t.records[j].address # Null
<1> DEFINE root == Root(m)
           S == {root[i] : i \in DOMAIN root}
<1>1. \A i \in DOMAIN root : IsMadt(root[i]) =>
        /\ \A j \in DOMAIN root : IsMadt(root[j]) => i = j
        /\ IsList(root[i].records)
        /\ \A j \in DOMAIN root[i].records :
             IsIoapic(root[i].records[j]) => root[i].records[j].address # Null
  BY MadtAssumption
<1>2. root \in Seq(S)
  BY MachineFacts
<1>3. DOMAIN root = 1..Len(root)
  <2> HIDE DEF root, S
  <2> QED
    BY <1>2
<1>4. ASSUME NEW r, IsList(r) PROVE DOMAIN r = 1..Len(r) /\ Len(r) \in Nat
  <2> DEFINE R == {r[i] : i \in DOMAIN r}
  <2>1. r \in Seq(R)
    BY <1>4 DEF IsList
  <2> HIDE DEF R
  <2> QED
    BY <2>1
<1>5. ASSUME NEW t \in S, IsMadt(t)
      PROVE  /\ Len(t.records) \in Nat
             /\ \A j \in 1..Len(t.records) :
                  IsIoapic(t.records[j]) => t.records[j].address # Null
  <2>1. /\ IsList(t.records)
        /\ \A j \in DOMAIN t.records : IsIoapic(t.records[j]) => t.records[j].address # Null
    BY <1>1, <1>5
  <2> QED
    BY <1>4, <2>1
<1> QED
  BY <1>1, <1>3, <1>5

found_vars == <<apc, tables, madt, pos, num_ioapics, ioapics, mapped>>

LEMMA AcpiStep ==
  ASSUME [KmainNext]_all_vars
  PROVE  \/ UNCHANGED found_vars
         \/ /\ kpc = "tables" /\ LoadTables(getauxval(AT_KXINIX_XSDT_ADDR))
            /\ ~(apc = "root" /\ getauxval(AT_KXINIX_XSDT_ADDR) = Garbage)
<1> USE DEF found_vars, acpi_vars, madt_vars
<1>1. CASE LoadSystemDescriptorTables
  BY <1>1 DEF LoadSystemDescriptorTables
<1>2. CASE InstallKeyboardIrq
  BY <1>2 DEF InstallKeyboardIrq, WriteLow, WriteHigh
<1>3. CASE UNCHANGED all_vars \/ Lost
  BY <1>3 DEF Lost, all_vars
<1>4. CASE FirstHalf \/ FirstHalfFails \/ PrintContext \/ SpuriousIrq \/ Others
  BY <1>4 DEF FirstHalf, FirstHalfFails, PrintContext, SpuriousIrq, Others
<1>5. CASE LoadArchState \/ InstallContext \/ Sti \/ SetupTimer
  BY <1>5 DEF LoadArchState, InstallContext, Sti, SetupTimer
<1>6. CASE KeyboardIrq \/ TimerIrq \/ HandleInt
  BY <1>6 DEF KeyboardIrq, TimerIrq, HandleInt
<1> QED
  BY <1>1, <1>2, <1>3, <1>4, <1>5, <1>6 DEF KmainNext

LEMMA PassesInvStep ==
  ASSUME AuxInv, TablesInv, PassesInv, [KmainNext]_all_vars
  PROVE  PassesInv'
<1> DEFINE a == getauxval(AT_KXINIX_XSDT_ADDR)
<1>1. CASE UNCHANGED found_vars
  BY <1>1 DEF found_vars, PassesInv, Ahead, Named, Among, IoapicsAmong
<1>2. CASE kpc = "tables" /\ LoadRoot(a) /\ ~(apc = "root" /\ a = Garbage)
  <2>1. /\ tables' = Root(machine) /\ apc = "root" /\ apc' = "table"
        /\ UNCHANGED <<num_ioapics, ioapics, mapped>>
    BY <1>2, RightRoot DEF LoadRoot, Root, madt_vars
  <2>2. \A i, j \in 1..Len(tables') : IsMadt(tables'[i]) /\ IsMadt(tables'[j]) => i = j
    BY <2>1, MadtFacts DEF TablesInv
  <2>3. num_ioapics = 0 /\ ioapics = <<>> /\ Len(ioapics) = 0 /\ DOMAIN ioapics = 1..0
    BY <2>1 DEF PassesInv
  <2> QED
    BY <2>1, <2>2, <2>3 DEF PassesInv
<1>3. CASE OtherSdt \/ LoadMadt \/ LoadFadt
  <2>1. /\ apc = "table" /\ tables # <<>> /\ tables' = Tail(tables)
        /\ tables \in Seq(Listed) /\ machine \in Machines
    BY <1>3 DEF OtherSdt, LoadMadt, LoadFadt, HandleSdt, TablesInv
  <2>2. /\ Head(tables) \in Listed /\ Head(tables) = tables[1] /\ Len(tables) \in Nat \ {0}
        /\ Len(Tail(tables)) = Len(tables) - 1
        /\ \A i \in 1..Len(Tail(tables)) : Tail(tables)[i] = tables[i + 1]
    BY <2>1, HeadTailProperties, EmptySeq
  <2>3. \A i \in 1..Len(Tail(tables)) : i + 1 \in 1..Len(tables) /\ i + 1 # 1
    BY <2>2
  <2>4. \A i, j \in 1..Len(tables') : IsMadt(tables'[i]) /\ IsMadt(tables'[j]) => i = j
    <3>1. ASSUME NEW i \in 1..Len(Tail(tables)), NEW j \in 1..Len(Tail(tables)),
                 IsMadt(Tail(tables)[i]), IsMadt(Tail(tables)[j])
          PROVE  i = j
      <4>1. IsMadt(tables[i + 1]) /\ IsMadt(tables[j + 1])
        BY <2>2, <3>1
      <4>2. i + 1 = j + 1
        BY <2>1, <2>3, <4>1 DEF PassesInv
      <4> QED
        BY <2>2, <4>2
    <3> QED
      BY <2>1, <3>1
  <2>5. Ahead' => Ahead
    BY <2>1, <2>2, <2>3 DEF Ahead
  <2>6. CASE LoadMadt
    <3>1. /\ IsMadt(Head(tables)) /\ madt' = Head(tables).records /\ pos' = 1 /\ apc' = "count"
          /\ UNCHANGED <<num_ioapics, ioapics>>
      BY <2>6 DEF LoadMadt, HandleSdt, IsMadt
    <3>2. 1 \in 1..Len(tables) /\ IsMadt(tables[1])
      BY <2>2, <3>1
    <3>3. num_ioapics = 0 /\ Len(ioapics) \in Nat /\ DOMAIN ioapics = 1..Len(ioapics)
      BY <2>1, <3>2 DEF PassesInv, Ahead
    <3>4. ~Ahead'
      <4>1. \A i \in 1..Len(tables') : ~IsMadt(tables'[i])
        BY <2>1, <2>2, <2>3, <3>2 DEF PassesInv
      <4> QED
        BY <4>1 DEF Ahead
    <3>5. /\ Len(madt') \in Nat
          /\ \A i \in 1..Len(madt') : IsIoapic(madt'[i]) => madt'[i].address # Null
      BY <2>1, <2>2, <3>1, MadtFacts DEF Listed
    <3>6. Among(1, 0)' = 0
      <4>1. IoapicsAmong(1..0)' = {}
        BY DEF IoapicsAmong
      <4> QED
        BY <4>1, FS_EmptySet DEF Among
    <3>7. pos' \in 1..(Len(madt') + 1) /\ pos' - 1 = 0
      BY <3>1, <3>5
    <3>8. num_ioapics' = Among(1, pos - 1)'
      BY <3>1, <3>3, <3>6, <3>7 DEF Among, IoapicsAmong
    <3> QED
      BY <2>4, <3>1, <3>3, <3>4, <3>5, <3>7, <3>8 DEF PassesInv
  <2>7. CASE OtherSdt \/ LoadFadt
    <3>1. UNCHANGED <<apc, num_ioapics, ioapics>> /\ mapped \subseteq mapped'
      BY <2>7 DEF OtherSdt, LoadFadt, madt_vars
    <3>2. \A i \in 1..num_ioapics : Named(i) => Named(i)'
      BY <3>1 DEF Named
    <3> QED
      BY <2>1, <2>4, <2>5, <3>1, <3>2 DEF PassesInv
  <2> QED
    BY <1>3, <2>6, <2>7
<1>4. CASE CountRecord
  <2>1. /\ apc = "count" /\ apc' = "count" /\ pos <= Len(madt) /\ pos' = pos + 1
        /\ num_ioapics' = num_ioapics + Counted(madt[pos])
        /\ UNCHANGED <<tables, madt, ioapics>>
    BY <1>4 DEF CountRecord, PassesInv, Counted
  <2>2. /\ pos \in 1..(Len(madt) + 1) /\ Len(madt) \in Nat
        /\ num_ioapics \in Nat /\ num_ioapics = Among(1, pos - 1)
    BY <2>1 DEF PassesInv
  <2>3. pos - 1 \in Nat /\ (pos - 1) + 1 = pos /\ pos' - 1 = pos /\ pos' \in 1..(Len(madt) + 1)
    BY <2>1, <2>2
  <2>4. num_ioapics' = Among(1, pos) /\ num_ioapics' \in Nat
    <3>1. \A first, last \in Nat : first <= last + 1 =>
            Among(first, last + 1) = Among(first, last) + Counted(madt[last + 1])
      BY AmongLast
    <3>2. 1 \in Nat /\ 1 <= (pos - 1) + 1
      BY <2>3
    <3>3. Among(1, pos) = Among(1, pos - 1) + Counted(madt[pos])
      BY <2>3, <3>1, <3>2, Zenon
    <3> QED
      BY <2>1, <2>2, <3>3 DEF Counted
  <2>5. num_ioapics' = Among(1, pos - 1)'
    BY <2>1, <2>3, <2>4 DEF Among, IoapicsAmong
  <2> QED
    BY <2>1, <2>3, <2>4, <2>5 DEF PassesInv, Ahead
<1>5. CASE AllocIoapics
  <2> DEFINE empty == [register_base |-> Null, gsi_base |-> 0]
  <2>1. /\ apc = "count" /\ apc' = "populate" /\ pos > Len(madt) /\ pos' = 1
        /\ num_ioapics' = 0 /\ ioapics' = [i \in 1..num_ioapics |-> empty]
        /\ UNCHANGED <<tables, madt>>
    BY <1>5 DEF AllocIoapics
  <2>2. /\ pos \in 1..(Len(madt) + 1) /\ Len(madt) \in Nat
        /\ num_ioapics \in Nat /\ num_ioapics = Among(1, pos - 1)
    BY <2>1 DEF PassesInv
  <2>3. pos - 1 = Len(madt) /\ pos' \in 1..(Len(madt) + 1)
    BY <2>1, <2>2
  <2>4. DOMAIN ioapics' = 1..num_ioapics /\ Len(ioapics') = num_ioapics
    <3> HIDE DEF empty
    <3>1. \A n \in Nat : DOMAIN [i \in 1..n |-> empty] = 1..n /\ Len([i \in 1..n |-> empty]) = n
      OBVIOUS
    <3> QED
      BY <2>1, <2>2, <3>1
  <2>5. Len(ioapics') = num_ioapics' + Among(pos, Len(madt))'
    BY <2>1, <2>2, <2>3, <2>4 DEF Among, IoapicsAmong
  <2>6. \A i \in 1..num_ioapics' : FALSE
    BY <2>1
  <2> QED
    BY <2>1, <2>2, <2>3, <2>4, <2>5, <2>6 DEF PassesInv, Ahead
<1>6. CASE PopulateRecord
  <2> DEFINE record == madt[pos]
             n == num_ioapics + 1
             rest == Among(pos + 1, Len(madt))
  <2>1. /\ apc = "populate" /\ apc' = "populate" /\ pos <= Len(madt) /\ pos' = pos + 1
        /\ UNCHANGED <<tables, madt>>
    BY <1>6 DEF PopulateRecord
  <2>2. /\ pos \in 1..(Len(madt) + 1) /\ Len(madt) \in Nat
        /\ num_ioapics \in Nat /\ Len(ioapics) \in Nat /\ DOMAIN ioapics = 1..Len(ioapics)
        /\ Len(ioapics) = num_ioapics + Among(pos, Len(madt))
        /\ \A i \in 1..num_ioapics : Named(i)
        /\ IsIoapic(record) => record.address # Null
    BY <2>1 DEF PassesInv
  <2>3. pos \in Nat /\ pos + 1 \in Nat /\ pos + 1 \in 1..(Len(madt) + 1)
    BY <2>1, <2>2
  <2>4. rest \in Nat /\ Among(pos, Len(madt)) = rest + Counted(record)
    BY <2>1, <2>2, <2>3, AmongFinite, AmongFirst
  <2>5. Among(pos, Len(madt))' = rest
    BY <2>1 DEF Among, IoapicsAmong
  <2> HIDE DEF rest
  <2>6. /\ num_ioapics' \in Nat /\ Len(ioapics') = Len(ioapics) /\ DOMAIN ioapics' = 1..Len(ioapics)
        /\ Len(ioapics') = num_ioapics' + rest /\ \A i \in 1..num_ioapics' : Named(i)'
    <3>1. CASE IsIoapic(record)
      <4> DEFINE place == [register_base |-> record.address, gsi_base |-> record.gsi_base]
      <4>1. /\ num_ioapics' = n /\ ioapics' = [ioapics EXCEPT ![n] = place]
            /\ mapped' = mapped \union {Page(record.address)}
        BY <1>6, <3>1 DEF PopulateRecord
      <4>2. n \in 1..Len(ioapics) /\ n \in Nat /\ Len(ioapics) = n + rest
        BY <2>2, <2>4, <3>1 DEF Counted
      <4>3. DOMAIN ioapics' = 1..Len(ioapics) /\ Len(ioapics') = Len(ioapics)
        <5> HIDE DEF place, n
        <5> QED
          BY <2>2, <4>1, LenOf
      <4>4. ioapics'[n].register_base = record.address
        BY <2>2, <4>1, <4>2
      <4>5. ASSUME NEW i \in 1..n PROVE Named(i)'
        <5>1. CASE i = n
          BY <2>2, <3>1, <4>1, <4>4, <5>1 DEF Named
        <5>2. CASE i # n
          <6>1. i \in 1..num_ioapics /\ i \in DOMAIN ioapics
            BY <2>2, <4>2, <5>2
          <6>2. ioapics'[i] = ioapics[i]
            BY <4>1, <5>2, <6>1
          <6> QED
            BY <2>2, <4>1, <6>1, <6>2 DEF Named
        <5> QED
          BY <5>1, <5>2
      <4> QED
        BY <4>1, <4>2, <4>3, <4>5
    <3>2. CASE ~IsIoapic(record)
      <4>1. UNCHANGED <<num_ioapics, ioapics, mapped>>
        BY <1>6, <3>2 DEF PopulateRecord
      <4> QED
        BY <2>2, <2>4, <3>2, <4>1 DEF Named, Counted
    <3> QED
      BY <3>1, <3>2
  <2> QED
    BY <2>1, <2>2, <2>3, <2>5, <2>6 DEF PassesInv, Ahead
<1>7. CASE MadtEnds
  <2>1. /\ apc = "populate" /\ apc' = "table" /\ pos > Len(madt)
        /\ UNCHANGED <<tables, madt, pos, num_ioapics, ioapics, mapped>>
    BY <1>7 DEF MadtEnds, madt_vars
  <2>2. pos \in Nat /\ Len(madt) \in Nat /\ ~Ahead
    BY <2>1 DEF PassesInv
  <2>3. Among(pos, Len(madt)) = 0
    BY <2>1, <2>2, AmongFinite
  <2>4. Len(ioapics) = num_ioapics
    BY <2>1, <2>3 DEF PassesInv
  <2> QED
    BY <2>1, <2>2, <2>4 DEF PassesInv, Ahead, Named
<1>8. CASE TablesEnd
  BY <1>8 DEF TablesEnd, madt_vars, PassesInv, Ahead, Named
<1> QED
  BY <1>1, <1>2, <1>3, <1>4, <1>5, <1>6, <1>7, <1>8, AcpiStep DEF LoadTables

(* The second pass over the MADT (load_madt) finds a place for each I/O    *)
(* APIC in the array that the first has counted them for, and no place is  *)
(* left empty; all of them are mapped. For any MADT, and any tables and    *)
(* interrupts around it.                                                   *)
THEOREM IoapicsFitTheorem == KmainSpec => []IoapicsFit
<1>1. KmainInit => PassesInv
  <2>1. Len(<<>>) = 0 /\ DOMAIN <<>> = 1..0
    OBVIOUS
  <2> QED
    BY <2>1 DEF KmainInit, AcpiInit, PassesInv
<1>2. AuxInv /\ TablesInv /\ PassesInv /\ [KmainNext]_all_vars => PassesInv'
  BY PassesInvStep
<1>3. PassesInv => IoapicsFit
  BY DEF PassesInv, Named, Among, IoapicsFit
<1> QED
  BY <1>1, <1>2, <1>3, TablesInvTheorem, PTL DEF KmainSpec
=============================================================================
