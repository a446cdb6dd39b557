----------------------------- MODULE XsaveProofs -----------------------------
(***************************************************************************)
(* Theorems about call_once for any set of threads, and about its caller   *)
(* xsave_get_state for any number of components and contexts.              *)
(***************************************************************************)
EXTENDS Xsave, TLAPS

-----------------------------------------------------------------------------
(* call_once                                                               *)
(* The lock bit is set exactly while somebody holds the flag. *)
LockIsHeld ==
  Locked \in once_state <=> \E t \in Threads : pc[t] \in Holding

(* How far the initialiser has come, read off the threads and the init bit. *)
Progress ==
  /\ runs = IF func = "never" THEN 0 ELSE 1
  /\ Inited \in once_state => func = "done"
  /\ \A t \in Threads : pc[t] = "release" => func = "done"
  /\ \A t \in Threads : pc[t] = "call" => func = "running"
  /\ func = "running" => \E t \in Threads : pc[t] = "call"
  /\ func = "done" => \/ Inited \in once_state
                      \/ \E t \in Threads : pc[t] = "release"

IInv == TypeOK /\ MutualExclusion /\ LockIsHeld /\ Progress

-----------------------------------------------------------------------------
LEMMA InitIInv == Init => IInv
<1> SUFFICES ASSUME Init PROVE IInv
  OBVIOUS
<1>1. TypeOK
  BY DEF Init, TypeOK, Labels
<1>2. \A t \in Threads : pc[t] = "out"
  BY DEF Init
<1>3. MutualExclusion /\ LockIsHeld
  BY <1>2 DEF Init, MutualExclusion, LockIsHeld, Holding
<1>4. Progress
  BY <1>2 DEF Init, Progress
<1> QED BY <1>1, <1>3, <1>4 DEF IInv

LEMMA TypeStep == TypeOK /\ [Next]_vars => TypeOK'
<1> SUFFICES ASSUME TypeOK, [Next]_vars PROVE TypeOK'
  OBVIOUS
<1> USE DEF TypeOK, Labels, Goto, Locked, Inited
<1>1. ASSUME NEW t \in Threads, Enter(t) PROVE TypeOK'
  BY <1>1 DEF Enter
<1>2. ASSUME NEW t \in Threads, FastPath(t) PROVE TypeOK'
  BY <1>2 DEF FastPath
<1>3. ASSUME NEW t \in Threads, Acquire(t) PROVE TypeOK'
  BY <1>3 DEF Acquire
<1>4. ASSUME NEW t \in Threads, Check(t) PROVE TypeOK'
  <2>1. CASE Inited \in once_state
    BY <1>4, <2>1 DEF Check
  <2>2. CASE Inited \notin once_state
    BY <1>4, <2>2 DEF Check
  <2> QED BY <2>1, <2>2
<1>5. ASSUME NEW t \in Threads, CallReturns(t) PROVE TypeOK'
  BY <1>5 DEF CallReturns
<1>6. ASSUME NEW t \in Threads, Release(t) PROVE TypeOK'
  BY <1>6 DEF Release
<1>7. CASE UNCHANGED vars
  BY <1>7 DEF vars
<1> QED BY <1>1, <1>2, <1>3, <1>4, <1>5, <1>6, <1>7 DEF Next, Step

LEMMA NextIInv == IInv /\ [Next]_vars => IInv'
<1> SUFFICES ASSUME IInv, [Next]_vars PROVE IInv'
  OBVIOUS
<1> USE DEF IInv
<1>t. TypeOK'
  BY TypeStep
<1> USE DEF TypeOK, MutualExclusion, LockIsHeld, Progress, Labels, Holding,
            Goto, Locked, Inited
<1>1. ASSUME NEW t \in Threads, Enter(t) PROVE IInv'
  BY <1>1, <1>t DEF Enter
<1>2. ASSUME NEW t \in Threads, FastPath(t) PROVE IInv'
  BY <1>2, <1>t DEF FastPath
<1>3. ASSUME NEW t \in Threads, Acquire(t) PROVE IInv'
  BY <1>3, <1>t DEF Acquire
<1>4. ASSUME NEW t \in Threads, Check(t) PROVE IInv'
  BY <1>4, <1>t DEF Check
<1>5. ASSUME NEW t \in Threads, CallReturns(t) PROVE IInv'
  BY <1>5, <1>t DEF CallReturns
<1>6. ASSUME NEW t \in Threads, Release(t) PROVE IInv'
  BY <1>6, <1>t DEF Release
<1>7. CASE UNCHANGED vars
  BY <1>7 DEF vars
<1> QED BY <1>1, <1>2, <1>3, <1>4, <1>5, <1>6, <1>7 DEF Next, Step

THEOREM IInvHolds == Spec => []IInv
  BY InitIInv, NextIInv, PTL DEF Spec

(* Of any number of contexts calling call_once on one flag, at most one is  *)
(* between the spin and the releasing store.                                *)
THEOREM MutualExclusionTheorem == Spec => []MutualExclusion
<1>1. IInv => MutualExclusion
  BY DEF IInv
<1> QED BY <1>1, IInvHolds, PTL

(* The initialiser is started at most once by any number of contexts. *)
THEOREM AtMostOnceTheorem == Spec => []AtMostOnce
<1>1. IInv => AtMostOnce
  BY DEF IInv, Progress, AtMostOnce
<1> QED BY <1>1, IInvHolds, PTL

(* The init bit is never set before the initialiser has finished. *)
THEOREM PublishedTheorem == Spec => []PublishedIsComplete
<1>1. IInv => PublishedIsComplete
  BY DEF IInv, Progress, PublishedIsComplete
<1> QED BY <1>1, IInvHolds, PTL

-----------------------------------------------------------------------------
(* call_once implements Once: no call returns before the function has been *)
(* run to its end, and the function is begun only if it never was.         *)
THEOREM ImplementsOnceTheorem == Spec => ImplementsOnce
<1>1. Init => O!Init
  BY DEF Init, O!Init
<1>2. IInv /\ [Next]_vars => [O!Next]_(O!onceVars)
  <2> SUFFICES ASSUME IInv, [Next]_vars PROVE [O!Next]_(O!onceVars)
    OBVIOUS
  <2> USE DEF IInv, TypeOK, Labels, Goto, O!onceVars
  <2>1. ASSUME NEW t \in Threads, Enter(t) PROVE O!Call(t)
    BY <2>1 DEF Enter, O!Call
  <2>2. ASSUME NEW t \in Threads, FastPath(t) PROVE O!Return(t) \/ UNCHANGED O!onceVars
    <3>1. CASE Inited \in once_state
      <4>1. func = "done"
        BY <3>1 DEF Progress
      <4>2. pc[t] = "load" /\ pc' = [pc EXCEPT ![t] = "out"]
        BY <2>2, <3>1 DEF FastPath
      <4>3. func' = func
        BY <2>2 DEF FastPath
      <4> QED BY <4>1, <4>2, <4>3 DEF O!Return
    <3>2. CASE Inited \notin once_state
      BY <2>2, <3>2 DEF FastPath, Inited
    <3> QED BY <3>1, <3>2
  <2>3. ASSUME NEW t \in Threads, Acquire(t) PROVE UNCHANGED O!onceVars
    BY <2>3 DEF Acquire
  <2>4. ASSUME NEW t \in Threads, Check(t) PROVE O!Begin(t) \/ UNCHANGED O!onceVars
    <3>1. CASE Inited \in once_state
      BY <2>4, <3>1 DEF Check
    <3>2. CASE Inited \notin once_state
      <4>1. func = "never"
        BY <2>4, <3>2 DEF Check, Progress, MutualExclusion, Holding
      <4>2. pc[t] = "check" /\ pc' = [pc EXCEPT ![t] = "call"]
        BY <2>4, <3>2 DEF Check
      <4>3. func' = "running"
        BY <2>4, <3>2, <4>1 DEF Check
      <4> QED BY <4>1, <4>2, <4>3 DEF O!Begin
    <3> QED BY <3>1, <3>2
  <2>5. ASSUME NEW t \in Threads, CallReturns(t) PROVE O!Finish(t)
    <3>1. func' = "done"
      BY <2>5 DEF CallReturns, Progress
    <3>2. pc[t] = "call" /\ pc' = [pc EXCEPT ![t] = "release"]
      BY <2>5 DEF CallReturns
    <3> QED BY <3>1, <3>2 DEF O!Finish
  <2>6. ASSUME NEW t \in Threads, Release(t) PROVE O!Return(t)
    <3>1. func = "done" /\ func' = func
      BY <2>6 DEF Release, Progress
    <3>2. pc[t] = "release" /\ pc' = [pc EXCEPT ![t] = "out"]
      BY <2>6 DEF Release
    <3> QED BY <3>1, <3>2 DEF O!Return
  <2>7. CASE UNCHANGED vars
    BY <2>7 DEF vars
  <2> QED BY <2>1, <2>2, <2>3, <2>4, <2>5, <2>6, <2>7 DEF Next, Step, O!Next
<1> QED BY <1>1, <1>2, IInvHolds, PTL DEF Spec, ImplementsOnce, O!Spec

-----------------------------------------------------------------------------
(* xsave_get_state                                                         *)
(* The table when the loop is about to fill entry n. *)
FilledTo(n) == [c \in 2..LAST |-> IF c < n /\ c \in Supported THEN Leaf[c] ELSE Blank[c]]

(* The table is as far as the loop, and complete once the function is done. *)
TableInv ==
  /\ next \in 2..(LAST + 1)
  /\ xsave_info = FilledTo(next)
  /\ func = "done" => next = LAST + 1

(* Who has been through call_once finds the function done. *)
Requests == {Nothing} \union {Asks(u, c, 0) : u \in Contexts, c \in 0..LAST}
AskedInv ==
  /\ asked \in [Threads -> Requests]
  /\ \A t \in Threads : asked[t].present /\ pc[t] = "out" => func = "done"

(* The answers that the complete table gives. *)
Reply(u, c) == Asks(u, c, Place(Table, u, c))
Replies == {Nothing} \union {Reply(u, c) : u \in Contexts, c \in 0..LAST}
AnswerInv == answer \in [Threads -> Replies]

XInv == IInv /\ TableInv /\ AskedInv /\ AnswerInv

-----------------------------------------------------------------------------
(* What is answered without the table does not depend on it. *)
LEMMA EarlyReturns ==
  ASSUME NEW S, NEW T, NEW u, NEW c, ~ NeedsTable(u, c)
  PROVE  Place(S, u, c) = Place(T, u, c)
  BY DEF Place

LEMMA InitXInv == XsaveInit => XInv
<1> SUFFICES ASSUME XsaveInit PROVE XInv
  OBVIOUS
<1>1. IInv
  BY InitIInv DEF XsaveInit
<1>2. TableInv
  <2>1. Blank = FilledTo(2)
    BY DEF FilledTo, Blank
  <2> QED BY <2>1, LeafAssumption DEF XsaveInit, Init, TableInv
<1>3. AskedInv
  <2>1. ~ Nothing.present
    BY DEF Nothing
  <2> QED BY <2>1 DEF XsaveInit, AskedInv, Requests
<1>4. AnswerInv
  BY DEF XsaveInit, AnswerInv, Replies
<1> QED BY <1>1, <1>2, <1>3, <1>4 DEF XInv

(* Every step of a thread is one of CallOnce, or none of its variables      *)
(* changes.                                                                 *)
LEMMA StepsOfOnce == [XsaveNext]_<<vars, xsave_vars>> => [Next]_vars
  BY DEF XsaveNext, AnswerAtOnce, EnterOnce, XsaveStep, InOnce, FillEntry, FillEnds, Look,
         Next, Step, vars

(* The function that is done is never begun again. *)
LEMMA DoneStays == IInv /\ [Next]_vars /\ func = "done" => func' = "done"
<1> SUFFICES ASSUME IInv, [Next]_vars, func = "done" PROVE func' = "done"
  OBVIOUS
<1>1. ASSUME NEW t \in Threads, Check(t) PROVE func' = "done"
  BY <1>1 DEF Check, IInv, Progress, MutualExclusion, Holding
<1>2. CASE UNCHANGED vars
  BY <1>2 DEF vars
<1> QED BY <1>1, <1>2 DEF Next, Step, Enter, FastPath, Acquire, CallReturns, Release

LEMMA NextTable == XInv /\ [XsaveNext]_<<vars, xsave_vars>> => TableInv'
<1> SUFFICES ASSUME XInv, [XsaveNext]_<<vars, xsave_vars>> PROVE TableInv'
  OBVIOUS
<1>1. TableInv /\ IInv
  BY DEF XInv
<1>2. ASSUME NEW t \in Threads, FillEntry(t) PROVE TableInv'
  <2>1. next \in 2..LAST /\ next' = next + 1 /\ next' \in 2..(LAST + 1)
    BY <1>1, <1>2, LeafAssumption DEF FillEntry, TableInv
  <2>2. xsave_info' = FilledTo(next + 1)
    <3>1. CASE next \in Supported
      <4>1. xsave_info = FilledTo(next) /\ xsave_info' = [xsave_info EXCEPT ![next] = Leaf[next]]
        BY <1>1, <1>2, <3>1 DEF FillEntry, TableInv
      <4>2. \A c \in 2..LAST : c < next + 1 <=> c < next \/ c = next
        BY <2>1, LeafAssumption
      <4> QED BY <2>1, <3>1, <4>1, <4>2, Zenon DEF FilledTo
    <3>2. CASE next \notin Supported
      BY <1>1, <1>2, <2>1, <3>2 DEF FillEntry, TableInv, FilledTo
    <3> QED BY <3>1, <3>2
  <2>3. func' = "running"
    BY <1>1, <1>2 DEF FillEntry, IInv, Progress, vars
  <2>4. FilledTo(next + 1) = FilledTo(next)' 
    BY <2>1 DEF FilledTo, Blank
  <2> QED BY <2>1, <2>2, <2>3, <2>4 DEF TableInv
<1>3. ASSUME UNCHANGED <<xsave_info, next>>, func' = func \/ func' # "done" \/ next > LAST
      PROVE  TableInv'
  BY <1>1, <1>3, LeafAssumption DEF TableInv, FilledTo, Blank
<1>4. ASSUME NEW t \in Threads,
             NEW u \in Contexts, NEW c \in 0..LAST, AnswerAtOnce(t, u, c) \/ EnterOnce(t, u, c)
      PROVE  TableInv'
  BY <1>3, <1>4 DEF AnswerAtOnce, EnterOnce, Enter, vars
<1>5. ASSUME NEW t \in Threads, InOnce(t) \/ FillEnds(t) \/ Look(t) PROVE TableInv'
  BY <1>3, <1>5 DEF InOnce, FastPath, Acquire, Check, Release, FillEnds, CallReturns, Look,
                    xsave_vars, vars
<1>6. CASE UNCHANGED <<vars, xsave_vars>>
  BY <1>3, <1>6 DEF vars, xsave_vars
<1> QED BY <1>2, <1>4, <1>5, <1>6 DEF XsaveNext, XsaveStep

LEMMA NextAsked == XInv /\ [XsaveNext]_<<vars, xsave_vars>> => AskedInv'
<1> SUFFICES ASSUME XInv, [XsaveNext]_<<vars, xsave_vars>> PROVE AskedInv'
  OBVIOUS
<1>1. IInv /\ AskedInv /\ pc \in [Threads -> Labels]
  BY DEF XInv, IInv, TypeOK
<1>2. func = "done" => func' = "done"
  BY <1>1, StepsOfOnce, DoneStays
<1>3. ~ Nothing.present
  BY DEF Nothing
<1>4. ASSUME UNCHANGED <<asked, pc>> PROVE AskedInv'
  BY <1>1, <1>2, <1>4 DEF AskedInv
<1>5. ASSUME NEW t \in Threads, NEW u \in Contexts, NEW c \in 0..LAST, EnterOnce(t, u, c)
      PROVE  AskedInv'
  BY <1>1, <1>2, <1>5 DEF AskedInv, EnterOnce, Enter, Goto, Requests
<1>6. ASSUME NEW t \in Threads, InOnce(t) \/ FillEnds(t) PROVE AskedInv'
  <2>1. asked' = asked
    BY <1>6 DEF InOnce, FillEnds, xsave_vars
  <2>2. pc' = [pc EXCEPT ![t] = pc'[t]]
    BY <1>1, <1>6 DEF InOnce, FillEnds, FastPath, Acquire, Check, Release, CallReturns, Goto
  <2>3. pc'[t] = "out" => func = "done"
    BY <1>1, <1>6 DEF InOnce, FillEnds, FastPath, Acquire, Check, Release, CallReturns, Goto,
                      IInv, Progress, Labels
  <2> QED BY <1>1, <1>2, <2>1, <2>2, <2>3 DEF AskedInv
<1>7. ASSUME NEW t \in Threads, Look(t) PROVE AskedInv'
  BY <1>1, <1>2, <1>3, <1>7 DEF AskedInv, Look, Requests, vars
<1>8. CASE UNCHANGED <<vars, xsave_vars>>
  BY <1>4, <1>8 DEF vars, xsave_vars
<1>9. ASSUME NEW t \in Threads, NEW u \in Contexts, NEW c \in 0..LAST, AnswerAtOnce(t, u, c)
      PROVE  AskedInv'
  BY <1>4, <1>9 DEF AnswerAtOnce, vars
<1>10. ASSUME NEW t \in Threads, FillEntry(t) PROVE AskedInv'
  BY <1>4, <1>10 DEF FillEntry, vars
<1> QED BY <1>5, <1>6, <1>7, <1>8, <1>9, <1>10 DEF XsaveNext, XsaveStep

LEMMA NextAnswer == XInv /\ [XsaveNext]_<<vars, xsave_vars>> => AnswerInv'
<1> SUFFICES ASSUME XInv, [XsaveNext]_<<vars, xsave_vars>> PROVE AnswerInv'
  OBVIOUS
<1>1. TableInv /\ AskedInv /\ AnswerInv
  BY DEF XInv
<1>2. ASSUME NEW t \in Threads, NEW u \in Contexts, NEW c \in 0..LAST,
             Place(xsave_info, u, c) = Place(Table, u, c), Answer(t, u, c)
      PROVE  AnswerInv'
  <2>1. answer' = [answer EXCEPT ![t] = Reply(u, c)]
    BY <1>2 DEF Answer, Reply
  <2> QED BY <1>1, <2>1 DEF AnswerInv, Replies
<1>3. ASSUME NEW t \in Threads, NEW u \in Contexts, NEW c \in 0..LAST, AnswerAtOnce(t, u, c)
      PROVE  AnswerInv'
  BY <1>2, <1>3, EarlyReturns DEF AnswerAtOnce
<1>4. ASSUME NEW t \in Threads, Look(t) PROVE AnswerInv'
  <2>1. xsave_info = Table
    BY <1>1, <1>4, LeafAssumption DEF Look, AskedInv, TableInv, FilledTo, Table
  <2>2. PICK u \in Contexts, c \in 0..LAST : asked[t] = Asks(u, c, 0)
    BY <1>1, <1>4 DEF Look, AskedInv, Requests, Nothing
  <2>3. Answer(t, u, c)
    BY <1>4, <2>2 DEF Look, Asks
  <2> QED BY <1>2, <2>1, <2>3
<1>5. ASSUME NEW t \in Threads, NEW u \in Contexts, NEW c \in 0..LAST, EnterOnce(t, u, c)
      PROVE  AnswerInv'
  BY <1>1, <1>5 DEF EnterOnce, AnswerInv, Replies
<1>6. ASSUME UNCHANGED answer PROVE AnswerInv'
  BY <1>1, <1>6 DEF AnswerInv
<1>7. ASSUME NEW t \in Threads, InOnce(t) \/ FillEntry(t) \/ FillEnds(t) PROVE AnswerInv'
  BY <1>6, <1>7 DEF InOnce, FillEntry, FillEnds, xsave_vars
<1>8. CASE UNCHANGED <<vars, xsave_vars>>
  BY <1>6, <1>8 DEF xsave_vars
<1> QED BY <1>3, <1>4, <1>5, <1>7, <1>8 DEF XsaveNext, XsaveStep

THEOREM XInvHolds == XsaveSpec => []XInv
<1>1. XInv /\ [XsaveNext]_<<vars, xsave_vars>> => XInv'
  BY StepsOfOnce, NextIInv, NextTable, NextAsked, NextAnswer DEF XInv
<1> QED BY <1>1, InitXInv, PTL DEF XsaveSpec

(* Of any number of threads that ask at once, each is told the place that   *)
(* the complete table gives.                                                *)
THEOREM StateIsPlacedTheorem == XsaveSpec => []StateIsPlaced
<1>1. XInv => StateIsPlaced
  <2> SUFFICES ASSUME XInv, NEW t \in Threads, answer[t].present
               PROVE  answer[t].place = Place(Table, answer[t].uctx, answer[t].comp)
    BY DEF StateIsPlaced
  <2>1. PICK u \in Contexts, c \in 0..LAST : answer[t] = Reply(u, c)
    BY DEF XInv, AnswerInv, Replies, Nothing
  <2> QED BY <2>1 DEF Reply, Asks
<1> QED BY <1>1, XInvHolds, PTL
=============================================================================
