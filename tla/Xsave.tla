-------------------------------- MODULE Xsave --------------------------------
(***************************************************************************)
(* Where a component of the extended processor state lies in a saved       *)
(* context (kernel/src/x86_64/xsave.c): xsave_get_state on several kernel  *)
(* contexts at once, each of which may be the one to fill xsave_info, with *)
(* call_once (CallOnce) around it and one step for each entry of the table.*)
(*                                                                         *)
(* A place is counted from the start of the user_context; 0 is nullptr.    *)
(***************************************************************************)
EXTENDS CallOnce

CONSTANTS
  LAST,        \* the last component, 62
  Supported,   \* the bits of leaf 0x0D
  Leaf,        \* what its sub-leaves say of each: [size, offset, aligned]
  Contexts     \* [size, xstate_bv, compact]

ASSUME LeafAssumption == LAST \in Nat \ {0, 1} /\ Supported \subseteq 2..LAST

VARIABLES
  xsave_info,  \* by component, the bit of alignment_spec with it
  next,        \* the variable of the loop in init_xsave_info
  asked,       \* each thread: what it asks for
  answer       \* and what it was last answered, until it asks again

xsave_vars == <<xsave_info, next, asked, answer>>

FXSAVE == 512      \* offsetof(struct user_context, fxsave)
RESTXSAVE == 1024  \* and of restxsave, with the header in front
HEADER == 64

Blank == [c \in 2..LAST |-> [size |-> 0, offset |-> 0, aligned |-> FALSE]]
Nothing == [present |-> FALSE, uctx |-> [size |-> 0], comp |-> 0, place |-> 0]
Asks(uctx, comp, place) == [present |-> TRUE, uctx |-> uctx, comp |-> comp, place |-> place]

XsaveInit ==
  /\ Init
  /\ xsave_info = Blank /\ next = 2
  /\ asked = [t \in Threads |-> Nothing] /\ answer = [t \in Threads |-> Nothing]

-----------------------------------------------------------------------------
Legacy == {0, 1}     \* xsave_x87, xsave_xmm

(* The loop for the compacted format, up to a component; what is meant to  *)
(* round up keeps the remainder.                                           *)
Compacted(table) ==
  LET before[c \in 2..LAST] ==
        IF c = 2 THEN HEADER
        ELSE LET offset == before[c - 1] + table[c - 1].size
             IN  IF table[c - 1].aligned THEN (offset + 63) % 64 ELSE offset
  IN  before

(* The early returns: no header, or a component that is present. (The test *)
(* for one that is not is the wrong way round.)                            *)
NeedsTable(uctx, comp) ==
  uctx.size >= 576 /\ comp # 0 /\ comp \notin uctx.xstate_bv

Place(table, uctx, comp) ==
  IF uctx.size < 576
  THEN IF comp \in Legacy /\ uctx.size = 512 THEN FXSAVE ELSE 0
  ELSE IF ~ NeedsTable(uctx, comp) THEN 0
  ELSE IF comp \in Legacy THEN FXSAVE
  ELSE IF uctx.compact THEN RESTXSAVE + Compacted(table)[comp]
  ELSE FXSAVE + table[comp].offset

Answer(t, uctx, comp) ==
  answer' = [answer EXCEPT ![t] = Asks(uctx, comp, Place(xsave_info, uctx, comp))]

AnswerAtOnce(t, uctx, comp) ==
  /\ pc[t] = "out" /\ ~ asked[t].present
  /\ ~ NeedsTable(uctx, comp)
  /\ Answer(t, uctx, comp)
  /\ UNCHANGED <<vars, xsave_info, next, asked>>

EnterOnce(t, uctx, comp) ==
  /\ ~ asked[t].present
  /\ NeedsTable(uctx, comp)
  /\ Enter(t)
  /\ asked' = [asked EXCEPT ![t] = Asks(uctx, comp, 0)]
  /\ answer' = [answer EXCEPT ![t] = Nothing]
  /\ UNCHANGED <<xsave_info, next>>

InOnce(t) ==
  /\ FastPath(t) \/ Acquire(t) \/ Check(t) \/ Release(t)
  /\ UNCHANGED xsave_vars

(* One round of the loop in init_xsave_info, and its end. *)
FillEntry(t) ==
  /\ pc[t] = "call" /\ next <= LAST
  /\ xsave_info' = IF next \in Supported
                   THEN [xsave_info EXCEPT ![next] = Leaf[next]] ELSE xsave_info
  /\ next' = next + 1
  /\ UNCHANGED <<vars, asked, answer>>

FillEnds(t) ==
  /\ next > LAST
  /\ CallReturns(t)
  /\ UNCHANGED xsave_vars

(* Back from call_once. *)
Look(t) ==
  /\ pc[t] = "out" /\ asked[t].present
  /\ Answer(t, asked[t].uctx, asked[t].comp)
  /\ asked' = [asked EXCEPT ![t] = Nothing]
  /\ UNCHANGED <<vars, xsave_info, next>>

XsaveStep(t) == InOnce(t) \/ FillEntry(t) \/ FillEnds(t) \/ Look(t)

XsaveNext ==
  \E t \in Threads :
    \/ \E uctx \in Contexts, comp \in 0..LAST :
         AnswerAtOnce(t, uctx, comp) \/ EnterOnce(t, uctx, comp)
    \/ XsaveStep(t)

XsaveSpec == XsaveInit /\ [][XsaveNext]_<<vars, xsave_vars>>

(* A thread inside xsave_get_state keeps running. *)
FairXsaveSpec ==
  XsaveSpec /\ \A t \in Threads : WF_<<vars, xsave_vars>>(XsaveStep(t))

-----------------------------------------------------------------------------
(* The table as the processor describes it. *)
Table == [c \in 2..LAST |-> IF c \in Supported THEN Leaf[c] ELSE Blank[c]]

(* Every thread is told the place that the complete table gives, however   *)
(* many ask at once and whoever fills it: none reads a table that another  *)
(* is still filling.                                                       *)
StateIsPlaced ==
  \A t \in Threads : answer[t].present =>
    answer[t].place = Place(Table, answer[t].uctx, answer[t].comp)
=============================================================================
