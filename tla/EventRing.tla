----------------------------- MODULE EventRing ------------------------------
(***************************************************************************)
(* The entropy event ring (kernel/src/common/entropy.c): push_event is     *)
(* called from interrupt handlers, poll_ebuf by whoever needs entropy.     *)
(*                                                                         *)
(* One action per atomic operation. An event word is abstracted to the     *)
(* number of the event; a slot never written holds 0 (NoEvent), which is   *)
(* also what a poll that finds nothing returns.                            *)
(***************************************************************************)
EXTENDS Integers, Sequences

CONSTANTS
  RingSize,     \* slots of entropy_buffer (1024 in the code)
  Producers,    \* contexts that run push_event
  Consumers,    \* contexts that run poll_ebuf
  MaxEvents,    \* bound on the number of events pushed
  MaxOverlap    \* bound on the events produced while one push is under way

ASSUME RingAssumption ==
  /\ RingSize \in Nat /\ RingSize > 1
  /\ MaxEvents \in Nat /\ MaxOverlap \in Nat
  /\ Producers \cap Consumers = {}

NoEvent == 0
Slots == 0..(RingSize - 1)

VARIABLES
  entropy_buffer,
  read_head,
  write_head,
  pushed,       \* number of events produced so far
  pc,           \* next operation of each producer and consumer
  event,        \* producers' local total_event
  write_pos,    \* producers' local write_pos
  read_pos,     \* consumers' local read_pos
  val,          \* consumers' local val
  took,         \* whether the consumer's current poll has moved read_head
  delivered     \* events returned by polls, in order

ringVars  == <<entropy_buffer, read_head, write_head>>
pushVars  == <<pushed, event, write_pos>>
pollVars  == <<read_pos, val, took, delivered>>
vars == <<ringVars, pushVars, pollVars, pc>>

Init ==
  /\ entropy_buffer = [s \in Slots |-> NoEvent]
  /\ read_head = 0
  /\ write_head = 0
  /\ pushed = 0
  /\ pc = [t \in Producers \union Consumers |-> "idle"]
  /\ event = [p \in Producers |-> NoEvent]
  /\ write_pos = [p \in Producers |-> 0]
  /\ read_pos = [c \in Consumers |-> 0]
  /\ val = [c \in Consumers |-> NoEvent]
  /\ took = [c \in Consumers |-> FALSE]
  /\ delivered = <<>>

Goto(t, label) == pc' = [pc EXCEPT ![t] = label]

Advance(pos) == (pos + 1) % RingSize

-----------------------------------------------------------------------------
(* push_event *)

PushBegin(p) ==
  /\ pc[p] = "idle"
  /\ pushed < MaxEvents
  /\ \A q \in Producers : pc[q] # "idle" => pushed - event[q] < MaxOverlap
  /\ pushed' = pushed + 1
  /\ event' = [event EXCEPT ![p] = pushed']
  /\ write_pos' = [write_pos EXCEPT ![p] = write_head]
  /\ Goto(p, "test")
  /\ UNCHANGED <<ringVars, pollVars>>

(* Faulty variant: every slot is used, so that full looks like empty. *)
NeverFull(pos) == FALSE

RingFull(pos) == pos = (read_head - 1) % RingSize

(* Faulty variant: the store is left out. *)
PushTestNoStore(p) ==
  /\ pc[p] = "test"
  /\ Goto(p, IF RingFull(write_pos[p]) THEN "idle" ELSE "publish")
  /\ UNCHANGED <<ringVars, pushVars, pollVars>>

PushTest(p) ==
  /\ pc[p] = "test"
  /\ Goto(p, IF RingFull(write_pos[p]) THEN "idle" ELSE "store")
  /\ UNCHANGED <<ringVars, pushVars, pollVars>>

PushStore(p) ==
  /\ pc[p] = "store"
  /\ entropy_buffer' = [entropy_buffer EXCEPT ![write_pos[p]] = event[p]]
  /\ Goto(p, "publish")
  /\ UNCHANGED <<read_head, write_head, pushVars, pollVars>>

(* Faulty variant: a store in place of the compare-exchange. *)
PushPublishAnyway(p) ==
  /\ pc[p] = "publish"
  /\ write_head' = Advance(write_pos[p])
  /\ Goto(p, "idle")
  /\ UNCHANGED <<entropy_buffer, read_head, pushVars, pollVars>>

(* The compare-exchange is not retried: an event whose slot was published *)
(* by another producer meanwhile is given up.                             *)
PushPublish(p) ==
  /\ pc[p] = "publish"
  /\ write_head' = IF write_head = write_pos[p] THEN Advance(write_pos[p]) ELSE write_head
  /\ Goto(p, "idle")
  /\ UNCHANGED <<entropy_buffer, read_head, pushVars, pollVars>>

-----------------------------------------------------------------------------
(* poll_ebuf *)

PollBegin(c) ==
  /\ pc[c] = "idle"
  /\ read_pos' = [read_pos EXCEPT ![c] = read_head]
  /\ took' = [took EXCEPT ![c] = FALSE]
  /\ Goto(c, "test")
  /\ UNCHANGED <<ringVars, pushVars, val, delivered>>

(* "return 0" also when an earlier round of the loop took an event. *)
PollTest(c) ==
  /\ pc[c] = "test"
  /\ IF read_pos[c] = write_head
     THEN Goto(c, "idle") /\ took' = [took EXCEPT ![c] = FALSE]
     ELSE Goto(c, "load") /\ UNCHANGED took
  /\ UNCHANGED <<ringVars, pushVars, read_pos, val, delivered>>

PollLoad(c) ==
  /\ pc[c] = "load"
  /\ val' = [val EXCEPT ![c] = entropy_buffer[read_pos[c]]]
  /\ Goto(c, "exchange")
  /\ UNCHANGED <<ringVars, pushVars, read_pos, took, delivered>>

(* Faulty variant: a failed exchange is retried with the same read_pos. *)
PollExchangeAgain(c) ==
  /\ pc[c] = "exchange"
  /\ \/ /\ read_head = read_pos[c]
        /\ read_head' = Advance(read_pos[c])
        /\ took' = [took EXCEPT ![c] = TRUE]
     \/ /\ read_head # read_pos[c]
        /\ UNCHANGED <<read_head, took>>
  /\ Goto(c, "test")
  /\ UNCHANGED <<entropy_buffer, write_head, pushVars, read_pos, val, delivered>>

(* The loop goes round while the exchange succeeds, with read_pos as it    *)
(* was; the exchange that fails loads read_head into read_pos and ends it. *)
PollExchange(c) ==
  /\ pc[c] = "exchange"
  /\ \/ /\ read_head = read_pos[c]
        /\ read_head' = Advance(read_pos[c])
        /\ took' = [took EXCEPT ![c] = TRUE]
        /\ Goto(c, "test")
        /\ UNCHANGED <<read_pos, delivered>>
     \/ /\ read_head # read_pos[c]
        /\ read_pos' = [read_pos EXCEPT ![c] = read_head]
        /\ took' = [took EXCEPT ![c] = FALSE]
        /\ delivered' = Append(delivered, val[c])
        /\ Goto(c, "idle")
        /\ UNCHANGED read_head
  /\ UNCHANGED <<entropy_buffer, write_head, pushVars, val>>

-----------------------------------------------------------------------------
Push(p) == PushTest(p) \/ PushStore(p) \/ PushPublish(p)
Poll(c) == PollTest(c) \/ PollLoad(c) \/ PollExchange(c)

Next ==
  \/ \E p \in Producers : PushBegin(p) \/ Push(p)
  \/ \E c \in Consumers : PollBegin(c) \/ Poll(c)

Spec == Init /\ [][Next]_vars

(* A call that has begun runs on; nobody has to push or poll. *)
FairSpec ==
  /\ Spec
  /\ \A p \in Producers : WF_vars(Push(p))
  /\ \A c \in Consumers : WF_vars(Poll(c))

-----------------------------------------------------------------------------
(* The slots from read_head up to write_head, oldest first. *)
Waiting ==
  [i \in 1..((write_head - read_head) % RingSize) |->
     entropy_buffer[(read_head + i - 1) % RingSize]]

(* A slot between the heads is never an unwritten one: write_head passes a *)
(* slot only after an event was stored there, whoever stored it. No two    *)
(* waiting slots hold the same event, and none holds one that a poll has   *)
(* already returned: an event feeds a generator at most once.              *)
EventsWaitOnce ==
  /\ \A i \in DOMAIN Waiting : Waiting[i] # NoEvent
  /\ \A i, j \in DOMAIN Waiting : i # j => Waiting[i] # Waiting[j]
  /\ \A i, j \in DOMAIN delivered : i # j => delivered[i] # delivered[j]
  /\ \A i \in DOMAIN Waiting, j \in DOMAIN delivered : Waiting[i] # delivered[j]

(* A poll that has begun returns, although its loop runs while the         *)
(* exchange succeeds.                                                      *)
PollsReturn == \A c \in Consumers : pc[c] # "idle" ~> pc[c] = "idle"
=============================================================================
