----------------------------- MODULE EventQueue -----------------------------
(* What the entropy event ring promises to one producer and one consumer:  *)
(* a bounded queue. An event is refused only while the queue is full,      *)
(* events are delivered in the order in which they were accepted and at    *)
(* most once, and a poll loses the event it took only while the queue      *)
(* is full.                                                                *)
EXTENDS Naturals, Sequences

CONSTANTS
  Capacity,    \* how many events can wait
  MaxEvents    \* bound on the number of events offered

NoEvent == 0

VARIABLES
  offered,     \* number of events offered so far: event n is the n-th
  pending,     \* the event being offered, or NoEvent
  queue,       \* events waiting
  hand,        \* the event a poll has taken and not yet returned
  delivered    \* events returned by polls, in order

queueVars == <<offered, pending, queue, hand, delivered>>

Init ==
  /\ offered = 0
  /\ pending = NoEvent
  /\ queue = <<>>
  /\ hand = NoEvent
  /\ delivered = <<>>

Full == Len(queue) = Capacity

Offer ==
  /\ pending = NoEvent /\ offered < MaxEvents
  /\ offered' = offered + 1
  /\ pending' = offered'
  /\ UNCHANGED <<queue, hand, delivered>>

Accept ==
  /\ pending # NoEvent /\ ~ Full
  /\ queue' = Append(queue, pending)
  /\ pending' = NoEvent
  /\ UNCHANGED <<offered, hand, delivered>>

Refuse ==
  /\ pending # NoEvent /\ Full
  /\ pending' = NoEvent
  /\ UNCHANGED <<offered, queue, hand, delivered>>

Take ==
  /\ queue # <<>> /\ hand = NoEvent
  /\ hand' = Head(queue)
  /\ queue' = Tail(queue)
  /\ UNCHANGED <<offered, pending, delivered>>

Deliver ==
  /\ hand # NoEvent
  /\ delivered' = Append(delivered, hand)
  /\ hand' = NoEvent
  /\ UNCHANGED <<offered, pending, queue>>

Lose ==
  /\ hand # NoEvent /\ Full
  /\ hand' = NoEvent
  /\ UNCHANGED <<offered, pending, queue, delivered>>

Next == Offer \/ Accept \/ Refuse \/ Take \/ Deliver \/ Lose

Spec == Init /\ [][Next]_queueVars
=============================================================================
