---------------------------- MODULE MCEventRing -----------------------------
(***************************************************************************)
(* Instances of EventRing with one consumer, the kernel thread that        *)
(* reseeds a generator. In some behaviours, which is decided at the start, *)
(* a single producer pushes all events, as one processor with interrupt    *)
(* gates has it; in the others two producers push at the same time.        *)
(***************************************************************************)
EXTENDS EventRing

CONSTANTS p1, c1

(* While one push is under way, the others do not take the ring round.     *)
ASSUME InstanceAssumption ==
  /\ p1 \in Producers
  /\ Consumers = {c1}
  /\ MaxOverlap < RingSize - 1

VARIABLE alone      \* whether p1 is the only producer of this behaviour

MCInit == Init /\ alone \in BOOLEAN

MCNext ==
  /\ Next
  /\ UNCHANGED alone
  /\ alone => \A p \in Producers \ {p1} : pc'[p] = "idle"

MCSpec ==
  /\ MCInit /\ [][MCNext]_<<vars, alone>>
  /\ \A p \in Producers : WF_vars(Push(p))
  /\ \A c \in Consumers : WF_vars(Poll(c))

(* With two producers the queue is not mapped at all: it stays empty.      *)
Q == INSTANCE EventQueue WITH
  Capacity <- RingSize - 1,
  offered <- IF alone THEN pushed ELSE 0,
  pending <- IF ~ alone \/ pc[p1] = "idle" THEN NoEvent ELSE event[p1],
  queue <- IF alone THEN Waiting ELSE <<>>,
  hand <- IF alone /\ took[c1] THEN val[c1] ELSE NoEvent,
  delivered <- IF alone THEN delivered ELSE <<>>

(* push_event and poll_ebuf of one producer and one consumer keep the      *)
(* promise of a bounded queue: nothing is delivered twice or out of order, *)
(* whatever is overwritten or re-read while the loop of poll_ebuf goes     *)
(* round; an event is refused or lost only while the ring is full.         *)
ImplementsQueue == Q!Spec
=============================================================================
