------------------------------ MODULE Keyboard ------------------------------
(***************************************************************************)
(* The keyboard driver (kernel/src/common/keyboard.c): the interrupt       *)
(* handler decodes the scan bytes and queues the keys, the prompt polls    *)
(* them. The interrupt may come between any two steps of a poll.           *)
(*                                                                         *)
(* The keyboard itself is the environment: each press or release puts its  *)
(* bytes (scan code set 1) on the wire, and the controller raises one      *)
(* interrupt per byte. The keys are representatives of what the tables     *)
(* tell apart: plain keys, the modifiers on either side, a byte that means *)
(* one key alone and another after E0, and keys without a scan code.       *)
(***************************************************************************)
EXTENDS Naturals, Sequences

CONSTANTS
  QUEUE_LEN,
  MaxHead,     \* bound: nothing is typed once this many keys were queued
  TypedKeys,   \* the keys somebody types
  NoKey

(* The keys, as the keyboard sends them: one group of bytes per E0 prefix. *)
WireCodes ==
  [A |-> <<30>>, SHIFT_LEFT |-> <<42>>, SHIFT_RIGHT |-> <<54>>,
   CONTROL_LEFT |-> <<29>>, NUMPAD8 |-> <<72>>, ARROW_UP |-> <<224, 72>>,
   RIGHT_CONTROL |-> <<224, 29>>, PRINT_SCREEN |-> <<224, 42, 224, 55>>,
   WINDOWS |-> <<224, 91>>, KEY_56 |-> <<86>>, OVERRUN |-> <<0>>]

ASSUME QueueAssumption ==
  /\ QUEUE_LEN \in Nat \ {0, 1}
  /\ MaxHead \in Nat
  /\ TypedKeys \subseteq DOMAIN WireCodes

VARIABLES
  key,          \* the press or release whose bytes are on the wire
  wire,         \* the bytes of it that are still to come
  scan_state,
  modifiers,    \* the set of those that are down
  queue,        \* the array
  queue_head,
  queue_tail,
  pc,           \* where kbd_poll_key is: "idle", "read", "advance"
  slot,         \* the entry it is about to return
  polled,       \* what it returned last
  last          \* the latest complete press or release of a key with a code

kbd_vars == <<key, wire, scan_state, modifiers, queue, queue_head, queue_tail,
          pc, slot, polled, last>>

-----------------------------------------------------------------------------
BytesOf(code) ==
  LET make == WireCodes[code.key]
  IN  [i \in DOMAIN make |->
         IF code.release /\ make[i] # 224 THEN make[i] + 128 ELSE make[i]]

(* KBD_STATE_MACHINE: the key each byte stands for, by state, without the  *)
(* release bit. A byte that is not listed is U or X.                       *)
Row == [INIT |-> {<<30, "A">>, <<42, "SHIFT_LEFT">>, <<54, "SHIFT_RIGHT">>,
                  <<29, "CONTROL_LEFT">>, <<72, "NUMPAD8">>},
        E0   |-> {<<72, "ARROW_UP">>}]

Keys == {entry[2] : entry \in Row.INIT \union Row.E0}

(* The scan code of a transition: a set of one, or none.                   *)
CodesFor(state, byte) ==
  {[key |-> entry[2], release |-> byte >= 128] :
     entry \in {e \in Row[state] : e[1] = byte % 128}}

ModifiersOf(k) ==
  CASE k \in {"SHIFT_LEFT", "SHIFT_RIGHT"} -> {"shift"}
    [] k = "CONTROL_LEFT" -> {"ctrl"}
    [] OTHER -> {}

NoScanCode == [scan_code |-> NoKey, modifiers |-> {}]

KbdInit ==
  /\ key = NoKey
  /\ wire = <<>>
  /\ scan_state = "INIT"
  /\ modifiers = {}
  /\ queue = [i \in 0..(QUEUE_LEN - 1) |-> NoScanCode]
  /\ queue_head = 0
  /\ queue_tail = 0
  /\ pc = "idle"
  /\ slot = NoScanCode
  /\ polled = NoScanCode
  /\ last = NoKey

-----------------------------------------------------------------------------
(* The head goes on past the end of the array. A key stored there          *)
(* overwrites whatever the linker has put behind it; what the program does *)
(* from then on does not follow from its source, and the model ends.       *)
InArray == queue_head <= QUEUE_LEN

(* A key is pressed or released.                                           *)
Type(code) ==
  /\ InArray /\ wire = <<>>
  /\ queue_head < MaxHead
  /\ key' = code
  /\ wire' = BytesOf(code)
  /\ UNCHANGED <<scan_state, modifiers, queue, queue_head, queue_tail,
                 pc, slot, polled, last>>

(* One place is left free. *)
QueueFull == (queue_head + 1) % QUEUE_LEN = queue_tail

Store(entry) ==
  /\ queue' = [i \in DOMAIN queue |-> IF i = queue_head THEN entry ELSE queue[i]]
  /\ queue_head' = queue_head + 1

(* Faulty variant: a key that does not fit does not count for anything.    *)
EnqueueOrForget(code) ==
  IF QueueFull
  THEN UNCHANGED <<modifiers, queue, queue_head>>
  ELSE /\ modifiers' = IF code.release THEN modifiers \ ModifiersOf(code.key)
                       ELSE modifiers \union ModifiersOf(code.key)
       /\ Store([scan_code |-> code, modifiers |-> modifiers'])

(* kbd_enqueue: the modifiers, then the queue.                             *)
Enqueue(code) ==
  /\ modifiers' = IF code.release THEN modifiers \ ModifiersOf(code.key)
                                  ELSE modifiers \union ModifiersOf(code.key)
  /\ IF QueueFull
     THEN UNCHANGED <<queue, queue_head>>
     ELSE Store([scan_code |-> code, modifiers |-> modifiers'])

NextState(byte) ==
  IF scan_state = "INIT" /\ byte = 224 THEN "E0" ELSE "INIT"

(* keyboard_irq and kbd_process_scancode_byte. A byte without a meaning    *)
(* takes the decoder back to where it started.                             *)
Irq ==
  /\ InArray /\ wire # <<>>
  /\ wire' = Tail(wire)
  /\ scan_state' = NextState(Head(wire))
  /\ IF CodesFor(scan_state, Head(wire)) = {}
     THEN UNCHANGED <<modifiers, queue, queue_head>>
     ELSE \E code \in CodesFor(scan_state, Head(wire)) : Enqueue(code)
  /\ IF Len(wire) = 1
     THEN /\ last' = IF key.key \in Keys THEN key ELSE last
          /\ key' = NoKey
     ELSE UNCHANGED <<last, key>>
  /\ UNCHANGED <<queue_tail, pc, slot, polled>>

(* Faulty variant: the last key stays until another comes.                 *)
PollTestKeepsOne ==
  /\ pc = "idle"
  /\ IF queue_head > queue_tail + 1
     THEN pc' = "read" /\ UNCHANGED polled
     ELSE polled' = NoScanCode /\ UNCHANGED pc
  /\ UNCHANGED <<key, wire, scan_state, modifiers, queue, queue_head,
                 queue_tail, slot, last>>

(* kbd_poll_key: the test, the read of the entry, the increment.           *)
PollTest ==
  /\ pc = "idle"
  /\ IF queue_head # queue_tail
     THEN pc' = "read" /\ UNCHANGED polled
     ELSE polled' = NoScanCode /\ UNCHANGED pc
  /\ UNCHANGED <<key, wire, scan_state, modifiers, queue, queue_head,
                 queue_tail, slot, last>>

PollRead ==
  /\ pc = "read"
  /\ slot' = queue[queue_tail]
  /\ pc' = "advance"
  /\ UNCHANGED <<key, wire, scan_state, modifiers, queue, queue_head,
                 queue_tail, polled, last>>

PollReturn ==
  /\ pc = "advance"
  /\ polled' = slot
  /\ queue_tail' = queue_tail + 1
  /\ pc' = "idle"
  /\ slot' = NoScanCode
  /\ UNCHANGED <<key, wire, scan_state, modifiers, queue, queue_head, last>>

Poll == InArray /\ (PollTest \/ PollRead \/ PollReturn)

KbdNext ==
  \/ \E k \in TypedKeys, release \in BOOLEAN :
       Type([key |-> k, release |-> release])
  \/ Irq
  \/ Poll

KbdSpec == KbdInit /\ [][KbdNext]_kbd_vars

(* The controller raises the interrupt of every byte, and the prompt polls *)
(* for ever.                                                               *)
KbdFairSpec == KbdSpec /\ WF_kbd_vars(Irq) /\ WF_kbd_vars(Poll)

-----------------------------------------------------------------------------
(* Whatever the interrupt does between the steps of a poll, the prompt is  *)
(* given the keys in order, none twice, each with the modifiers of its     *)
(* moment, and only a key that comes on a full queue is lost: the keys     *)
(* that were typed, that is, and not what a byte of another key, of an E0  *)
(* sequence the tables do not know, or an overrun byte looks like. (That   *)
(* holds until a key is stored beyond the array: see StoresInArray.)       *)
waiting == [i \in 1..(queue_head - queue_tail) |-> queue[queue_tail + i - 1]]

KQ == INSTANCE KeyQueue WITH
        Capacity <- QUEUE_LEN - 1,
        held     <- modifiers

ImplementsKeyQueue ==
  KQ!Init /\ [][queue_head' <= QUEUE_LEN => [KQ!Next]_(KQ!vars)]_kbd_vars

(* Every key that was queued is returned by some poll.                     *)
KeysArePolled ==
  \A n \in 1..MaxHead : queue_head >= n ~> queue_tail >= n

(* keyboard.c:125-127 describe the queue by its indices modulo QUEUE_LEN:  *)
(* an entry is always stored inside the array.                             *)
StoresInArray == [][queue_head' # queue_head => queue_head < QUEUE_LEN]_kbd_vars
=============================================================================
