------------------------------- MODULE RandDev -------------------------------
(***************************************************************************)
(* The random devices (rand_dev and krand_dev in                           *)
(* kernel/src/common/entropy.c): rd_read and rd_write move a buffer of any *)
(* size through the generators of KernelRandom, a block at a time. Another *)
(* thread may take kgen_lock between two blocks, and then krand_dev gives  *)
(* up.                                                                     *)
(*                                                                         *)
(* A request is [kind, kernel, asked, sz, total, given, left]: its kind is *)
(* in the end "complete", "short" (a read) or "written", kernel says       *)
(* which of the two descriptions, sz and total are the variables of the    *)
(* code (total_read or total_written), given the bytes of the caller's     *)
(* buffer that hold random bytes, left the whole blocks of it that are     *)
(* still to be ingested.                                                   *)
(***************************************************************************)
EXTENDS KernelRandom, FiniteSetsExt

CONSTANTS
  BLOCK,      \* the bytes a generator gives or takes at once, 16 in the code
  MaxSize,    \* bound on the size of a request
  Users       \* the threads that use the devices; the others call directly

ASSUME DeviceAssumption ==
  /\ BLOCK \in Nat \ {0}
  /\ MaxSize \in Nat
  /\ Users \subseteq Threads

VARIABLE request

devVars == <<vars, request>>

NoRequest == [kind |-> "none", kernel |-> FALSE, asked |-> 0, sz |-> 0,
              total |-> 0, given |-> 0, left |-> 0]

DevInit == Init /\ request = [t \in Users |-> NoRequest]

Active(t) == request[t].kind \in {"read", "write"}

-----------------------------------------------------------------------------
(* rd_read or rd_write is called. *)
Open(t, kind, kernel, asked) ==
  /\ pc[t] = "idle" /\ ~Active(t)
  /\ request' = [request EXCEPT ![t] =
                   [kind |-> kind, kernel |-> kernel, asked |-> asked, sz |-> asked,
                    total |-> IF kind = "write" THEN asked ELSE 0, given |-> 0,
                    left |-> IF kind = "write" THEN asked \div BLOCK + 1 ELSE 0]]
  /\ UNCHANGED vars

(* Whether rd_read asks for another block: all whole ones, and one for the *)
(* rest.                                                                   *)
More(r) == r.sz > 0

(* The generator has given a block, and all or the first bytes of it are   *)
(* copied: total_read counts a whole block in either case.                 *)
Filled(r) ==
  [r EXCEPT !.given = @ + Min({r.sz, BLOCK}), !.total = @ + BLOCK,
            !.sz = @ - Min({r.sz, BLOCK})]

(* The block is ingested; after the whole ones the first is once more,     *)
(* whatever the rest is.                                                   *)
Taken(r) == [r EXCEPT !.left = @ - 1, !.sz = IF @ >= BLOCK THEN @ - BLOCK ELSE @]

(* desc->gen *)
CallGen(t) ==
  /\ pc[t] = "idle" /\ request[t].kind = "read" /\ More(request[t])
  /\ IF request[t].kernel THEN KGlobalGen(t) ELSE GlobalGen(t)
  /\ request' = IF pc'[t] = "idle" THEN [request EXCEPT ![t] = Filled(@)] ELSE request

(* desc->ingest *)
CallIngest(t) ==
  /\ pc[t] = "idle" /\ request[t].kind = "write" /\ request[t].left > 0
  /\ IF request[t].kernel THEN KGlobalIngest(t) ELSE GlobalIngest(t)
  /\ request' = IF pc'[t] = "idle" THEN [request EXCEPT ![t] = Taken(@)] ELSE request

(* Faulty variant: the -1 of a generator is not looked at.                 *)
AnsweredAnyway(t) ==
  CASE request[t].kind = "write" -> Taken(request[t])
    [] request[t].kind # "write" /\ pc[t] = "try" ->
         [Filled(request[t]) EXCEPT !.given = request[t].given]
    [] OTHER -> Filled(request[t])

(* What a call that comes back has done: the failed try of the lock is the *)
(* -1 that ends a read.                                                    *)
Answered(t) ==
  CASE request[t].kind = "write" -> Taken(request[t])
    [] request[t].kind # "write" /\ pc[t] = "try" -> [request[t] EXCEPT !.kind = "short"]
    [] OTHER -> Filled(request[t])

(* A step inside a generator, of whoever called it. *)
Inside(t) ==
  /\ Step(t)
  /\ request' = IF t \in Users /\ pc'[t] = "idle"
                THEN [request EXCEPT ![t] = Answered(t)] ELSE request

(* The return of total_read or total_written. *)
Return(t) ==
  /\ pc[t] = "idle" /\ Active(t)
  /\ IF request[t].kind = "read" THEN ~More(request[t]) ELSE request[t].left = 0
  /\ request' = [request EXCEPT ![t].kind = IF @ = "read" THEN "complete" ELSE "written"]
  /\ UNCHANGED vars

Device(t) == CallGen(t) \/ CallIngest(t) \/ Return(t)

DevNext ==
  \/ \E t \in Users :
       \/ \E kind \in {"read", "write"}, kernel \in BOOLEAN, asked \in 0..MaxSize :
            Open(t, kind, kernel, asked)
       \/ Device(t)
  \/ \E t \in Threads \ Users : Call(t) /\ UNCHANGED request
  \/ \E t \in Threads : Inside(t)

DevSpec ==
  /\ DevInit /\ [][DevNext]_devVars
  /\ \A t \in Threads : WF_devVars(Inside(t))
  /\ \A t \in Users : WF_devVars(Device(t))

-----------------------------------------------------------------------------
(* However a read of a device is cut short by threads that hold the        *)
(* generator, every byte of the buffer that it says it has read came from  *)
(* the generator, and it says no less than it was given. Only krand_dev is *)
(* ever cut short. (For a rest the count is rounded up to a block: what    *)
(* lies behind the buffer's end is not the caller's.)                      *)
ReadsAreCounted ==
  \A t \in Users :
    LET r == request[t]
    IN  /\ r.kind \in {"complete", "short"} => r.given = Min({r.total, r.asked})
        /\ r.kind = "complete" => r.given = r.asked
        /\ r.kind = "short" => r.kernel

(* Whoever draws random bytes, through a device or directly, is never made *)
(* to wait by threads that use the generators, however often they do.      *)
ReadsReturn ==
  /\ DrawsReturn
  /\ \A t \in Users : request[t].kind = "read" ~> request[t].kind # "read"
=============================================================================
