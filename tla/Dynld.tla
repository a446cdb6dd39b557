------------------------------- MODULE Dynld -------------------------------
(***************************************************************************)
(* Linking a library (dynld_link and apply_rel in loader/src/dynld.c): its *)
(* relocations are applied in up to four passes, then it is entered in the *)
(* table of libraries under the lock in the table's header. Several        *)
(* threads may link at once; each links one library of its own.            *)
(*                                                                         *)
(* A library is what the loop over its dynamic section found:              *)
(*   rel, jmprel   its two tables of relocations, sequences of             *)
(*                 [type, ifunc, local]: whether the symbol is an indirect *)
(*                 function, and whether it is one of the library's own    *)
(*   bind_now, needs (whether it names other libraries)                    *)
(* and, with it, no_relocate: the caller says that its loader has done it. *)
(* Symbol 0, which relocations without a symbol have, is not local here:   *)
(* its st_shndx is 0.                                                      *)
(***************************************************************************)
EXTENDS Naturals, Sequences, FiniteSets

CONSTANTS
  Threads,
  Libraries,
  MaxEntries,     \* the places in the table
  NoThread

Types == {"JUMP_SLOT", "GLOB_DAT", "RELATIVE", "IRELATIVE", "UNKNOWN"}

Relocation == [type : Types, ifunc : BOOLEAN, local : BOOLEAN]

(* DO_REL takes the size of the rel table for both tables: jmprel is taken *)
(* to be as long at least, where it is read.                               *)
ASSUME DynldAssumption ==
  /\ MaxEntries \in Nat \ {0}
  /\ NoThread \notin Threads
  /\ \A l \in Libraries :
       /\ l.rel \in Seq(Relocation) /\ l.jmprel \in Seq(Relocation)
       /\ l.bind_now \in BOOLEAN /\ l.needs \in BOOLEAN /\ l.no_relocate \in BOOLEAN
       /\ l.bind_now => Len(l.jmprel) >= Len(l.rel)

VARIABLES
  library,      \* the library each thread links
  pc,           \* the pass it is in, or what it does next
  next,         \* the relocation of the pass it comes to
  has_defered,  \* _has_defered of the pass
  rel_defered, jmprel_defered,
  applied,      \* the relocations it has applied, in order: [table, index, resolver]
  lock,         \* the lock bit of dynld_lock_and_offset
  offset,       \* the rest of it
  entries       \* who wrote each place of the table last

vars == <<library, pc, next, has_defered, rel_defered, jmprel_defered, applied,
          lock, offset, entries>>

linking == <<library, pc, next, has_defered, rel_defered, jmprel_defered, applied>>
table == <<lock, offset, entries>>

Init ==
  /\ library \in [Threads -> Libraries]
  /\ pc = [t \in Threads |-> "start"]
  /\ next = [t \in Threads |-> 1]
  /\ has_defered = [t \in Threads |-> FALSE]
  /\ rel_defered = [t \in Threads |-> FALSE]
  /\ jmprel_defered = [t \in Threads |-> FALSE]
  /\ applied = [t \in Threads |-> <<>>]
  /\ lock = FALSE
  /\ offset = 0
  /\ entries = [i \in 0..(MaxEntries - 1) |-> NoThread]

Set(f, t, x) == f' = [f EXCEPT ![t] = x]

-----------------------------------------------------------------------------
Passes == {"rel", "jmprel", "rel again", "jmprel again"}

Table(pass) == IF pass \in {"rel", "rel again"} THEN "rel" ELSE "jmprel"
Defered(pass) == pass \in {"rel again", "jmprel again"}

Relocations(t) == IF Table(pc[t]) = "rel" THEN library[t].rel ELSE library[t].jmprel

relcount(t) == Len(library[t].rel)

(* A library that needs others is not linked yet, nor one that is not to   *)
(* be relocated and has a rel table; a jmprel table may be there.          *)
Refused(l) == l.needs \/ (l.no_relocate /\ l.rel # <<>>)

Start(t) ==
  /\ pc[t] = "start"
  /\ Set(pc, t, IF Refused(library[t]) THEN "failed"
                ELSE IF library[t].no_relocate THEN "lock" ELSE "rel")
  /\ UNCHANGED <<library, next, has_defered, rel_defered, jmprel_defered, applied, table>>

IsResolver(r) == r.type = "IRELATIVE" \/ (r.type = "JUMP_SLOT" /\ r.ifunc)

(* Faulty variant: the second pass does not skip what the first has done.  *)
AppliesTwice(r, pass) == ~IsResolver(r) \/ Defered(pass)

(* Faulty variant: resolvers run as they come.                             *)
AppliesAnyTime(r, pass) == IsResolver(r) \/ ~Defered(pass)

(* Whether apply_rel does something with a relocation in a pass.           *)
Applies(r, pass) == IsResolver(r) <=> Defered(pass)

(* What it returns, if no error: a null pointer has the relocation count   *)
(* as deferred, which a relative one always does.                          *)
ReturnsNull(r, pass) == ~Applies(r, pass) \/ r.type = "RELATIVE"

Fails(r) == ~r.local \/ r.type = "UNKNOWN"

(* Faulty variant: only the last relocation of a pass says if it was       *)
(* deferred.                                                               *)
RelocateLastCounts(t) ==
  /\ pc[t] \in Passes /\ next[t] <= relcount(t)
  /\ LET r == Relocations(t)[next[t]]
     IN  /\ ~Fails(r)
         /\ Set(applied, t,
                IF Applies(r, pc[t])
                THEN Append(applied[t], [table |-> Table(pc[t]), index |-> next[t],
                                         resolver |-> IsResolver(r)])
                ELSE applied[t])
         /\ Set(has_defered, t, ReturnsNull(r, pc[t]))
  /\ Set(next, t, next[t] + 1)
  /\ UNCHANGED <<library, pc, rel_defered, jmprel_defered, table>>

(* One turn of the loop of DO_REL. *)
Relocate(t) ==
  /\ pc[t] \in Passes /\ next[t] <= relcount(t)
  /\ LET r == Relocations(t)[next[t]]
     IN  /\ ~Fails(r)
         /\ Set(applied, t,
                IF Applies(r, pc[t])
                THEN Append(applied[t], [table |-> Table(pc[t]), index |-> next[t],
                                         resolver |-> IsResolver(r)])
                ELSE applied[t])
         /\ Set(has_defered, t, has_defered[t] \/ ReturnsNull(r, pc[t]))
  /\ Set(next, t, next[t] + 1)
  /\ UNCHANGED <<library, pc, rel_defered, jmprel_defered, table>>

RelocateFails(t) ==
  /\ pc[t] \in Passes /\ next[t] <= relcount(t)
  /\ Fails(Relocations(t)[next[t]])
  /\ Set(pc, t, "failed")
  /\ UNCHANGED <<library, next, has_defered, rel_defered, jmprel_defered, applied, table>>

(* The pass after one that ends, with what that one has found out. *)
Following(t) ==
  LET relAgain == IF pc[t] = "rel" THEN has_defered[t] ELSE rel_defered[t]
      jmprelAgain == library[t].bind_now /\
                     (IF pc[t] = "jmprel" THEN has_defered[t] ELSE jmprel_defered[t])
  IN  IF pc[t] = "rel" /\ library[t].bind_now THEN "jmprel"
      ELSE IF pc[t] \in {"rel", "jmprel"} /\ relAgain THEN "rel again"
      ELSE IF pc[t] # "jmprel again" /\ jmprelAgain THEN "jmprel again"
      ELSE "lock"

PassEnds(t) ==
  /\ pc[t] \in Passes /\ next[t] > relcount(t)
  /\ IF Table(pc[t]) = "rel"
     THEN Set(rel_defered, t, has_defered[t]) /\ UNCHANGED jmprel_defered
     ELSE Set(jmprel_defered, t, has_defered[t]) /\ UNCHANGED rel_defered
  /\ Set(pc, t, Following(t))
  /\ Set(next, t, 1)
  /\ Set(has_defered, t, FALSE)
  /\ UNCHANGED <<library, applied, table>>

-----------------------------------------------------------------------------
(* Faulty variant: the lock is tested, then taken.                         *)
LockTested(t) ==
  \/ /\ pc[t] = "lock" /\ ~lock
     /\ Set(pc, t, "take")
     /\ UNCHANGED <<library, next, has_defered, rel_defered, jmprel_defered, applied, table>>
  \/ /\ pc[t] = "take"
     /\ lock' = TRUE
     /\ Set(pc, t, "enter")
     /\ UNCHANGED <<library, next, has_defered, rel_defered, jmprel_defered,
                    applied, offset, entries>>

(* The fetch_or that ends the spin. *)
Lock(t) ==
  /\ pc[t] = "lock" /\ ~lock
  /\ lock' = TRUE
  /\ Set(pc, t, IF offset = MaxEntries THEN "failed" ELSE "enter")
  /\ UNCHANGED <<library, next, has_defered, rel_defered, jmprel_defered,
                 applied, offset, entries>>

Enter(t) ==
  /\ pc[t] = "enter"
  /\ entries' = [entries EXCEPT ![offset] = t]
  /\ Set(pc, t, "unlock")
  /\ UNCHANGED <<library, next, has_defered, rel_defered, jmprel_defered,
                 applied, lock, offset>>

(* Faulty variant: the lock is kept.                                       *)
UnlockNot(t) ==
  /\ pc[t] = "unlock"
  /\ Set(pc, t, "linked")
  /\ UNCHANGED <<library, next, has_defered, rel_defered, jmprel_defered,
                 applied, table>>

(* The store that releases the lock puts back the offset as it was. *)
Unlock(t) ==
  /\ pc[t] = "unlock"
  /\ lock' = FALSE
  /\ Set(pc, t, "linked")
  /\ UNCHANGED <<library, next, has_defered, rel_defered, jmprel_defered,
                 applied, offset, entries>>

Step(t) ==
  \/ Start(t)
  \/ Relocate(t) \/ RelocateFails(t)
  \/ PassEnds(t)
  \/ Lock(t)
  \/ Enter(t)
  \/ Unlock(t)

Next == \E t \in Threads : Step(t)

Spec == Init /\ [][Next]_vars

(* Each thread links one library, so that a spinning one is not overtaken  *)
(* for ever.                                                               *)
FairSpec == Spec /\ \A t \in Threads : WF_vars(Step(t))

-----------------------------------------------------------------------------
(* The relocations of a library that dynld_link applies by itself: none of *)
(* one that its loader has relocated, as the kernel is of itself.          *)
Due(t) ==
  {[table |-> "rel", index |-> i, resolver |-> IsResolver(library[t].rel[i])] :
     i \in 1..relcount(t)}
  \union
  IF library[t].bind_now /\ ~library[t].no_relocate
  THEN {[table |-> "jmprel", index |-> i, resolver |-> IsResolver(library[t].jmprel[i])] :
          i \in 1..relcount(t)}
  ELSE {}

AppliedSet(t) == {applied[t][i] : i \in DOMAIN applied[t]}

(* No relocation is applied twice, through all passes: one that adds to    *)
(* what is in place (DT_REL) would give a wrong address then. And a        *)
(* library comes into the table with all of its relocations applied, those *)
(* included that the first passes put off.                                 *)
RelocatedOnce ==
  \A t \in Threads :
    /\ Cardinality(AppliedSet(t)) = Len(applied[t])
    /\ pc[t] \in {"lock", "enter", "unlock", "linked"} => AppliedSet(t) = Due(t)

(* A resolver is code of the library: when one is run, every other         *)
(* relocation of the library, in either table, has been applied.           *)
ResolversRunLast ==
  \A t \in Threads : \A i, j \in DOMAIN applied[t] :
    applied[t][i].resolver /\ i < j => applied[t][j].resolver

(* One thread at a time writes to the table of libraries.                  *)
TableExclusive ==
  \A s, t \in Threads : pc[s] \in {"enter", "unlock"} /\ pc[t] \in {"enter", "unlock"} => s = t

(* Every call of dynld_link returns, linked or failed, as long as the      *)
(* table is not full.                                                      *)
LinksReturn == \A t \in Threads : <>(pc[t] \in {"linked", "failed"})
=============================================================================
