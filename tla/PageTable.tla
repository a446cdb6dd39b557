----------------------------- MODULE PageTable -----------------------------
(***************************************************************************)
(* The kernel's page tables (kernel/src/x86_64/paging.c): clone_page_table *)
(* copies the boot loader's, entry by entry, and add_to_hhdm then adds     *)
(* pages to the copy, level by level.                                      *)
(*                                                                         *)
(* A table is a number, a page of memory another; FAN entries to a table   *)
(* (512) and LEVELS levels (4). The direct map puts the page with physical *)
(* number p at virtual number p, its offset left out; the digits of p in   *)
(* base FAN are its indices in the tables.                                 *)
(***************************************************************************)
EXTENDS Integers, Sequences, FiniteSets

CONSTANTS
  FAN, LEVELS,
  BootTables,      \* the trees of tables the boot loader may leave, rooted at 0
  Requests         \* the calls of add_to_hhdm: [page, granularity, flags]

ASSUME PagingAssumption ==
  /\ FAN \in Nat \ {0, 1}
  /\ LEVELS \in Nat \ {0}

EntryT == [present : BOOLEAN, ps : BOOLEAN, addr : Nat, write : BOOLEAN, nx : BOOLEAN]

(* An entry of a table of this level refers to a table.                    *)
IsLink(e, level) == e.present /\ level > 1 /\ ~e.ps

(* The number of pages an entry of a level stands for. *)
Span[level \in Nat] == IF level <= 1 THEN 1 ELSE FAN * Span[level - 1]

Pages == 0..(FAN * Span[LEVELS] - 1)

(* The entry of a table is for the pages whose number begins with place:   *)
(* it maps them directly, or refers to the table for them.                 *)
InPlace(e, level, base, place) ==
  e.present => IF IsLink(e, level) THEN base[e.addr] = place
               ELSE e.addr = place * Span[level]

(* The boot loader's tables are numbered from the root, each is of one     *)
(* level, and each entry for a table has one.                              *)
Leveled(ts, depth) ==
  /\ depth[0] = LEVELS
  /\ \A t \in DOMAIN ts, i \in 0..(FAN - 1) : IsLink(ts[t][i], depth[t]) =>
       ts[t][i].addr \in DOMAIN ts /\ depth[ts[t][i].addr] = depth[t] - 1

ASSUME BootTablesAssumption == \A ts \in BootTables :
  /\ IsFiniteSet(DOMAIN ts)
  /\ 0 \in DOMAIN ts /\ DOMAIN ts = 0..(Cardinality(DOMAIN ts) - 1)
  /\ ts \in [DOMAIN ts -> [0..(FAN - 1) -> EntryT]]
  /\ \E depth \in [DOMAIN ts -> 1..LEVELS] : Leveled(ts, depth)

(* Each is for one range of pages, and maps what it maps of them directly. *)
Direct(ts, depth, base) ==
  /\ base[0] = 0
  /\ \A t \in DOMAIN ts, i \in 0..(FAN - 1) :
       InPlace(ts[t][i], depth[t], base, base[t] * FAN + i)

ASSUME DirectMapAssumption == \A ts \in BootTables :
  \E depth \in [DOMAIN ts -> 1..LEVELS] :
    /\ Leveled(ts, depth)
    /\ \E base \in [DOMAIN ts -> Pages] : Direct(ts, depth, base)

ASSUME RequestsAssumption == \A r \in Requests :
  r.page \in Pages /\ r.granularity \in 0..(LEVELS - 1)

VARIABLES
  tables,      \* the tables by number: those of the boot loader, then ours
  cr3,
  stack,       \* the calls of clone_page_table_level, innermost first
  stage,       \* "boot", "clone", "idle", "add", "halted"
  call,        \* add_to_hhdm: its request, cur_level and page_table
  added        \* the requests it has served, the latest for each page

paging_vars == <<tables, cr3, stack, stage, call, added>>

Absent == [present |-> FALSE, ps |-> FALSE, addr |-> 0, write |-> FALSE, nx |-> FALSE]

Empty == [i \in 0..(FAN - 1) |-> Absent]

NoCall == [request |-> [page |-> 0, granularity |-> 0, flags |-> {}],
           cur_level |-> 0, page_table |-> 0]

PagingInit ==
  /\ tables \in BootTables
  /\ cr3 = 0
  /\ stack = <<>>
  /\ stage = "boot"
  /\ call = NoCall
  /\ added = {}

-----------------------------------------------------------------------------
InGranule(p, r) == p \div Span[r.granularity + 1] = r.page \div Span[r.granularity + 1]

Index(page, level) == (page \div Span[level]) % FAN

(* A fresh table from the heap, with whatever it holds. *)
NewTable == Cardinality(DOMAIN tables)

WithTable(content) == [t \in DOMAIN tables \union {NewTable} |->
                         IF t = NewTable THEN content ELSE tables[t]]

Garbage == [i \in 0..(FAN - 1) |-> [Absent EXCEPT !.present = TRUE, !.addr = 0]]

StartClone ==
  /\ stage = "boot"
  /\ tables' = WithTable(Garbage)
  /\ stack' = <<[orig |-> cr3, new |-> NewTable, level |-> LEVELS, idx |-> 0]>>
  /\ stage' = "clone"
  /\ UNCHANGED <<cr3, call, added>>

Frame == Head(stack)
OrigEntry == tables[Frame.orig][Frame.idx]
Recurses == IsLink(OrigEntry, Frame.level)
Advanced == <<[Frame EXCEPT !.idx = @ + 1]>> \o Tail(stack)

(* Faulty variant: the copy refers to the boot loader's lower tables. *)
CloneShared ==
  /\ stage = "clone" /\ stack # <<>>
  /\ Frame.idx < FAN
  /\ tables' = [tables EXCEPT ![Frame.new][Frame.idx] = OrigEntry]
  /\ stack' = Advanced
  /\ UNCHANGED <<cr3, stage, call, added>>

(* Faulty variant: only what is present is written. *)
ClonePresent ==
  /\ stage = "clone" /\ stack # <<>>
  /\ Frame.idx < FAN /\ ~Recurses
  /\ tables' = IF OrigEntry.present
               THEN [tables EXCEPT ![Frame.new][Frame.idx] = OrigEntry] ELSE tables
  /\ stack' = Advanced
  /\ UNCHANGED <<cr3, stage, call, added>>

(* An absent entry, or one for memory, is copied as it is. *)
CloneEntry ==
  /\ stage = "clone" /\ stack # <<>>
  /\ Frame.idx < FAN /\ ~Recurses
  /\ tables' = [tables EXCEPT ![Frame.new][Frame.idx] = OrigEntry]
  /\ stack' = Advanced
  /\ UNCHANGED <<cr3, stage, call, added>>

(* An entry for a table gets a table of its own, filled by the inner call. *)
CloneTable ==
  /\ stage = "clone" /\ stack # <<>>
  /\ Frame.idx < FAN /\ Recurses
  /\ tables' = [WithTable(Garbage) EXCEPT
                  ![Frame.new][Frame.idx] = [OrigEntry EXCEPT !.addr = NewTable]]
  /\ stack' = <<[orig |-> OrigEntry.addr, new |-> NewTable,
                 level |-> Frame.level - 1, idx |-> 0]>> \o Advanced
  /\ UNCHANGED <<cr3, stage, call, added>>

CloneReturn ==
  /\ stage = "clone" /\ stack # <<>>
  /\ Frame.idx = FAN
  /\ stack' = Tail(stack)
  /\ IF Tail(stack) = <<>>
     THEN cr3' = Frame.new /\ stage' = "idle"
     ELSE UNCHANGED <<cr3, stage>>
  /\ UNCHANGED <<tables, call, added>>

-----------------------------------------------------------------------------
(* set_flags *)
SetFlags(entry, flags, stay_permissive) ==
  [entry EXCEPT !.nx = ~("exec" \in flags \/ stay_permissive),
                !.write = "write" \in flags \/ stay_permissive]

Add(request) ==
  /\ stage = "idle"
  /\ stage' = "add"
  /\ call' = [request |-> request, cur_level |-> LEVELS, page_table |-> cr3]
  /\ UNCHANGED <<tables, cr3, stack, added>>

(* The variables of add_to_hhdm at the head of its loop. *)
request == call.request
entry_idx == Index(request.page, call.cur_level)
entry == tables[call.page_table][entry_idx]
level_matches_granularity == call.cur_level = request.granularity + 1
can_descend == call.cur_level > 1 /\ ~entry.ps

SetEntry(e) == tables' = [tables EXCEPT ![call.page_table][entry_idx] = e]

Return ==
  /\ stage' = "idle"
  /\ call' = NoCall
  /\ added' = {r \in added : ~InGranule(r.page, request)} \union {request}

AddPresent ==
  /\ stage = "add" /\ entry.present
  /\ level_matches_granularity /\ ~can_descend
  /\ SetEntry(SetFlags(entry, request.flags, FALSE))
  /\ Return
  /\ UNCHANGED <<cr3, stack>>

(* Faulty variant: the flags of the page are put on the way to it.         *)
AddDescendStrict ==
  /\ stage = "add" /\ entry.present
  /\ ~level_matches_granularity /\ can_descend
  /\ SetEntry(SetFlags(entry, request.flags, FALSE))
  /\ call' = [call EXCEPT !.cur_level = @ - 1, !.page_table = entry.addr]
  /\ UNCHANGED <<cr3, stack, stage, added>>

AddDescend ==
  /\ stage = "add" /\ entry.present
  /\ ~level_matches_granularity /\ can_descend
  /\ SetEntry(SetFlags(entry, request.flags, TRUE))
  /\ call' = [call EXCEPT !.cur_level = @ - 1, !.page_table = entry.addr]
  /\ UNCHANGED <<cr3, stack, stage, added>>

(* A table where a page is asked for, or a larger page in the way: hcf. *)
AddHalts ==
  /\ stage = "add" /\ entry.present
  /\ (level_matches_granularity <=> can_descend)
  /\ stage' = "halted"
  /\ UNCHANGED <<tables, cr3, stack, call, added>>

AddPage ==
  /\ stage = "add" /\ ~entry.present
  /\ level_matches_granularity
  /\ SetEntry([SetFlags(Absent, request.flags, FALSE) EXCEPT
                 !.present = TRUE, !.ps = call.cur_level # 1,
                 !.addr = (request.page \div Span[call.cur_level]) * Span[call.cur_level]])
  /\ Return
  /\ UNCHANGED <<cr3, stack>>

(* A zeroed table is put in; the loop comes back to the entry. *)
AddTable ==
  /\ stage = "add" /\ ~entry.present
  /\ ~level_matches_granularity
  /\ tables' = [WithTable(Empty) EXCEPT ![call.page_table][entry_idx] =
                  [SetFlags(Absent, request.flags, TRUE) EXCEPT
                     !.present = TRUE, !.addr = NewTable]]
  /\ UNCHANGED <<cr3, stack, stage, call, added>>

Clone == StartClone \/ CloneEntry \/ CloneTable \/ CloneReturn
AddStep == AddPresent \/ AddDescend \/ AddHalts \/ AddPage \/ AddTable

PagingNext ==
  \/ Clone
  \/ \E r \in Requests : Add(r)
  \/ AddStep

PagingSpec == PagingInit /\ [][PagingNext]_paging_vars

-----------------------------------------------------------------------------
(* What the processor makes of a page number: the page of memory with the  *)
(* permissions of all entries on the way, or nothing.                      *)
Leaf(e, level, page) ==
  {[page |-> e.addr + (page % Span[level]), write |-> e.write, nx |-> e.nx]}

Through(e, found) ==
  {[x EXCEPT !.write = @ /\ e.write, !.nx = @ \/ e.nx] : x \in found}

Translate(ts, root, page) ==
  LET walk[level \in 1..LEVELS] ==
        [t \in DOMAIN ts |->
          LET e == ts[t][Index(page, level)]
          IN  IF ~e.present \/ (IsLink(e, level) /\ e.addr \notin DOMAIN ts) THEN {}
              ELSE IF IsLink(e, level) THEN Through(e, walk[level - 1][e.addr])
              ELSE Leaf(e, level, page)]
  IN  walk[LEVELS][root]

(* The entries, of tables of a level, that refer to tables.                *)
Links(level, ts) ==
  {link \in ts \X (0..(FAN - 1)) : IsLink(tables[link[1]][link[2]], level)}

(* The tables reached from cr3, by level.                                  *)
Reached[level \in 1..LEVELS] ==
  IF level = LEVELS THEN {cr3}
  ELSE {tables[link[1]][link[2]].addr : link \in Links(level + 1, Reached[level + 1])}

Running == stage \in {"idle", "add", "halted"}

(* The switch to the copy changes nothing: every page has the same memory  *)
(* and the same permissions as under the boot loader's tables.             *)
CloneFaithful ==
  [][cr3' # cr3 =>
       \A p \in Pages : Translate(tables', cr3', p) = Translate(tables, cr3, p)]_paging_vars

(* Once cloned, the kernel's tables form a tree of their own: no table is  *)
(* reached twice, and none of the boot loader's, whose memory is given     *)
(* back, is reached at all. (Ours are numbered from the root on.)          *)
OwnTables ==
  Running =>
    /\ \A l \in 1..LEVELS : Reached[l] \subseteq cr3..(NewTable - 1)
    /\ \A l, m \in 1..LEVELS : l # m => Reached[l] \intersect Reached[m] = {}
    /\ \A l \in 2..LEVELS : Cardinality(Links(l, Reached[l])) = Cardinality(Reached[l - 1])

(* A page that add_to_hhdm has returned can be used as it was asked for,   *)
(* with these permissions and no others, and stays so until the next call  *)
(* for it.                                                                 *)
AddedIsUsable ==
  Running /\ stage # "add" =>
    \A r \in added : \A p \in {q \in Pages : InGranule(q, r)} :
      Translate(tables, cr3, p) =
        {[page |-> p, write |-> "write" \in r.flags, nx |-> "exec" \notin r.flags]}

(* A call does no harm to the pages it is not for: one that was mapped     *)
(* stays mapped and loses no permission, one that was not stays so.        *)
OthersKept ==
  [][stage = "add" =>
       \A p \in {q \in Pages : ~InGranule(q, request)} :
         LET before == Translate(tables, cr3, p)
             after  == Translate(tables', cr3, p)
         IN  /\ before = {} => after = {}
             /\ \A x \in before : \E y \in after :
                  /\ y.page = x.page
                  /\ x.write => y.write
                  /\ y.nx => x.nx]_paging_vars
=============================================================================
