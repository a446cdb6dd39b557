------------------------------- MODULE MCBoot -------------------------------
(***************************************************************************)
(* Boots on small machines: every map of three regions of these sizes,     *)
(* with and without a hole, or with two regions that overlap and are both  *)
(* reserved, in which the largest usable region, if there is any, has room *)
(* for the fixed reservation.                                              *)
(***************************************************************************)
EXTENDS Boot

Region(base, length, type) == [base |-> base, length |-> length, type |-> type]

Maps(lengths) ==
  {<<Region(0, l1, t1), Region(l1 + gap, l2, t2), Region(l1 + gap + l2, l3, t3)>> :
     l1 \in lengths, l2 \in lengths, l3 \in lengths, gap \in {-4, 0, 4},
     t1 \in {"usable", "reserved"}, t2 \in {"usable", "reserved"},
     t3 \in {"usable", "reserved"}}

RoomFor(n, map) ==
  LET usable == {i \in DOMAIN map : map[i].type = "usable"}
  IN  usable # {} => \E i \in usable : map[i].length >= n

UsableApart(map) ==
  \A i, j \in DOMAIN map : i # j /\ map[i].type = "usable" => Apart(map[i], map[j])

MCFirmwareMaps == {map \in Maps({4, 24, 40}) : RoomFor(24, map) /\ UsableApart(map)}

(* The kernel is given none of these, but the prekernel's map.             *)
MCMemMaps == {<<>>}
=============================================================================
