---------------------------- MODULE MCPageTable ----------------------------
(***************************************************************************)
(* Three levels of four entries: pages 0 to 63. The boot loader maps the   *)
(* first eight directly, in small pages or in large ones, and perhaps some *)
(* more. The kernel has two pages of code, then perhaps one that is        *)
(* relocated, then three of data that cross into the second table or not,  *)
(* and that lie before the others in the list of headers; it never takes   *)
(* the first page of its table. Two images are refused: for code that can  *)
(* be written, and for a stack that can be executed (a header that loads   *)
(* nothing).                                                               *)
(***************************************************************************)
EXTENDS KernelImage, TLC

Small(addr) == [present |-> TRUE, ps |-> FALSE, addr |-> addr, write |-> TRUE, nx |-> FALSE]
Large(addr) == [Small(addr) EXCEPT !.ps = TRUE]
Entries(a, b, c, d) == 0 :> a @@ 1 :> b @@ 2 :> c @@ 3 :> d

MCBootTables ==
  {0 :> Entries([Small(1) EXCEPT !.nx = nx], top, Absent, Absent)
     @@ 1 :> Entries(Small(2), second, Absent, third)
     @@ 2 :> Entries(Small(0), Small(1), Small(2), Small(3))
     @@ (IF second.ps THEN <<>> ELSE 3 :> Entries(Small(4), Small(5), Small(6), Small(7))) :
     nx \in {TRUE, FALSE},
     top \in {Absent, [Large(16) EXCEPT !.nx = TRUE]},
     second \in {Small(3), Large(4)},
     third \in {Absent, [Large(12) EXCEPT !.write = FALSE]}}

MCRequests ==
  [page : {0, 9, 17}, granularity : {0}, flags : {{}, {"write"}, {"exec"}}]
    \union [page : {9, 13}, granularity : {1}, flags : {{"write"}}]
    \union [page : {33}, granularity : {2}, flags : {{"write"}}]

Load(paddr, memsz, filesz, offset, flags) ==
  [paddr |-> paddr, memsz |-> memsz, filesz |-> filesz, offset |-> offset, flags |-> flags]
Code == Load(0, 4, 4, 0, {"exec"})
Relr(i, w) == [kind |-> i, where |-> w]

MCImages ==
  {[root |-> r, segments |-> <<Code, Load(4, 5, 3, 4, {"write"})>>, others |-> {{"write"}},
    relr |-> <<Relr("address", 4), Relr("bitmap", 5)>>] : r \in {1, 2}}
  \union
  {[root |-> 1, segments |-> <<Code, Load(6, 5, 2, 6, {"write"}), Load(4, 2, 2, 4, {"write"})>>,
    others |-> {{}, {"write"}},
    relr |-> <<Relr("address", 4), Relr("address", 7)>>],
   [root |-> 1, segments |-> <<Load(0, 4, 4, 0, {"exec", "write"})>>, others |-> {}, relr |-> <<>>],
   [root |-> 1, segments |-> <<Code>>, others |-> {{"write"}, {"write", "exec"}}, relr |-> <<>>]}
=============================================================================
