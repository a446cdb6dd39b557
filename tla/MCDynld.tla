------------------------------ MODULE MCDynld ------------------------------
(***************************************************************************)
(* Two threads, each with any library with two relocations to a table, of  *)
(* all types: some that cannot be applied, but at most one to a library.   *)
(***************************************************************************)
EXTENDS Dynld

Rel(type, ifunc, local) == [type |-> type, ifunc |-> ifunc, local |-> local]

Good == {Rel("JUMP_SLOT", FALSE, TRUE), Rel("JUMP_SLOT", TRUE, TRUE),
         Rel("GLOB_DAT", FALSE, TRUE), Rel("RELATIVE", FALSE, TRUE),
         Rel("IRELATIVE", FALSE, TRUE)}
Bad == {Rel("RELATIVE", FALSE, FALSE), Rel("UNKNOWN", FALSE, TRUE)}

Library(rel, jmprel, now, needs) ==
  [rel |-> rel, jmprel |-> jmprel, bind_now |-> now, needs |-> needs, no_relocate |-> FALSE]

Relocated(l) == [l EXCEPT !.no_relocate = TRUE]

Jmprel == <<Rel("JUMP_SLOT", TRUE, TRUE), Rel("JUMP_SLOT", FALSE, TRUE)>>
OutsideJmprel == <<Rel("JUMP_SLOT", FALSE, TRUE), Rel("JUMP_SLOT", FALSE, FALSE)>>

Second == {Rel("JUMP_SLOT", TRUE, TRUE), Rel("GLOB_DAT", FALSE, TRUE), Rel("RELATIVE", FALSE, TRUE)}

MCLibraries ==
  {Library(<<r, s>>, Jmprel, now, FALSE) : r \in Good, s \in Second, now \in BOOLEAN}
    \union {Library(<<r, r>>, OutsideJmprel, now, FALSE) :
              r \in {Rel("IRELATIVE", FALSE, TRUE)}, now \in BOOLEAN}
    \union {Library(<<>>, <<>>, FALSE, needs) : needs \in BOOLEAN}
    \union {Relocated(Library(<<>>, Jmprel, TRUE, FALSE)),
            Relocated(Library(<<Rel("RELATIVE", FALSE, TRUE)>>, <<>>, FALSE, FALSE))}
    \union {Library(<<Rel("GLOB_DAT", FALSE, TRUE), b>>, <<>>, FALSE, FALSE) : b \in Bad}
=============================================================================
