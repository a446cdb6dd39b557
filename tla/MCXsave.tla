------------------------------- MODULE MCXsave -------------------------------
(***************************************************************************)
(* Components 2 to 4, of which 3 is missing; threads with legacy, standard *)
(* and compacted contexts.                                                 *)
(***************************************************************************)
EXTENDS Xsave, TLC

MCLeaf == 2 :> [size |-> 256, offset |-> 576, aligned |-> FALSE]
            @@ 4 :> [size |-> 64, offset |-> 960, aligned |-> TRUE]

Context(size, bv, compact) == [size |-> size, xstate_bv |-> bv, compact |-> compact]
MCContexts == {Context(512, {}, FALSE), Context(1088, {2}, FALSE), Context(1088, {1, 2, 3}, TRUE)}
=============================================================================
