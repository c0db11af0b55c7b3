-------------------------- MODULE MCOspfAdjacency --------------------------
(***************************************************************************)
(* OspfAdjacency for TLC: router 1 also hears of an LSA, the first one it  *)
(* describes, on another interface.                                        *)
(***************************************************************************)
EXTENDS OspfAdjacency

MCLearned == {<<1, 0>>}

=============================================================================
