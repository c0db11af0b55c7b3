------------------------------ MODULE MCBgpRib ------------------------------
(* Small instances of BgpRib for TLC.                                      *)
EXTENDS BgpRib, TLC

\* A larger attribute is preferred.
Larger == {<<a, b>> \in (1 .. MaxAttr) \X (1 .. MaxAttr) : a > b}

\* Each of two peers is denied one of two attributes.
EachDenied == {<<1, 2>>, <<2, 1>>}

NoneDenied == {}

\* Prefixes are model values and no definition chooses among them.
Symmetry == Permutations(Prefixes)
=============================================================================
