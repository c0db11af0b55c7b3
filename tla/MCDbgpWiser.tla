---------------------------- MODULE MCDbgpWiser ----------------------------
(***************************************************************************)
(* A small network for DbgpWiser.                                          *)
(***************************************************************************)
EXTENDS DbgpWiser, TLC

Both(a, b, x, y) == (<<a, b>> :> x) @@ (<<b, a>> :> y)

\* A square: the plain AS 1, which originates both prefixes, and the plain AS 4
\* lie between the Wiser ASes 2 and 3.
SquareLinks == Both(1, 2, 1, 3) @@ Both(1, 3, 1, 1) @@ Both(2, 4, 1, 1) @@ Both(4, 3, 1, 1)

TwoPrefixes == [p \in {"p", "q"} |-> 1]
=============================================================================
