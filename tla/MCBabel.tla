------------------------------- MODULE MCBabel -------------------------------
(***************************************************************************)
(* Babel for TLC: an owner and two other routers, which all hear each      *)
(* other.  What the owner hears is of no consequence.                      *)
(***************************************************************************)
EXTENDS Babel, TLC

Triangle == {l \in Nodes \X Nodes : l[1] # l[2] /\ l[2] # Owner}

\* Nothing but the owner's role tells the routers apart.
Alike == Permutations(Nodes \ {Owner})
==============================================================================
