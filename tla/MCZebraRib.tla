----------------------------- MODULE MCZebraRib -----------------------------
(* ZebraRib for TLC: two interfaces with their prefixes 1 and 2, a remote    *)
(* prefix 3 with static routes through both, and a prefix 4 that is a part   *)
(* of 2 and contains its gateway, with routes of OSPF and BGP through 1.     *)
EXTENDS ZebraRib

MCConnOf == [i \in {1, 2} |-> i]

MCInside == [i \in {1, 2} |-> IF i = 1 THEN {} ELSE {4}]

MCClientRoutes ==
    {[type |-> "ospf", dest |-> 4, nhs |-> {1}],
     [type |-> "bgp", dest |-> 4, nhs |-> {1}]}

MCStaticRoutes == {[dest |-> 3, nh |-> 1], [dest |-> 3, nh |-> 2]}

\* BGP's routes have OSPF's distance, so that the metric decides.
MCDistance == [t \in RouteTypes |-> IF t \in {"connect", "kernel"} THEN 0 ELSE 110]

MCMetric == [t \in RouteTypes |-> IF t = "ospf" THEN 1 ELSE 0]

=============================================================================
