-------------------------------- MODULE Babel --------------------------------
(***************************************************************************)
(* babeld: how several routers choose their routes to one prefix, which    *)
(* one of them, the owner, redistributes.  Updates carry the owner's       *)
(* sequence number and a metric, over links that lose and delay them.  A   *)
(* route may be chosen only if it is feasible, that is better than         *)
(* anything the router itself has announced, which it remembers in its     *)
(* source table: that is to keep the chosen routes free of loops.          *)
(*                                                                         *)
(* Left to the environment, so that every choice of the code is allowed:   *)
(* when an update is sent (triggered, periodic, resent or asked for, each  *)
(* after a random delay), which neighbour a change of link cost concerns,  *)
(* when time makes a route old, and when a request that asks the owner for *)
(* a new number reaches it.  Everything that decides which route is        *)
(* installed, and what is remembered, is that of the code.  A handler is   *)
(* an operator from router record to router record.                        *)
(***************************************************************************)
EXTENDS Naturals, Sequences, FiniteSets

CONSTANTS
  Nodes,     \* the routers
  Owner,     \* the one that redistributes the prefix
  Links,     \* <<n, m>>: m hears n
  Costs,     \* finite costs of a link
  MaxSeqno,  \* bound: the owner's sequence number
  MaxQueue,  \* bound: updates on their way over a link
  MaxFaults  \* bound: changes of a link, late updates, withdrawals by the owner

INFINITY == 65535

None == "none"   \* NULL

ASSUME BabelAssumption ==
  /\ IsFiniteSet(Nodes) /\ Owner \in Nodes /\ None \notin Nodes
  /\ Links \subseteq {l \in Nodes \X Nodes : l[1] # l[2]}
  /\ Costs # {} /\ Costs \subseteq 1 .. INFINITY - 1
  /\ {MaxSeqno, MaxQueue, MaxFaults} \subseteq Nat

\* The owner ignores every update: update_route drops those with its router-id,
\* and a retraction under another id of a route it never saw.
Routers == Nodes \ {Owner}

Heard(n) == {m \in Nodes : <<m, n>> \in Links}

VARIABLES
  node,      \* one record per router
  updates,   \* updates on their way over a link
  myseqno,   \* the owner's sequence number
  xroute,    \* the owner redistributes the prefix
  faults     \* faults so far

vars == <<node, updates, myseqno, xroute, faults>>

Metrics == 0 .. INFINITY

\* MESSAGE_UPDATE.
Updates == [id : Nodes, seqno : Nat, metric : Metrics]

\* struct babel_route; age 1 is route_old, age 2 route_expired.
Routes ==
  [id : Nodes \cup {None}, seqno : Nat, refmetric : Metrics, age : 0 .. 2, installed : BOOLEAN]

NoRoute == [id |-> None, seqno |-> 0, refmetric |-> INFINITY, age |-> 0, installed |-> FALSE]

\* struct source of the owner; the number 0 stands for no source.
Sources == [seqno : Nat, metric : Metrics]

NoSource == [seqno |-> 0, metric |-> INFINITY]

\* The neighbours' costs, the routes by neighbour, the order of the list of
\* routes to the prefix, and the source.
RouterState(n) ==
  [cost : [Heard(n) -> Costs \cup {INFINITY}],
   route : [Heard(n) -> Routes],
   order : Seq(Heard(n)),
   src : Sources]

(***************************************************************************)
(* source.c and the feasibility condition.                                 *)
(***************************************************************************)

\* A route under another id than the owner's is a retraction: a source of its
\* own, with which every update is feasible.
find_source(s, id, seqno) ==
  IF id = Owner /\ s.src = NoSource
  THEN [s EXCEPT !.src = [seqno |-> seqno, metric |-> INFINITY]]
  ELSE s

Better(seqno, metric, src) ==
  seqno > src.seqno \/ (seqno = src.seqno /\ metric < src.metric)

\* Mutant: only a new number is noted, not a smaller metric under the same one.
update_source_newer(s, id, seqno, metric) ==
  IF id = Owner /\ metric < INFINITY /\ seqno > s.src.seqno
  THEN [s EXCEPT !.src = [seqno |-> seqno, metric |-> metric]]
  ELSE s

update_source(s, id, seqno, metric) ==
  IF id = Owner /\ metric < INFINITY /\ Better(seqno, metric, s.src)
  THEN [s EXCEPT !.src = [seqno |-> seqno, metric |-> metric]]
  ELSE s

\* Mutant: as good as what was announced is feasible, too.
update_feasible_equal(src, seqno, refmetric) ==
  \/ refmetric >= INFINITY \/ Better(seqno, refmetric, src)
  \/ (seqno = src.seqno /\ refmetric = src.metric)

update_feasible(src, seqno, refmetric) ==
  refmetric >= INFINITY \/ Better(seqno, refmetric, src)

(***************************************************************************)
(* The table of routes: a list whose head is the installed one, if any.    *)
(***************************************************************************)
Least(a, b) == IF a <= b THEN a ELSE b

Without(order, m) == SelectSeq(order, LAMBDA e : e # m)

HasRoute(s, m) == s.route[m] # NoRoute

route_metric(s, m) == Least(s.route[m].refmetric + s.cost[m], INFINITY)

route_feasible(s, m) == update_feasible(s.src, s.route[m].seqno, s.route[m].refmetric)

find_installed_route(s) ==
  IF s.order # <<>> /\ s.route[Head(s.order)].installed THEN Head(s.order) ELSE None

\* The head of the list is taken as it is; only the others have to qualify.
find_best_route(s) ==
  LET better == {i \in 2 .. Len(s.order) :
                   /\ s.route[s.order[i]].age < 2
                   /\ route_feasible(s, s.order[i])
                   /\ route_metric(s, s.order[i]) < route_metric(s, Head(s.order))}
      first == CHOOSE i \in better : \A j \in better :
                 LET mi == route_metric(s, s.order[i])
                     mj == route_metric(s, s.order[j])
                 IN  mi < mj \/ (mi = mj /\ i <= j)
  IN  IF s.order = <<>> THEN None
      ELSE IF better = {} THEN Head(s.order) ELSE s.order[first]

\* Mutant: without move_installed_route.
switch_routes_in_place(s, old, new) ==
  [s EXCEPT !.route = [m \in DOMAIN @ |->
                         IF m = new THEN [@[m] EXCEPT !.installed = TRUE]
                         ELSE IF m = old THEN [@[m] EXCEPT !.installed = FALSE]
                         ELSE @[m]]]

\* switch_routes, install_route and move_installed_route.
switch_routes(s, old, new) ==
  [s EXCEPT !.route = [m \in DOMAIN @ |->
                         IF m = new THEN [@[m] EXCEPT !.installed = TRUE]
                         ELSE IF m = old THEN [@[m] EXCEPT !.installed = FALSE]
                         ELSE @[m]],
            !.order = <<new>> \o Without(@, new)]

(***************************************************************************)
(* route.c: decisions.                                                     *)
(***************************************************************************)

\* An unreachable route is installed if there is no other.
consider_route(s, m) ==
  LET old == find_installed_route(s)
      worth == \/ old = None
               \/ /\ route_metric(s, m) < INFINITY
                  /\ \/ route_metric(s, old) >= INFINITY
                     \/ route_metric(s, old) >= route_metric(s, m) + 64
  IN  IF ~s.route[m].installed /\ route_feasible(s, m) /\ worth
      THEN switch_routes(s, old, m) ELSE s

route_changed(s, m, oldmetric) ==
  LET best == find_best_route(s)
  IN  IF ~s.route[m].installed THEN consider_route(s, m)
      ELSE IF route_metric(s, m) > oldmetric /\ best # None
              /\ route_metric(s, best) + 96 <= route_metric(s, m)
      THEN consider_route(s, best) ELSE s

route_lost(s) ==
  LET best == find_best_route(s)
  IN  IF best # None THEN consider_route(s, best) ELSE s

flush_route(s, m) ==
  LET t == [s EXCEPT !.route[m] = NoRoute, !.order = Without(@, m)]
  IN  IF s.route[m].installed THEN route_lost(t) ELSE t

\* update_route for a neighbour that has announced the prefix before.  An
\* unfeasible update that does not change the source is applied as well.
UpdateKnown(s, m, u) ==
  LET old == s.route[m]
      feasible == update_feasible(s.src, u.seqno, u.metric)
      lost == ~feasible /\ old.installed /\ u.id # old.id
      t == [s EXCEPT !.route[m] =
              [id |-> u.id, seqno |-> u.seqno, refmetric |-> u.metric,
               age |-> IF feasible /\ u.metric < INFINITY THEN 0 ELSE old.age,
               installed |-> old.installed /\ ~lost]]
      v == route_changed(t, m, route_metric(s, m))
  IN  IF lost THEN route_lost(v) ELSE v

\* A neighbour's first update is dropped if it is unfeasible or a retraction.
UpdateNew(s, m, u) ==
  LET t == [s EXCEPT !.route[m] = [id |-> u.id, seqno |-> u.seqno, refmetric |-> u.metric,
                                   age |-> 0, installed |-> FALSE],
                     !.order = Append(@, m)]
  IN  IF u.metric < INFINITY /\ update_feasible(s.src, u.seqno, u.metric)
      THEN consider_route(t, m) ELSE s

update_route(s, m, u) ==
  LET t == find_source(s, u.id, u.seqno)
  IN  IF HasRoute(s, m) THEN UpdateKnown(t, m, u) ELSE UpdateNew(t, m, u)

\* retract_route and route_changed.
Retract(s, m, seqno) ==
  LET t == [s EXCEPT !.route[m].seqno = seqno, !.route[m].refmetric = INFINITY]
  IN  IF route_metric(s, m) < INFINITY THEN route_changed(t, m, route_metric(s, m)) ELSE t

\* update_route_metric: an expired route is retracted under a number of its own.
update_route_metric(s, m, c) ==
  LET t == [s EXCEPT !.cost[m] = c]
  IN  CASE ~HasRoute(s, m) -> t
        [] HasRoute(s, m) /\ s.route[m].age = 2 ->
             [(IF s.route[m].refmetric < INFINITY THEN Retract(s, m, s.src.seqno + 1) ELSE s)
                EXCEPT !.cost[m] = c]
        [] HasRoute(s, m) /\ s.route[m].age < 2 ->
             IF route_metric(t, m) # route_metric(s, m)
             THEN route_changed(t, m, route_metric(s, m)) ELSE t

(***************************************************************************)
(* Steps.                                                                  *)
(***************************************************************************)
Handle(n, s) ==
  /\ node' = [node EXCEPT ![n] = s]
  /\ UNCHANGED <<updates, myseqno, xroute>>

Fault == faults < MaxFaults /\ faults' = faults + 1

Init ==
  /\ \E c \in Costs :
       node = [n \in Routers |->
                 [cost |-> [m \in Heard(n) |-> c], route |-> [m \in Heard(n) |-> NoRoute],
                  order |-> <<>>, src |-> NoSource]]
  /\ updates = [l \in Links |-> <<>>]
  /\ myseqno = 1
  /\ xroute = TRUE
  /\ faults = 0

Send(l, id, seqno, metric) ==
  updates' = [updates EXCEPT ![l] = Append(@, [id |-> id, seqno |-> seqno, metric |-> metric])]

\* flushupdates of the owner: its xroute, or a retraction once that is gone.
flushupdates_xroute(l) ==
  /\ l[1] = Owner /\ Len(updates[l]) < MaxQueue
  /\ Send(l, Owner, myseqno, IF xroute THEN 0 ELSE INFINITY)
  /\ UNCHANGED <<node, myseqno, xroute, faults>>

\* flushupdates of another router: the installed route, which its source then
\* remembers, or a retraction under the router's own id and number.
flushupdates(l) ==
  LET n == l[1]
  IN  /\ n # Owner /\ Len(updates[l]) < MaxQueue
      /\ \/ \E r \in Heard(n) :
              LET route == node[n].route[r]
                  metric == route_metric(node[n], r)
              IN  /\ r = find_installed_route(node[n])
                  /\ Send(l, route.id, route.seqno, metric)
                  /\ node' = [node EXCEPT ![n] = update_source(@, route.id, route.seqno, metric)]
         \/ /\ find_installed_route(node[n]) = None /\ node[n].src # NoSource
            /\ Send(l, n, 1, INFINITY)
            /\ UNCHANGED node
      /\ UNCHANGED <<myseqno, xroute, faults>>

\* parse_packet, MESSAGE_UPDATE: an update under the router's own id is ignored.
Receive(l) ==
  LET n == l[2]
      u == Head(updates[l])
  IN  /\ n # Owner /\ updates[l] # <<>>
      /\ updates' = [updates EXCEPT ![l] = Tail(@)]
      /\ node' = [node EXCEPT ![n] = IF u.id = n THEN @ ELSE update_route(@, l[1], u)]
      /\ UNCHANGED <<myseqno, xroute, faults>>

Lose(l) ==
  /\ updates[l] # <<>>
  /\ updates' = [updates EXCEPT ![l] = Tail(@)]
  /\ UNCHANGED <<node, myseqno, xroute, faults>>

\* check_neighbours, MESSAGE_HELLO, MESSAGE_IHU: neighbour_cost(m) is now c.
update_neighbour_metric(n, m, c) ==
  /\ c # node[n].cost[m]
  /\ Handle(n, update_route_metric(node[n], m, c)) /\ Fault

\* flush_neighbour: a neighbour that is heard again later is a new one.
flush_neighbour_routes(n, m) ==
  /\ HasRoute(node[n], m)
  /\ Handle(n, [flush_route(node[n], m) EXCEPT !.cost[m] = INFINITY]) /\ Fault

\* A wildcard update.
retract_neighbour_routes(n, m) ==
  /\ HasRoute(node[n], m) /\ node[n].route[m].refmetric < INFINITY
  /\ Handle(n, Retract(node[n], m, node[n].route[m].seqno)) /\ Fault

\* Time passes without a feasible update.
Age(n, m) ==
  /\ HasRoute(node[n], m) /\ node[n].route[m].age < 2
  /\ Handle(n, [node[n] EXCEPT !.route[m].age = @ + 1]) /\ Fault

\* The routes that are old are flushed one by one; that other steps may come in
\* between adds behaviours and takes none away.  update_route_metric has nothing
\* to do for the others, since cost is up to date.
expire_routes(n, m) ==
  /\ HasRoute(node[n], m) /\ node[n].route[m].age > 0
  /\ Handle(n, flush_route(node[n], m)) /\ UNCHANGED faults

\* handle_request of the owner, for a request that asks for more.
update_myseqno ==
  /\ xroute /\ myseqno < MaxSeqno
  /\ myseqno' = myseqno + 1
  /\ UNCHANGED <<node, updates, xroute, faults>>

\* xroute_add_new_route and flush_xroute.
Redistribute ==
  /\ xroute' = ~xroute /\ Fault
  /\ UNCHANGED <<node, updates, myseqno>>

Next ==
  \/ \E l \in Links : flushupdates_xroute(l) \/ flushupdates(l) \/ Receive(l) \/ Lose(l)
  \/ \E n \in Routers : \E m \in Heard(n) :
       \/ \E c \in Costs \cup {INFINITY} : update_neighbour_metric(n, m, c)
       \/ flush_neighbour_routes(n, m) \/ retract_neighbour_routes(n, m)
       \/ Age(n, m) \/ expire_routes(n, m)
  \/ update_myseqno
  \/ Redistribute

Spec == Init /\ [][Next]_vars

TypeOK ==
  /\ DOMAIN node = Routers
  /\ \A n \in Routers : node[n] \in RouterState(n)
  /\ updates \in [Links -> Seq(Updates)]
  /\ myseqno \in 1 .. MaxSeqno
  /\ xroute \in BOOLEAN
  /\ faults \in 0 .. MaxFaults

(***************************************************************************)
(* Properties.                                                             *)
(***************************************************************************)

\* m has announced nothing better than what it remembers; the owner remembers
\* its number.
Remembered(m, seqno, metric) ==
  IF m = Owner THEN seqno <= myseqno ELSE ~Better(seqno, metric, node[m].src)

\* Every finite metric that is on its way from a router, or that a neighbour has
\* in its table, was noted in the source of the router that announced it
\* (flushupdates, update_source), however late it arrives, and although sources are
\* also created by updates of others (find_source) and retractions invent numbers
\* (update_route_metric).  Feasibility is worth something only because of this.
AnnouncedIsRemembered ==
  /\ \A l \in Links : \A i \in 1 .. Len(updates[l]) :
       LET u == updates[l][i]
       IN  u.metric < INFINITY => u.id = Owner /\ Remembered(l[1], u.seqno, u.metric)
  /\ \A n \in Routers : \A m \in Heard(n) :
       LET r == node[n].route[m]
       IN  r.refmetric < INFINITY => r.id = Owner /\ Remembered(m, r.seqno, r.refmetric)

\* The neighbour that n forwards packets to, if any.
NextHop(n) ==
  {m \in Heard(n) : m = find_installed_route(node[n]) /\ route_metric(node[n], m) < INFINITY}

\* The same for a route that is feasible at present.
FeasibleHop(n) == {m \in NextHop(n) : route_feasible(node[n], m)}

\* The next hop of a feasible route has announced something better than n has:
\* update_feasible compares with what n announced, consider_route asks for it.
FeasibleDescends ==
  \A n \in Routers : \A m \in FeasibleHop(n) \ {Owner} :
    Better(node[m].src.seqno, node[m].src.metric, node[n].src)

\* No set of routers forwards packets only among its members by feasible routes:
\* a loop needs an installed route that a later update has made unfeasible.
LoopsAreUnfeasible ==
  \A S \in (SUBSET Routers) \ {{}} : \E n \in S : FeasibleHop(n) \cap S = {}

\* What feasibility is for.  It does not hold: update_route applies an unfeasible
\* update to an installed route, which "[i]f the source remains the same, we
\* ignore" by its comment, and consider_route may have installed the route while
\* it was retracted, so that it was never compared with the source.
LoopFree ==
  \A S \in (SUBSET Routers) \ {{}} : \E n \in S : NextHop(n) \cap S = {}

\* "Every slot contains a linked list of the routes to this prefix, with the
\* installed route, if any, at the head of the list" (route.c): the list holds each
\* route once, and find_installed_route, which looks only at the head, misses none.
InstalledAtHead ==
  \A n \in Routers :
    LET s == node[n]
    IN  /\ \A m \in Heard(n) : HasRoute(s, m) <=> \E i \in 1 .. Len(s.order) : s.order[i] = m
        /\ \A i \in 1 .. Len(s.order) : \A j \in i + 1 .. Len(s.order) :
             s.order[i] # s.order[j] /\ ~s.route[s.order[j]].installed
==============================================================================
