----------------------------- MODULE BabelProofs -----------------------------
(***************************************************************************)
(* Proofs about Babel for any number of routers, any links and any costs:  *)
(* what a router has announced it remembers, and the next hop of a         *)
(* feasible route has announced something better than the router itself.   *)
(*                                                                         *)
(* The argument does not depend on which route a router prefers: whatever  *)
(* find_best_route returns, the decisions only move the mark `installed'   *)
(* and reorder the list.  What counts is where sequence numbers and        *)
(* metrics come from, so the lemmas say of each handler that it keeps the  *)
(* source and that it invents no finite metric (Keeps).                    *)
(***************************************************************************)
EXTENDS Babel, TLAPS, FiniteSetTheorems, WellFoundedInduction

\* The shape of a router's record; the order of the list is of no importance.
IsRouter(n, s) ==
  s \in [cost : [Heard(n) -> Nat], route : [Heard(n) -> Routes], order : {s.order},
         src : [seqno : Nat, metric : Nat]]

\* Two routes say the same about the destination.
SameData(r, q) == r.id = q.id /\ r.seqno = q.seqno /\ r.refmetric = q.refmetric

\* A handler that neither touches the source nor invents a finite metric.
Keeps(n, s, t) ==
  /\ IsRouter(n, t)
  /\ t.src = s.src
  /\ \A m \in Heard(n) :
       t.route[m].refmetric = INFINITY \/ SameData(t.route[m], s.route[m])

\* The updates; that None is never announced takes an argument about the list.
Announcements == [id : Nodes \cup {None}, seqno : Nat, metric : Metrics]

\* The inductive invariant: the shapes, and what the theorem states.
Inv ==
  /\ node = [n \in Routers |-> node[n]]
  /\ \A n \in Routers : IsRouter(n, node[n])
  /\ updates \in [Links -> Seq(Announcements)]
  /\ myseqno \in Nat
  /\ AnnouncedIsRemembered

\* INFINITY is used as a natural number only.
LEMMA InfinityNat == INFINITY \in Nat /\ INFINITY > 1
  BY DEF INFINITY

\* None stands for NULL: an absent route has no finite metric.
LEMMA NoRouteIsRoute == NoRoute \in Routes /\ NoRoute.refmetric = INFINITY
  BY InfinityNat DEF NoRoute, Routes, Metrics

\* Handlers follow one another.
LEMMA KeepsTransitive ==
  ASSUME NEW n, NEW s, NEW t, NEW v, Keeps(n, s, t), Keeps(n, t, v)
  PROVE  Keeps(n, s, v)
  BY DEF Keeps, SameData

\* A handler that does nothing.
LEMMA KeepsItself ==
  ASSUME NEW n, NEW s, IsRouter(n, s)
  PROVE  Keeps(n, s, s)
  BY DEF Keeps, SameData

\* switch_routes, install_route and uninstall_route change marks and the order.
LEMMA SwitchKeeps ==
  ASSUME NEW n, NEW s, IsRouter(n, s), NEW old, NEW new
  PROVE  Keeps(n, s, switch_routes(s, old, new))
<1> DEFINE t == switch_routes(s, old, new)
           r == [m \in Heard(n) |->
                   IF m = new THEN [s.route[m] EXCEPT !.installed = TRUE]
                   ELSE IF m = old THEN [s.route[m] EXCEPT !.installed = FALSE]
                   ELSE s.route[m]]
<1>1. DOMAIN s.route = Heard(n)
  BY DEF IsRouter
<1>2. [m \in DOMAIN s.route |->
         IF m = new THEN [s.route[m] EXCEPT !.installed = TRUE]
         ELSE IF m = old THEN [s.route[m] EXCEPT !.installed = FALSE]
         ELSE s.route[m]] = r
  BY <1>1
<1>3. ASSUME NEW m \in Heard(n)
      PROVE  r[m] \in Routes /\ SameData(r[m], s.route[m])
  <2>1. s.route[m] \in Routes
    BY DEF IsRouter
  <2>2. r[m] \in {s.route[m], [s.route[m] EXCEPT !.installed = TRUE],
                  [s.route[m] EXCEPT !.installed = FALSE]}
    OBVIOUS
  <2> QED
    BY <2>1, <2>2, Zenon DEF Routes, SameData
<1>4. r \in [Heard(n) -> Routes]
  BY <1>3
<1> HIDE DEF r
<1>5. t = [s EXCEPT !.route = r, !.order = <<new>> \o Without(s.order, new)]
  BY <1>2, Zenon DEF switch_routes
<1> HIDE DEF t
<1>6. IsRouter(n, t) /\ t.route = r /\ t.src = s.src
  BY <1>4, <1>5, Zenon DEF IsRouter
<1> QED
  BY <1>3, <1>6 DEF Keeps, t

\* consider_route switches or leaves everything alone.
LEMMA ConsiderKeeps ==
  ASSUME NEW n, NEW s, IsRouter(n, s), NEW m
  PROVE  Keeps(n, s, consider_route(s, m))
  BY SwitchKeeps, KeepsItself DEF consider_route

\* route_changed and route_lost consider a route, whichever is the best.
LEMMA ChangedKeeps ==
  ASSUME NEW n, NEW s, IsRouter(n, s), NEW m, NEW oldmetric
  PROVE  Keeps(n, s, route_changed(s, m, oldmetric)) /\ Keeps(n, s, route_lost(s))
  BY ConsiderKeeps, KeepsItself DEF route_changed, route_lost

\* An assignment to one route, with or without a change of the list.
SetsRoute(s, t, m, r) ==
  t \in [cost : {s.cost}, route : {[s.route EXCEPT ![m] = r]}, order : {t.order}, src : {s.src}]

\* What it leaves alone.
LEMMA SetRoute ==
  ASSUME NEW n, NEW s, IsRouter(n, s), NEW m \in Heard(n), NEW r \in Routes,
         NEW t, SetsRoute(s, t, m, r)
  PROVE  /\ IsRouter(n, t)
         /\ t.src = s.src /\ t.route[m] = r
         /\ \A k \in Heard(n) \ {m} : t.route[k] = s.route[k]
<1>1. s.route \in [Heard(n) -> Routes] /\ s.cost \in [Heard(n) -> Nat]
      /\ s.src \in [seqno : Nat, metric : Nat]
  BY DEF IsRouter
<1>2. t.route = [s.route EXCEPT ![m] = r] /\ t.cost = s.cost /\ t.src = s.src
  BY DEF SetsRoute
<1>3. /\ t.route \in [Heard(n) -> Routes] /\ t.route[m] = r
      /\ \A k \in Heard(n) \ {m} : t.route[k] = s.route[k]
  BY <1>1, <1>2
<1> QED
  BY <1>1, <1>2, <1>3 DEF IsRouter, SetsRoute

\* flush_route: the route is gone, and the best of the others is considered.
LEMMA FlushKeeps ==
  ASSUME NEW n, NEW s, IsRouter(n, s), NEW m \in Heard(n)
  PROVE  Keeps(n, s, flush_route(s, m))
<1> DEFINE t == [s EXCEPT !.route[m] = NoRoute, !.order = Without(s.order, m)]
<1>1. Keeps(n, s, t)
  <2>1. SetsRoute(s, t, m, NoRoute)
    BY Zenon DEF SetsRoute, IsRouter
  <2> HIDE DEF t
  <2>2. /\ IsRouter(n, t)
        /\ t.src = s.src /\ t.route[m] = NoRoute
        /\ \A k \in Heard(n) \ {m} : t.route[k] = s.route[k]
    BY <2>1, SetRoute, NoRouteIsRoute
  <2> QED
    BY <2>2, NoRouteIsRoute DEF Keeps, SameData
<1>2. flush_route(s, m) = IF s.route[m].installed THEN route_lost(t) ELSE t
  BY Zenon DEF flush_route
<1> HIDE DEF t
<1>3. IsRouter(n, t)
  BY <1>1 DEF Keeps
<1>4. Keeps(n, t, route_lost(t))
  BY <1>3, ChangedKeeps
<1> QED
  BY <1>1, <1>2, <1>4, KeepsTransitive

\* retract_route: the metric becomes infinite, under any number.
LEMMA RetractKeeps ==
  ASSUME NEW n, NEW s, IsRouter(n, s), NEW m \in Heard(n), NEW seqno \in Nat
  PROVE  Keeps(n, s, Retract(s, m, seqno))
<1> DEFINE r == [s.route[m] EXCEPT !.seqno = seqno, !.refmetric = INFINITY]
           t == [s EXCEPT !.route[m].seqno = seqno, !.route[m].refmetric = INFINITY]
<1>1. r \in Routes /\ r.refmetric = INFINITY
  <2>1. s.route[m] \in Routes
    BY DEF IsRouter
  <2>2. INFINITY \in Metrics
    BY InfinityNat DEF Metrics
  <2> QED
    BY <2>1, <2>2, Zenon DEF Routes
<1>2. SetsRoute(s, t, m, r)
  BY Zenon DEF SetsRoute, IsRouter
<1>3. Retract(s, m, seqno) =
        IF route_metric(s, m) < INFINITY THEN route_changed(t, m, route_metric(s, m)) ELSE t
  BY Zenon DEF Retract
<1> HIDE DEF t, r
<1>4. Keeps(n, s, t)
  <2>1. /\ IsRouter(n, t)
        /\ t.src = s.src /\ t.route[m] = r
        /\ \A k \in Heard(n) \ {m} : t.route[k] = s.route[k]
    BY <1>1, <1>2, SetRoute
  <2> QED
    BY <1>1, <2>1 DEF Keeps, SameData
<1>5. IsRouter(n, t)
  BY <1>4 DEF Keeps
<1>6. Keeps(n, t, route_changed(t, m, route_metric(s, m)))
  BY <1>5, ChangedKeeps
<1> QED
  BY <1>3, <1>4, <1>6, KeepsTransitive

\* A change of a neighbour's cost touches no route.
LEMMA CostKeeps ==
  ASSUME NEW n, NEW s, IsRouter(n, s), NEW m \in Heard(n), NEW c \in Nat
  PROVE  Keeps(n, s, [s EXCEPT !.cost[m] = c])
<1> DEFINE t == [s EXCEPT !.cost[m] = c]
<1>1. /\ t \in [cost : {[s.cost EXCEPT ![m] = c]}, route : {s.route}, order : {t.order},
                src : {s.src}]
      /\ s.cost \in [Heard(n) -> Nat] /\ s.route \in [Heard(n) -> Routes]
      /\ s.src \in [seqno : Nat, metric : Nat]
  BY DEF IsRouter
<1> HIDE DEF t
<1>2. [s.cost EXCEPT ![m] = c] \in [Heard(n) -> Nat]
  BY <1>1
<1>3. IsRouter(n, t) /\ t.src = s.src /\ t.route = s.route
  BY <1>1, <1>2 DEF IsRouter
<1>4. Keeps(n, s, t)
  BY <1>3 DEF Keeps, SameData
<1> QED
  BY <1>4 DEF t

\* update_route_metric: a new cost, or a retraction.
LEMMA MetricKeeps ==
  ASSUME NEW n, NEW s, IsRouter(n, s), NEW m \in Heard(n), NEW c \in Nat
  PROVE  Keeps(n, s, update_route_metric(s, m, c))
<1> DEFINE t == [s EXCEPT !.cost[m] = c]
           q == IF s.route[m].refmetric < INFINITY THEN Retract(s, m, s.src.seqno + 1) ELSE s
           v == [q EXCEPT !.cost[m] = c]
           w == IF route_metric(t, m) # route_metric(s, m)
                THEN route_changed(t, m, route_metric(s, m)) ELSE t
<1>1. Keeps(n, s, t)
  BY CostKeeps
<1>2. Keeps(n, s, w)
  <2> HIDE DEF t
  <2>1. IsRouter(n, t)
    BY <1>1 DEF Keeps
  <2>2. Keeps(n, t, route_changed(t, m, route_metric(s, m)))
    BY <2>1, ChangedKeeps
  <2> QED
    BY <1>1, <2>2, KeepsTransitive
<1>3. Keeps(n, s, v)
  <2>1. s.src.seqno + 1 \in Nat
    BY DEF IsRouter
  <2>2. Keeps(n, s, q)
    BY <2>1, RetractKeeps, KeepsItself
  <2> HIDE DEF q
  <2>3. IsRouter(n, q)
    BY <2>2 DEF Keeps
  <2>4. Keeps(n, q, v)
    BY <2>3, CostKeeps, SMTT(60)
  <2> HIDE DEF v
  <2> QED
    BY <2>2, <2>4, KeepsTransitive
<1>4. update_route_metric(s, m, c) \in {t, v, w}
  <2>1. s.route[m].age \in 0 .. 2
    BY DEF IsRouter, Routes
  <2>2. s.route[m].age = 2 \/ s.route[m].age < 2
    BY <2>1
  <2>3. CASE ~HasRoute(s, m)
    BY <2>3, Zenon DEF update_route_metric
  <2>4. CASE HasRoute(s, m) /\ s.route[m].age = 2
    <3>1. ~(s.route[m].age < 2)
      BY <2>4
    <3> QED
      BY <2>4, <3>1, Zenon DEF update_route_metric
  <2>5. CASE HasRoute(s, m) /\ s.route[m].age < 2
    <3>1. s.route[m].age # 2
      BY <2>1, <2>5
    <3> QED
      BY <2>5, <3>1, Zenon DEF update_route_metric
  <2> QED
    BY <2>2, <2>3, <2>4, <2>5
<1> HIDE DEF t, v, w
<1> QED
  BY <1>1, <1>2, <1>3, <1>4

\* What a source rules out, it still rules out when it has been changed to src2.
NotForgotten(src1, src2) ==
  \A seqno, metric \in Nat :
    metric < INFINITY /\ ~Better(seqno, metric, src1) => ~Better(seqno, metric, src2)

\* find_source may create the source, and does nothing else.
LEMMA FindSource ==
  ASSUME NEW n, NEW s, IsRouter(n, s), NEW id, NEW seqno \in Nat
  PROVE  LET t == find_source(s, id, seqno)
         IN  /\ IsRouter(n, t) /\ t.route = s.route
             /\ NotForgotten(s.src, t.src)
<1> DEFINE t == find_source(s, id, seqno)
           new == [seqno |-> seqno, metric |-> INFINITY]
<1>1. CASE id = Owner /\ s.src = NoSource
  <2>1. t = [s EXCEPT !.src = new]
    BY <1>1 DEF find_source
  <2>2. new \in [seqno : Nat, metric : Nat]
    BY InfinityNat
  <2> HIDE DEF t, new
  <2>3. IsRouter(n, t) /\ t.route = s.route /\ t.src = new
    BY <2>1, <2>2 DEF IsRouter
  <2>4. NotForgotten(s.src, new)
    BY <1>1 DEF NotForgotten, Better, NoSource, new
  <2> QED
    BY <2>3, <2>4 DEF t
<1>2. CASE ~(id = Owner /\ s.src = NoSource)
  <2>1. t = s
    BY <1>2 DEF find_source
  <2> HIDE DEF t
  <2>2. IsRouter(n, t) /\ t.route = s.route /\ NotForgotten(s.src, t.src)
    BY <2>1 DEF NotForgotten
  <2> QED
    BY <2>2 DEF t
<1> QED
  BY <1>1, <1>2

\* A route that came from the update u.
FromUpdate(r, u) == r.id = u.id /\ r.seqno = u.seqno /\ r.refmetric = u.metric

\* A handler of the update u from m.
Applies(n, m, u, s, t) ==
  /\ IsRouter(n, t)
  /\ NotForgotten(s.src, t.src)
  /\ \A k \in Heard(n) :
       \/ t.route[k].refmetric = INFINITY
       \/ SameData(t.route[k], s.route[k])
       \/ k = m /\ FromUpdate(t.route[k], u)

\* Whatever is decided afterwards adds nothing.
LEMMA AppliesThenKeeps ==
  ASSUME NEW n, NEW m, NEW u, NEW s, NEW t, NEW v, Applies(n, m, u, s, t), Keeps(n, t, v)
  PROVE  Applies(n, m, u, s, v)
  BY DEF Applies, Keeps, SameData, FromUpdate

\* An assignment of the update's data to m's route.
LEMMA SetApplies ==
  ASSUME NEW n, NEW m \in Heard(n), NEW u, NEW s, IsRouter(n, s), NEW r \in Routes,
         FromUpdate(r, u), NEW t, SetsRoute(s, t, m, r)
  PROVE  Applies(n, m, u, s, t)
<1>1. /\ IsRouter(n, t)
      /\ t.src = s.src /\ t.route[m] = r
      /\ \A k \in Heard(n) \ {m} : t.route[k] = s.route[k]
  BY SetRoute
<1> QED
  BY <1>1 DEF Applies, SameData, NotForgotten

\* The update of a route that is known.
LEMMA KnownApplies ==
  ASSUME NEW n, NEW m \in Heard(n), NEW u \in Announcements, NEW s, IsRouter(n, s)
  PROVE  Applies(n, m, u, s, UpdateKnown(s, m, u))
<1> DEFINE old == s.route[m]
           feasible == update_feasible(s.src, u.seqno, u.metric)
           lost == ~feasible /\ old.installed /\ u.id # old.id
           r == [id |-> u.id, seqno |-> u.seqno, refmetric |-> u.metric,
                 age |-> IF feasible /\ u.metric < INFINITY THEN 0 ELSE old.age,
                 installed |-> old.installed /\ ~lost]
           t == [s EXCEPT !.route[m] = r]
           v == route_changed(t, m, route_metric(s, m))
<1>1. UpdateKnown(s, m, u) = IF lost THEN route_lost(v) ELSE v
  BY Zenon DEF UpdateKnown
<1>2. r \in Routes /\ FromUpdate(r, u)
  <2>1. old \in Routes
    BY DEF IsRouter
  <2>2. u.id \in Nodes \cup {None} /\ u.seqno \in Nat /\ u.metric \in Metrics
    BY DEF Announcements
  <2>3. r.age \in 0 .. 2
    BY <2>1 DEF Routes
  <2>4. r.installed \in BOOLEAN
    OBVIOUS
  <2> QED
    BY <2>2, <2>3, <2>4 DEF Routes, FromUpdate
<1> HIDE DEF r, lost
<1>3. SetsRoute(s, t, m, r)
  BY DEF SetsRoute, IsRouter
<1> HIDE DEF t
<1>4. Applies(n, m, u, s, t)
  BY <1>2, <1>3, SetApplies
<1>5. IsRouter(n, t)
  BY <1>4 DEF Applies
<1>6. Keeps(n, t, v)
  BY <1>5, ChangedKeeps
<1> HIDE DEF v
<1>7. IsRouter(n, v)
  BY <1>6 DEF Keeps
<1>8. Keeps(n, v, route_lost(v))
  BY <1>7, ChangedKeeps
<1> QED
  BY <1>1, <1>4, <1>6, <1>8, AppliesThenKeeps

\* The first update from a neighbour.
LEMMA NewApplies ==
  ASSUME NEW n, NEW m \in Heard(n), NEW u \in Announcements, NEW s, IsRouter(n, s)
  PROVE  Applies(n, m, u, s, UpdateNew(s, m, u))
<1> DEFINE r == [id |-> u.id, seqno |-> u.seqno, refmetric |-> u.metric, age |-> 0,
                 installed |-> FALSE]
           t == [s EXCEPT !.route[m] = r, !.order = Append(s.order, m)]
<1>1. UpdateNew(s, m, u) \in {consider_route(t, m), s}
  BY Zenon DEF UpdateNew
<1>2. r \in Routes /\ FromUpdate(r, u)
  BY DEF Announcements, Routes, FromUpdate
<1> HIDE DEF r
<1>3. SetsRoute(s, t, m, r)
  BY Zenon DEF SetsRoute, IsRouter
<1> HIDE DEF t
<1>4. Applies(n, m, u, s, t)
  BY <1>2, <1>3, SetApplies
<1>5. IsRouter(n, t)
  BY <1>4 DEF Applies
<1>6. Keeps(n, t, consider_route(t, m))
  BY <1>5, ConsiderKeeps
<1>7. Applies(n, m, u, s, s)
  BY DEF Applies, SameData, NotForgotten
<1> QED
  BY <1>1, <1>4, <1>6, <1>7, AppliesThenKeeps

\* update_route as a whole.
LEMMA UpdateApplies ==
  ASSUME NEW n, NEW m \in Heard(n), NEW u \in Announcements, NEW s, IsRouter(n, s)
  PROVE  Applies(n, m, u, s, update_route(s, m, u))
<1> DEFINE t == find_source(s, u.id, u.seqno)
<1>1. IsRouter(n, t) /\ t.route = s.route /\ NotForgotten(s.src, t.src)
  <2>1. u.seqno \in Nat
    BY DEF Announcements
  <2> QED
    BY <2>1, FindSource
<1>2. update_route(s, m, u) \in {UpdateKnown(t, m, u), UpdateNew(t, m, u)}
  BY DEF update_route
<1> HIDE DEF t
<1>3. Applies(n, m, u, t, update_route(s, m, u))
  BY <1>1, <1>2, KnownApplies, NewApplies
<1> QED
  BY <1>1, <1>3 DEF Applies, NotForgotten

\* What an announcement of m is worth after a step of n is what it was before.
LEMMA StillRemembered ==
  ASSUME Inv, NEW n \in Routers, NEW t, NotForgotten(node[n].src, t.src),
         node' = [node EXCEPT ![n] = t], myseqno' = myseqno,
         NEW m \in Routers \cup {Owner}, NEW seqno \in Nat, NEW metric \in Nat,
         metric < INFINITY, Remembered(m, seqno, metric)
  PROVE  Remembered(m, seqno, metric)'
<1>1. CASE m = Owner
  BY <1>1 DEF Remembered
<1>2. CASE m = n /\ m # Owner
  <2>1. node'[m] = t
    BY <1>2 DEF Inv
  <2>2. ~Better(seqno, metric, node[n].src)
    BY <1>2 DEF Remembered
  <2> QED
    BY <1>2, <2>1, <2>2 DEF Remembered, NotForgotten
<1>3. CASE m # n /\ m # Owner
  <2>1. node'[m] = node[m]
    BY <1>3 DEF Inv
  <2> QED
    BY <1>3, <2>1 DEF Remembered
<1> QED
  BY <1>1, <1>2, <1>3

\* The data of an update or a route.
LEMMA DataNat ==
  ASSUME Inv
  PROVE  /\ \A l \in Links : \A i \in 1 .. Len(updates[l]) :
              updates[l][i].seqno \in Nat /\ updates[l][i].metric \in Nat
         /\ \A n \in Routers : \A m \in Heard(n) :
              node[n].route[m].seqno \in Nat /\ node[n].route[m].refmetric \in Nat
<1>1. ASSUME NEW l \in Links, NEW i \in 1 .. Len(updates[l])
      PROVE  updates[l][i].seqno \in Nat /\ updates[l][i].metric \in Nat
  <2>1. updates[l][i] \in Announcements
    BY DEF Inv
  <2> QED
    BY <2>1, InfinityNat DEF Announcements, Metrics
<1>2. ASSUME NEW n \in Routers, NEW m \in Heard(n)
      PROVE  node[n].route[m].seqno \in Nat /\ node[n].route[m].refmetric \in Nat
  <2>1. node[n].route[m] \in Routes
    BY DEF Inv, IsRouter
  <2> QED
    BY <2>1, InfinityNat DEF Routes, Metrics
<1> QED
  BY <1>1, <1>2

\* The updates on their way have been so before, save for x, which is new.
OnlyAdds(from, x) ==
  /\ updates' \in [Links -> Seq(Announcements)]
  /\ \A l \in Links : \A i \in 1 .. Len(updates'[l]) :
       \/ \E j \in 1 .. Len(updates[l]) : updates'[l][i] = updates[l][j]
       \/ l[1] = from /\ updates'[l][i] = x

\* An update that leaves its queue.
LEMMA TailAdds ==
  ASSUME Inv, NEW l \in Links, updates[l] # <<>>, NEW from, NEW x,
         updates' = [updates EXCEPT ![l] = Tail(updates[l])]
  PROVE  OnlyAdds(from, x)
<1>1. updates \in [Links -> Seq(Announcements)]
  BY DEF Inv
<1>2. Tail(updates[l]) \in Seq(Announcements) /\ Len(Tail(updates[l])) = Len(updates[l]) - 1
      /\ Len(updates[l]) \in Nat
  BY <1>1
<1>3. \A i \in 1 .. Len(updates[l]) - 1 : Tail(updates[l])[i] = updates[l][i + 1]
  BY <1>1
<1>4. updates'[l] = Tail(updates[l]) /\ \A k \in Links \ {l} : updates'[k] = updates[k]
  BY <1>1
<1>5. ASSUME NEW i \in 1 .. Len(updates'[l])
      PROVE  \E j \in 1 .. Len(updates[l]) : updates'[l][i] = updates[l][j]
  <2> PICK k : k = Len(updates[l])
    OBVIOUS
  <2>0. k \in Nat /\ i \in 1 .. k - 1
    BY <1>2, <1>4, Zenon
  <2>1. i \in 1 .. Len(updates[l]) - 1 /\ i + 1 \in 1 .. Len(updates[l])
    BY <2>0
  <2> QED
    BY <1>3, <1>4, <2>1
<1>6. updates' \in [Links -> Seq(Announcements)]
  BY <1>1, <1>2
<1> QED
  BY <1>4, <1>5, <1>6 DEF OnlyAdds

\* A step of n on an update u from m, and a new update x of a router that
\* remembers it.
LEMMA ApplyStep ==
  ASSUME Inv, NEW n \in Routers, NEW m, NEW u \in Announcements, NEW t,
         Applies(n, m, u, node[n], t), node' = [node EXCEPT ![n] = t],
         u.metric < INFINITY => u.id = Owner /\ Remembered(m, u.seqno, u.metric),
         myseqno' = myseqno, NEW x \in Announcements, NEW from, OnlyAdds(from, x),
         x.metric < INFINITY => x.id = Owner /\ Remembered(from, x.seqno, x.metric)'
  PROVE  Inv'
<1> DEFINE TNode == node = [k \in Routers |-> node[k]] /\ \A k \in Routers : IsRouter(k, node[k])
<1>1. node'[n] = t /\ \A k \in Routers \ {n} : node'[k] = node[k]
  BY DEF Inv
<1>2. TNode'
  BY <1>1 DEF Inv, Applies
<1>3. NotForgotten(node[n].src, t.src)
  BY DEF Applies
<1>4. ASSUME NEW k \in Nodes, NEW seqno \in Nat, NEW metric \in Nat,
             metric < INFINITY, Remembered(k, seqno, metric)
      PROVE  Remembered(k, seqno, metric)'
  <2>1. k \in Routers \cup {Owner}
    BY DEF Routers
  <2> QED
    BY <1>3, <1>4, <2>1, StillRemembered, Zenon
<1>5. ASSUME NEW l \in Links, NEW i \in 1 .. Len(updates'[l]), NEW w, w = updates'[l][i],
             w.metric < INFINITY
      PROVE  w.id = Owner /\ Remembered(l[1], w.seqno, w.metric)'
  <2>1. ASSUME NEW j \in 1 .. Len(updates[l]), w = updates[l][j]
        PROVE  w.id = Owner /\ Remembered(l[1], w.seqno, w.metric)'
    <3>1. w.id = Owner /\ Remembered(l[1], w.seqno, w.metric)
      BY <1>5, <2>1 DEF Inv, AnnouncedIsRemembered
    <3>2. w.seqno \in Nat /\ w.metric \in Nat
      BY <2>1, DataNat
    <3>3. l[1] \in Nodes
      BY BabelAssumption
    <3> QED
      BY <1>4, <1>5, <3>1, <3>2, <3>3
  <2>2. CASE l[1] = from /\ w = x
    BY <1>5, <2>2
  <2> QED
    BY <1>5, <2>1, <2>2 DEF OnlyAdds
<1>6. ASSUME NEW h \in Routers, NEW k \in Heard(h), NEW r, r = node'[h].route[k],
             r.refmetric < INFINITY
      PROVE  r.id = Owner /\ Remembered(k, r.seqno, r.refmetric)'
  <2>1. k \in Nodes
    BY SMTT(60) DEF Heard
  <2>2. ASSUME SameData(r, node[h].route[k])
        PROVE  r.id = Owner /\ Remembered(k, r.seqno, r.refmetric)'
    <3>1. r.id = Owner /\ Remembered(k, r.seqno, r.refmetric)
      BY <1>6, <2>2, SMTT(60) DEF Inv, AnnouncedIsRemembered, SameData
    <3>2. r.seqno \in Nat /\ r.refmetric \in Nat
      BY <2>2, DataNat, SMTT(60) DEF SameData
    <3> QED
      BY <1>4, <1>6, <2>1, <3>1, <3>2, SMTT(60)
  <2>3. ASSUME k = m, FromUpdate(r, u)
        PROVE  r.id = Owner /\ Remembered(k, r.seqno, r.refmetric)'
    <3>1. r.id = Owner /\ Remembered(k, r.seqno, r.refmetric)
      BY <1>6, <2>3 DEF FromUpdate
    <3>2. r.seqno \in Nat /\ r.refmetric \in Nat
      BY <2>3, InfinityNat, SMTT(60) DEF FromUpdate, Announcements, Metrics
    <3> QED
      BY <1>4, <1>6, <2>1, <3>1, <3>2
  <2>4. CASE h # n
    BY <1>1, <1>6, <2>2, <2>4, SMTT(60) DEF SameData
  <2>5. CASE h = n
    <3>1. r = t.route[k]
      BY <1>1, <1>6, <2>5
    <3>2. r.refmetric # INFINITY
      BY <1>6, InfinityNat
    <3>3. SameData(r, node[h].route[k]) \/ (k = m /\ FromUpdate(r, u))
      BY <2>5, <3>1, <3>2, SMTT(60) DEF Applies
    <3> QED
      BY <2>2, <2>3, <3>3
  <2> QED
    BY <2>4, <2>5
<1>7. AnnouncedIsRemembered'
  BY <1>5, <1>6 DEF AnnouncedIsRemembered
<1> QED
  BY <1>2, <1>7 DEF Inv, OnlyAdds

\* A step of n without an update.
LEMMA KeepStep ==
  ASSUME Inv, NEW n \in Routers, NEW t, Keeps(n, node[n], t), Handle(n, t)
  PROVE  Inv'
<1> DEFINE u == [id |-> Owner, seqno |-> 0, metric |-> INFINITY]
<1>1. u \in Announcements /\ ~(u.metric < INFINITY)
  BY BabelAssumption, InfinityNat DEF Announcements, Metrics
<1>2. Applies(n, Owner, u, node[n], t)
  BY DEF Keeps, Applies, NotForgotten
<1>3. node' = [node EXCEPT ![n] = t] /\ myseqno' = myseqno /\ OnlyAdds(n, u)
  BY DEF Handle, Inv, OnlyAdds
<1> HIDE DEF u
<1> QED
  BY <1>1, <1>2, <1>3, ApplyStep, Zenon

\* A step that appends an update.
LEMMA AppendKeeps ==
  ASSUME Inv, NEW l \in Links, NEW id \in Nodes \cup {None}, NEW seqno \in Nat, NEW metric \in Metrics,
         Send(l, id, seqno, metric)
  PROVE  /\ updates' \in [Links -> Seq(Announcements)]
         /\ \A k \in Links : \A i \in 1 .. Len(updates'[k]) :
              \/ i \in 1 .. Len(updates[k]) /\ updates'[k][i] = updates[k][i]
              \/ k = l /\ updates'[k][i] = [id |-> id, seqno |-> seqno, metric |-> metric]
<1> DEFINE u == [id |-> id, seqno |-> seqno, metric |-> metric]
<1>1. u \in Announcements
  BY DEF Announcements
<1>2. updates' = [updates EXCEPT ![l] = Append(updates[l], u)]
  BY DEF Send
<1> HIDE DEF u
<1>3. updates \in [Links -> Seq(Announcements)]
  BY DEF Inv
<1>4. updates' \in [Links -> Seq(Announcements)]
  BY <1>1, <1>2, <1>3
<1>5. ASSUME NEW k \in Links, NEW i \in 1 .. Len(updates'[k])
      PROVE  \/ i \in 1 .. Len(updates[k]) /\ updates'[k][i] = updates[k][i]
             \/ k = l /\ updates'[k][i] = u
  <2>1. CASE k = l
    <3>1. updates'[k] = Append(updates[k], u) /\ updates[k] \in Seq(Announcements)
      BY <1>2, <1>3, <2>1
    <3> QED
      BY <1>1, <2>1, <3>1
  <2>2. CASE k # l
    BY <1>2, <1>3, <2>2
  <2> QED
    BY <2>1, <2>2
<1> QED
  BY <1>4, <1>5 DEF u

\* flushupdates of the owner announces the owner's number.
LEMMA OwnerStep ==
  ASSUME Inv, NEW l \in Links, flushupdates_xroute(l)
  PROVE  Inv'
<1> DEFINE metric == IF xroute THEN 0 ELSE INFINITY
<1>1. /\ l[1] = Owner /\ Send(l, Owner, myseqno, metric)
      /\ node' = node /\ myseqno' = myseqno
  BY DEF flushupdates_xroute
<1>2. metric \in Metrics /\ myseqno \in Nat /\ Owner \in Nodes
  BY BabelAssumption, InfinityNat DEF Metrics, Inv
<1> HIDE DEF metric
<1>4. /\ updates' \in [Links -> Seq(Announcements)]
      /\ \A k \in Links : \A i \in 1 .. Len(updates'[k]) :
           \/ i \in 1 .. Len(updates[k]) /\ updates'[k][i] = updates[k][i]
           \/ k = l /\ updates'[k][i] = [id |-> Owner, seqno |-> myseqno, metric |-> metric]
  BY <1>1, <1>2, AppendKeeps, SMTT(60)
<1>6. ASSUME NEW k \in Links, NEW i \in 1 .. Len(updates'[k]), NEW w, w = updates'[k][i],
             w.metric < INFINITY
      PROVE  w.id = Owner /\ Remembered(k[1], w.seqno, w.metric)'
  <2>1. CASE i \in 1 .. Len(updates[k]) /\ w = updates[k][i]
    <3>1. w.id = Owner /\ Remembered(k[1], w.seqno, w.metric)
      BY <1>6, <2>1 DEF Inv, AnnouncedIsRemembered
    <3> QED
      BY <1>1, <3>1 DEF Remembered
  <2>2. CASE k = l /\ w = [id |-> Owner, seqno |-> myseqno, metric |-> metric]
    BY <1>1, <1>2, <2>2 DEF Remembered
  <2> QED
    BY <1>4, <1>6, <2>1, <2>2, SMTT(60)
<1>7. ASSUME NEW n \in Routers, NEW m \in Heard(n), NEW r, r = node'[n].route[m],
             r.refmetric < INFINITY
      PROVE  r.id = Owner /\ Remembered(m, r.seqno, r.refmetric)'
  <2>1. r.id = Owner /\ Remembered(m, r.seqno, r.refmetric)
    BY <1>1, <1>7 DEF Inv, AnnouncedIsRemembered
  <2> QED
    BY <1>1, <2>1 DEF Remembered
<1>8. AnnouncedIsRemembered'
  BY <1>6, <1>7 DEF AnnouncedIsRemembered
<1> QED
  BY <1>1, <1>4, <1>8 DEF Inv, IsRouter

\* update_source notes what is announced, and forgets nothing.
LEMMA UpdateSource ==
  ASSUME NEW n, NEW s, IsRouter(n, s), NEW id, NEW seqno \in Nat, NEW metric \in Nat,
         NEW t, t = update_source(s, id, seqno, metric)
  PROVE  /\ IsRouter(n, t) /\ t.route = s.route
         /\ NotForgotten(s.src, t.src)
         /\ id = Owner /\ metric < INFINITY => ~Better(seqno, metric, t.src)
<1> DEFINE new == [seqno |-> seqno, metric |-> metric]
<1>0. s.src.seqno \in Nat /\ s.src.metric \in Nat
  BY DEF IsRouter
<1>1. CASE id = Owner /\ metric < INFINITY /\ Better(seqno, metric, s.src)
  <2>1. t = [s EXCEPT !.src = new]
    BY <1>1 DEF update_source
  <2>2. new \in [seqno : Nat, metric : Nat]
    OBVIOUS
  <2>3. NotForgotten(s.src, new) /\ ~Better(seqno, metric, new)
    BY <1>0, <1>1 DEF NotForgotten, Better
  <2> HIDE DEF new
  <2>4. IsRouter(n, t) /\ t.route = s.route /\ t.src = new
    BY <2>1, <2>2 DEF IsRouter
  <2> QED
    BY <2>3, <2>4
<1>2. CASE ~(id = Owner /\ metric < INFINITY /\ Better(seqno, metric, s.src))
  <2>1. t = s
    BY <1>2 DEF update_source
  <2> QED
    BY <1>2, <2>1 DEF NotForgotten
<1> QED
  BY <1>1, <1>2

\* A finite metric comes from a finite metric.
LEMMA FiniteMetric ==
  ASSUME NEW n, NEW s, IsRouter(n, s), NEW m \in Heard(n)
  PROVE  /\ route_metric(s, m) \in Metrics
         /\ route_metric(s, m) < INFINITY => s.route[m].refmetric < INFINITY
<1>1. s.route[m].refmetric \in Nat /\ s.cost[m] \in Nat
  BY InfinityNat, SMTT(60) DEF IsRouter, Routes, Metrics
<1> QED
  BY <1>1, InfinityNat DEF route_metric, Least, Metrics

\* flushupdates of another router: its source notes what it announces.
LEMMA AnnounceStep ==
  ASSUME Inv, NEW l \in Links, NEW n \in Routers, n = l[1],
         NEW id \in Nodes \cup {None}, NEW seqno \in Nat, NEW metric \in Metrics,
         metric < INFINITY => id = Owner,
         Send(l, id, seqno, metric), myseqno' = myseqno,
         NEW t, node' = [node EXCEPT ![n] = t],
         IsRouter(n, t), t.route = node[n].route, NotForgotten(node[n].src, t.src),
         id = Owner /\ metric < INFINITY => ~Better(seqno, metric, t.src)
  PROVE  Inv'
<1>1. PICK u : u = [id |-> id, seqno |-> seqno, metric |-> metric]
  BY Zenon
<1>2. PICK d : d = [id |-> Owner, seqno |-> 0, metric |-> INFINITY]
  BY Zenon
<1>3. u \in Announcements /\ d \in Announcements /\ ~(d.metric < INFINITY)
  BY <1>1, <1>2, BabelAssumption, InfinityNat DEF Announcements, Metrics
<1>4. /\ updates' \in [Links -> Seq(Announcements)]
      /\ \A k \in Links : \A i \in 1 .. Len(updates'[k]) :
           \/ i \in 1 .. Len(updates[k]) /\ updates'[k][i] = updates[k][i]
           \/ k = l /\ updates'[k][i] = u
  BY <1>1, AppendKeeps
<1>5. node'[n] = t
  BY DEF Inv
<1>6. Applies(n, Owner, d, node[n], t)
  BY DEF Applies, SameData
<1>7. u.metric < INFINITY => u.id = Owner /\ Remembered(n, u.seqno, u.metric)'
  <2>1. u.id = id /\ u.seqno = seqno /\ u.metric = metric
    BY <1>1
  <2> QED
    BY <1>5, <2>1 DEF Remembered, Routers
<1>8. OnlyAdds(n, u)
  BY <1>4, Zenon DEF OnlyAdds
<1> QED
  BY <1>3, <1>6, <1>7, <1>8, ApplyStep, Zenon

\* Both cases of flushupdates.
LEMMA FlushStep ==
  ASSUME Inv, NEW l \in Links, flushupdates(l)
  PROVE  Inv'
<1>1. PICK n \in Routers : n = l[1]
  BY BabelAssumption, SMTT(60) DEF flushupdates, Routers
<1>2. IsRouter(n, node[n]) /\ myseqno' = myseqno
  BY ZenonT(60) DEF Inv, flushupdates
<1>3. ASSUME NEW r \in Heard(n), NEW id, NEW seqno, NEW metric,
             id = node[n].route[r].id, seqno = node[n].route[r].seqno,
             metric = route_metric(node[n], r), Send(l, id, seqno, metric),
             node' = [node EXCEPT ![n] = update_source(node[n], id, seqno, metric)]
      PROVE  Inv'
  <2>1. metric \in Metrics /\ (metric < INFINITY => node[n].route[r].refmetric < INFINITY)
    BY <1>2, <1>3, FiniteMetric, SMTT(60)
  <2>2. seqno \in Nat /\ id \in Nodes \cup {None}
    BY <1>2, <1>3, SMTT(60) DEF IsRouter, Routes
  <2>3. metric < INFINITY => id = Owner
    BY <1>3, <2>1 DEF Inv, AnnouncedIsRemembered
  <2>4. PICK s : s = node[n]
    OBVIOUS
  <2>5. PICK t : t = update_source(s, id, seqno, metric)
    OBVIOUS
  <2>6. metric \in Nat
    BY <2>1, InfinityNat, SMTT(60) DEF Metrics
  <2>7. /\ IsRouter(n, t) /\ t.route = s.route /\ NotForgotten(s.src, t.src)
        /\ id = Owner /\ metric < INFINITY => ~Better(seqno, metric, t.src)
    BY <1>2, <2>2, <2>4, <2>5, <2>6, UpdateSource, SMTT(60)
  <2>8. node' = [node EXCEPT ![n] = t]
    BY <1>3, <2>4, <2>5, SMTT(60)
  <2> QED
    BY <1>1, <1>2, <1>3, <2>1, <2>2, <2>3, <2>4, <2>7, <2>8, AnnounceStep, ZenonT(60)
<1>4. ASSUME Send(l, n, 1, INFINITY), node' = node
      PROVE  Inv'
  <2>1. INFINITY \in Metrics /\ ~(INFINITY < INFINITY) /\ n \in Nodes \cup {None}
    BY InfinityNat DEF Metrics, Routers
  <2>2. PICK t : t = node[n]
    OBVIOUS
  <2>3. node' = [node EXCEPT ![n] = t]
    BY <1>4, <2>2 DEF Inv
  <2>4. IsRouter(n, t) /\ t.route = node[n].route /\ NotForgotten(node[n].src, t.src)
    BY <1>2, <2>2 DEF NotForgotten
  <2> QED
    BY <1>1, <1>2, <1>4, <2>1, <2>3, <2>4, AnnounceStep, Zenon
<1> QED
  BY <1>1, <1>3, <1>4, ZenonT(60) DEF flushupdates

\* Receive: the update leaves its queue and is applied.
LEMMA ReceiveStep ==
  ASSUME Inv, NEW l \in Links, Receive(l)
  PROVE  Inv'
<1>1. PICK n \in Routers : n = l[2]
  BY BabelAssumption DEF Receive, Routers
<1>2. PICK u : u = updates[l][1]
  OBVIOUS
<1>3. PICK s : s = node[n]
  OBVIOUS
<1>4. PICK t : t = IF u.id = n THEN s ELSE update_route(s, l[1], u)
  OBVIOUS
<1>5. updates[l] \in Seq(Announcements) /\ updates[l] # <<>> /\ updates \in [Links -> Seq(Announcements)]
  BY DEF Inv, Receive
<1>6. u \in Announcements /\ u = Head(updates[l]) /\ 1 \in 1 .. Len(updates[l])
  BY <1>2, <1>5
<1>7. node' = [node EXCEPT ![n] = t] /\ myseqno' = myseqno
  BY <1>1, <1>3, <1>4, <1>6, Zenon DEF Receive
<1>8. l[1] \in Heard(n) /\ IsRouter(n, s)
  BY <1>1, <1>3, BabelAssumption, SMTT(60) DEF Heard, Inv
<1>9. Applies(n, l[1], u, s, t)
  <2>1. CASE u.id = n
    BY <1>4, <1>8, <2>1 DEF Applies, SameData, NotForgotten
  <2>2. CASE u.id # n
    BY <1>4, <1>6, <1>8, <2>2, UpdateApplies, SMTT(60)
  <2> QED
    BY <2>1, <2>2
<1>10. u.metric < INFINITY => u.id = Owner /\ Remembered(l[1], u.seqno, u.metric)
  BY <1>2, <1>6 DEF Inv, AnnouncedIsRemembered
<1> DEFINE x == [id |-> Owner, seqno |-> 0, metric |-> INFINITY]
<1>11. x \in Announcements /\ ~(x.metric < INFINITY)
  BY BabelAssumption, InfinityNat DEF Announcements, Metrics
<1> HIDE DEF x
<1>12. OnlyAdds(n, x)
  BY <1>5, TailAdds, Zenon DEF Receive
<1> QED
  BY <1>3, <1>6, <1>7, <1>9, <1>10, <1>11, <1>12, ApplyStep, Zenon

\* The routers do nothing; updates may be lost and the owner's number may grow.
LEMMA QuietStep ==
  ASSUME Inv, node' = node, myseqno' \in Nat, myseqno' >= myseqno,
         updates' \in [Links -> Seq(Announcements)],
         \A l \in Links : \A i \in 1 .. Len(updates'[l]) :
           \E j \in 1 .. Len(updates[l]) : updates'[l][i] = updates[l][j]
  PROVE  Inv'
<1>1. ASSUME NEW k, NEW seqno \in Nat, NEW metric, Remembered(k, seqno, metric)
      PROVE  Remembered(k, seqno, metric)'
  BY <1>1 DEF Remembered, Inv
<1>2. ASSUME NEW l \in Links, NEW i \in 1 .. Len(updates'[l]), NEW w, w = updates'[l][i],
             w.metric < INFINITY
      PROVE  w.id = Owner /\ Remembered(l[1], w.seqno, w.metric)'
  <2>1. PICK j \in 1 .. Len(updates[l]) : w = updates[l][j]
    BY <1>2
  <2>2. w.id = Owner /\ Remembered(l[1], w.seqno, w.metric) /\ w.seqno \in Nat
    BY <1>2, <2>1, DataNat, SMTT(60) DEF Inv, AnnouncedIsRemembered
  <2> QED
    BY <1>1, <2>2
<1>3. ASSUME NEW n \in Routers, NEW m \in Heard(n), NEW r, r = node'[n].route[m],
             r.refmetric < INFINITY
      PROVE  r.id = Owner /\ Remembered(m, r.seqno, r.refmetric)'
  <2>1. r.id = Owner /\ Remembered(m, r.seqno, r.refmetric) /\ r.seqno \in Nat
    BY <1>3, DataNat, SMTT(60) DEF Inv, AnnouncedIsRemembered
  <2> QED
    BY <1>1, <2>1, SMTT(60)
<1>4. AnnouncedIsRemembered'
  BY <1>2, <1>3 DEF AnnouncedIsRemembered
<1> QED
  BY <1>4 DEF Inv, IsRouter

\* An update is lost.
LEMMA LoseStep ==
  ASSUME Inv, NEW l \in Links, Lose(l)
  PROVE  Inv'
<1>1. updates' = [updates EXCEPT ![l] = Tail(updates[l])] /\ updates[l] # <<>>
  BY DEF Lose
<1>2. \A k \in Links : k[1] # None
  BY BabelAssumption
<1>3. OnlyAdds(None, l)
  BY <1>1, TailAdds, Zenon
<1>4. node' = node /\ myseqno' = myseqno /\ myseqno \in Nat
  BY DEF Lose, Inv
<1> QED
  BY <1>2, <1>3, <1>4, QuietStep, SMTT(60) DEF OnlyAdds

\* The handlers of a router that neither receive nor send.
LEMMA LocalStep ==
  ASSUME Inv, NEW n \in Routers, NEW m \in Heard(n),
         \/ \E c \in Costs \cup {INFINITY} : update_neighbour_metric(n, m, c)
         \/ flush_neighbour_routes(n, m) \/ retract_neighbour_routes(n, m)
         \/ Age(n, m) \/ expire_routes(n, m)
  PROVE  Inv'
<1>1. PICK s : s = node[n]
  OBVIOUS
<1>2. IsRouter(n, s)
  BY <1>1 DEF Inv
<1>3. ASSUME NEW t, Keeps(n, s, t), Handle(n, t)
      PROVE  Inv'
  BY <1>1, <1>3, KeepStep
<1>4. ASSUME NEW c \in Costs \cup {INFINITY}, update_neighbour_metric(n, m, c)
      PROVE  Inv'
  <2>1. c \in Nat
    BY BabelAssumption, InfinityNat
  <2>2. Handle(n, update_route_metric(s, m, c))
    BY <1>1, <1>4 DEF update_neighbour_metric
  <2> QED
    BY <1>2, <1>3, <2>1, <2>2, MetricKeeps, SMTT(60)
<1>5. CASE flush_neighbour_routes(n, m)
  <2>1. PICK t : t = flush_route(s, m)
    OBVIOUS
  <2>2. Keeps(n, s, t) /\ IsRouter(n, t)
    BY <1>2, <2>1, FlushKeeps DEF Keeps
  <2>3. Keeps(n, t, [t EXCEPT !.cost[m] = INFINITY])
    BY <2>2, CostKeeps, InfinityNat
  <2>4. Handle(n, [t EXCEPT !.cost[m] = INFINITY])
    BY <1>1, <1>5, <2>1, SMTT(60) DEF flush_neighbour_routes
  <2> QED
    BY <1>3, <2>2, <2>3, <2>4, KeepsTransitive
<1>6. CASE retract_neighbour_routes(n, m)
  <2>1. Handle(n, Retract(s, m, s.route[m].seqno)) /\ s.route[m].seqno \in Nat
    BY <1>1, <1>6, DataNat DEF retract_neighbour_routes
  <2> QED
    BY <1>2, <1>3, <2>1, RetractKeeps, SMTT(60)
<1>7. CASE Age(n, m)
  <2>1. PICK r : r = [s.route[m] EXCEPT !.age = @ + 1]
    BY Zenon
  <2>2. PICK t : t = [s EXCEPT !.route[m] = r]
    BY Zenon
  <2>3. s.route[m] \in Routes /\ s.route[m].age < 2
    BY <1>1, <1>2, <1>7 DEF Age, IsRouter
  <2>4. r \in Routes /\ SameData(r, s.route[m])
    BY <2>1, <2>3 DEF Routes, SameData
  <2>5. SetsRoute(s, t, m, r)
    BY <1>2, <2>2 DEF SetsRoute, IsRouter
  <2>6. Keeps(n, s, t)
    BY <1>2, <2>4, <2>5, SetRoute DEF Keeps, SameData
  <2>7. t = [s EXCEPT !.route[m].age = @ + 1]
    BY <2>1, <2>2, SMTT(60)
  <2>8. Handle(n, t)
    BY <1>1, <1>7, <2>7 DEF Age
  <2> QED
    BY <1>3, <2>6, <2>8
<1>8. CASE expire_routes(n, m)
  <2>1. Handle(n, flush_route(s, m))
    BY <1>1, <1>8 DEF expire_routes
  <2> QED
    BY <1>2, <1>3, <2>1, FlushKeeps, SMTT(60)
<1> QED
  BY <1>4, <1>5, <1>6, <1>7, <1>8

\* Nothing has been announced at the start.
LEMMA InitInv == Init => Inv
<1> SUFFICES ASSUME Init
             PROVE  Inv
  OBVIOUS
<1>1. PICK c \in Costs :
        node = [n \in Routers |->
                  [cost |-> [m \in Heard(n) |-> c], route |-> [m \in Heard(n) |-> NoRoute],
                   order |-> <<>>, src |-> NoSource]]
  BY Zenon DEF Init
<1>2. c \in Nat
  BY BabelAssumption, InfinityNat
<1>3. ASSUME NEW n \in Routers
      PROVE  IsRouter(n, node[n])
  BY <1>1, <1>2, NoRouteIsRoute, InfinityNat DEF IsRouter, NoSource
<1>4. \A n \in Routers : \A m \in Heard(n) : ~(node[n].route[m].refmetric < INFINITY)
  BY <1>1, NoRouteIsRoute, InfinityNat
<1>5. updates \in [Links -> Seq(Announcements)] /\ \A l \in Links : Len(updates[l]) = 0
  BY DEF Init
<1>6. AnnouncedIsRemembered
  BY <1>4, <1>5 DEF AnnouncedIsRemembered
<1> QED
  BY <1>1, <1>3, <1>5, <1>6 DEF Inv, Init

\* Every step keeps the invariant.
LEMMA NextInv == Inv /\ [Next]_vars => Inv'
<1> SUFFICES ASSUME Inv, [Next]_vars
             PROVE  Inv'
  OBVIOUS
<1>1. ASSUME node' = node, updates' = updates, myseqno' \in {myseqno, myseqno + 1}
      PROVE  Inv'
  <2>1. myseqno \in Nat /\ myseqno' \in Nat /\ myseqno' >= myseqno
    BY <1>1 DEF Inv
  <2> QED
    BY <1>1, <2>1, QuietStep DEF Inv
<1>2. CASE update_myseqno \/ Redistribute \/ UNCHANGED vars
  BY <1>1, <1>2 DEF update_myseqno, Redistribute, vars
<1> QED
  BY <1>2, OwnerStep, FlushStep, ReceiveStep, LoseStep, LocalStep DEF Next

\* For any routers, links and costs and any number of faults: every finite metric
\* under way or in a table was noted in its sender's source before it was sent.
THEOREM AnnouncedTheorem == Spec => []AnnouncedIsRemembered
<1>1. Inv => AnnouncedIsRemembered
  BY DEF Inv
<1> QED
  BY <1>1, InitInv, NextInv, PTL DEF Spec

\* update_feasible compares a route with what its router has announced, and the
\* neighbour that announced it remembers at least as much: so, for any number of
\* routers, along feasible routes that are in use (sequence number, metric) gets
\* strictly better from hop to hop.
THEOREM DescentTheorem == Spec => []FeasibleDescends
<1>1. ASSUME Inv
      PROVE  FeasibleDescends
  <2> SUFFICES ASSUME NEW n \in Routers, NEW m \in FeasibleHop(n) \ {Owner}
               PROVE  Better(node[m].src.seqno, node[m].src.metric, node[n].src)
    BY DEF FeasibleDescends
  <2> DEFINE r == node[n].route[m]
  <2>1. m \in Heard(n) /\ m \in Routers /\ route_feasible(node[n], m)
    BY DEF FeasibleHop, NextHop, Heard, Routers
  <2>2. IsRouter(n, node[n]) /\ route_metric(node[n], m) < INFINITY
    BY <1>1 DEF FeasibleHop, NextHop, Inv
  <2>3. r.refmetric < INFINITY
    BY <2>1, <2>2, FiniteMetric, SMTT(60)
  <2>4. r.seqno \in Nat /\ r.refmetric \in Nat
    BY <1>1, <2>1, DataNat, SMTT(60)
  <2>5. ~Better(r.seqno, r.refmetric, node[m].src)
    BY <1>1, <2>1, <2>3, Zenon DEF Inv, AnnouncedIsRemembered, Remembered
  <2>6. Better(r.seqno, r.refmetric, node[n].src)
    BY <2>1, <2>3, <2>4, InfinityNat DEF route_feasible, update_feasible
  <2>7. /\ node[n].src.seqno \in Nat /\ node[n].src.metric \in Nat
        /\ node[m].src.seqno \in Nat /\ node[m].src.metric \in Nat
    BY <1>1, <2>1 DEF Inv, IsRouter
  <2> HIDE DEF r
  <2> QED
    BY <2>4, <2>5, <2>6, <2>7 DEF Better
<1> QED
  BY <1>1, InitInv, NextInv, PTL DEF Spec

\* A set of natural numbers has a least element.
LEMMA LeastOf ==
  ASSUME NEW T, T \subseteq Nat, T # {}
  PROVE  \E x \in T : \A y \in T : x <= y
<1>1. PICK x \in T : \A y \in T : <<y, x>> \notin OpToRel(<, Nat)
  BY NatLessThanWellFounded, WFMin, Zenon
<1>2. \A y \in T : x \in Nat /\ y \in Nat /\ ~(y < x)
  BY <1>1, Zenon DEF OpToRel
<1> QED
  BY <1>2

\* A finite list of natural numbers has a bound: else take a shortest one that has
\* none, and leave out its last element.
LEMMA ListBounded ==
  ASSUME NEW k \in Nat, NEW f \in [1 .. k -> Nat]
  PROVE  \E b \in Nat : \A i \in 1 .. k : f[i] <= b
<1> DEFINE Bounded(j) == \A g \in [1 .. j -> Nat] :
                           \E b \in Nat : \A i \in 1 .. j : g[i] <= b
           K == {j \in Nat : ~Bounded(j)}
<1> SUFFICES ASSUME K # {}
             PROVE  FALSE
  BY Zenon
<1> HIDE DEF Bounded
<1>1. PICK j \in K : \A i \in K : j <= i
  <2>1. K \subseteq Nat
    OBVIOUS
  <2> HIDE DEF K
  <2> QED
    BY <2>1, LeastOf, Zenon
<1>2. j \in Nat /\ ~Bounded(j) /\ \A i \in Nat : i < j => Bounded(i)
  BY <1>1
<1> HIDE DEF K
<1>3. PICK g \in [1 .. j -> Nat] : ~\E b \in Nat : \A i \in 1 .. j : g[i] <= b
  BY <1>2, Zenon DEF Bounded
<1>4. j # 0
  <2>1. j = 0 => \A i \in 1 .. j : g[i] <= 0
    OBVIOUS
  <2> QED
    BY <1>3, <2>1
<1>5. j - 1 \in Nat /\ Bounded(j - 1)
  BY <1>2, <1>4
<1>6. PICK b \in Nat : \A i \in 1 .. j - 1 : g[i] <= b
  <2> DEFINE h == [i \in 1 .. j - 1 |-> g[i]]
  <2>1. \A i \in 1 .. j - 1 : g[i] \in Nat
    BY <1>2, <1>5
  <2>2. h \in [1 .. j - 1 -> Nat]
    BY <2>1
  <2>3. PICK b \in Nat : \A i \in 1 .. j - 1 : h[i] <= b
    BY <1>5, <2>2, Zenon DEF Bounded
  <2> QED
    BY <2>3, Zenon
<1>7. PICK c \in Nat : b <= c /\ g[j] <= c
  <2>1. g[j] \in Nat
    BY <1>2, <1>4
  <2>2. PICK a \in Nat : a = g[j]
    BY <2>1
  <2>3. b <= b + a /\ a <= b + a /\ b + a \in Nat
    OBVIOUS
  <2> QED
    BY <2>2, <2>3
<1>8. ASSUME NEW i \in 1 .. j
      PROVE  g[i] <= c
  <2>1. PICK a \in Nat : a = g[i]
    OBVIOUS
  <2>2. CASE i = j
    BY <1>7, <2>2
  <2>3. CASE i \in 1 .. j - 1
    <3>1. a <= b
      BY <1>6, <2>1, <2>3
    <3> QED
      BY <1>7, <2>1, <3>1
  <2> QED
    BY <1>2, <2>2, <2>3
<1> QED
  BY <1>3, <1>7, <1>8

\* The numbers that finitely many routers remember have a bound.
LEMMA SetBounded ==
  ASSUME NEW S, IsFiniteSet(S), NEW f \in [S -> Nat]
  PROVE  \E b \in Nat : \A x \in S : f[x] <= b
<1>1. PICK k \in Nat : ExistsSurjection(1 .. k, S)
  BY FS_NatSurjection
<1>2. PICK e \in [1 .. k -> S] : \A x \in S : \E i \in 1 .. k : e[i] = x
  BY <1>1, SMTT(60) DEF ExistsSurjection, Surjection
<1> DEFINE g == [i \in 1 .. k |-> f[e[i]]]
<1>3. g \in [1 .. k -> Nat]
  BY <1>2
<1>4. PICK b \in Nat : \A i \in 1 .. k : g[i] <= b
  BY <1>3, ListBounded, Zenon
<1>5. ASSUME NEW x \in S
      PROVE  f[x] <= b
  <2>1. PICK i \in 1 .. k : e[i] = x
    BY <1>2
  <2> QED
    BY <1>4, <2>1
<1> QED
  BY <1>5

\* In a finite set of sources one is not worse than any other.
LEMMA BestSource ==
  ASSUME NEW S, S # {}, IsFiniteSet(S), NEW q \in [S -> Nat], NEW d \in [S -> Nat]
  PROVE  \E n \in S : \A m \in S : ~(q[m] > q[n] \/ (q[m] = q[n] /\ d[m] < d[n]))
<1>1. PICK b \in Nat : \A x \in S : q[x] <= b
  BY SetBounded
<1> DEFINE T == {b - q[x] : x \in S}
<1>2. \A x \in S : b - q[x] \in Nat
  BY <1>1
<1>3. T \subseteq Nat /\ T # {}
  BY <1>2
<1>4. PICK t \in T : \A u \in T : t <= u
  BY <1>3, LeastOf, Zenon
<1>5. PICK a \in S : t = b - q[a]
  BY <1>4
<1>6. \A x \in S : q[x] <= q[a]
  <2> SUFFICES ASSUME NEW x \in S
               PROVE  q[x] <= q[a]
    OBVIOUS
  <2>1. b - q[a] <= b - q[x]
    BY <1>4, <1>5
  <2> QED
    BY <2>1
<1> DEFINE U == {d[x] : x \in {y \in S : q[y] = q[a]}}
<1>7. U \subseteq Nat /\ U # {}
  BY Zenon
<1>8. PICK v \in U : \A u \in U : v <= u
  BY <1>7, LeastOf, Zenon
<1>9. PICK n \in S : q[n] = q[a] /\ v = d[n]
  BY <1>8
<1>10. ASSUME NEW m \in S
       PROVE  ~(q[m] > q[n] \/ (q[m] = q[n] /\ d[m] < d[n]))
  <2>1. q[m] \in Nat /\ q[n] \in Nat /\ q[m] <= q[n] /\ d[m] \in Nat /\ d[n] \in Nat
    BY <1>6, <1>9
  <2>2. q[m] = q[n] => d[n] <= d[m]
    BY <1>8, <1>9
  <2> QED
    BY <2>1, <2>2
<1> QED
  BY <1>10

\* The feasible routes in use never form a loop, for any number of routers: of the
\* routers of a loop, the one that has announced the best sequence number and
\* metric has no next hop that has announced better ones.
THEOREM LoopsTheorem == Spec => []LoopsAreUnfeasible
<1>1. ASSUME Inv, FeasibleDescends
      PROVE  LoopsAreUnfeasible
  <2> SUFFICES ASSUME NEW S \in (SUBSET Routers) \ {{}}
               PROVE  \E n \in S : FeasibleHop(n) \cap S = {}
    BY DEF LoopsAreUnfeasible
  <2>1. S \subseteq Routers /\ S # {}
    OBVIOUS
  <2>2. IsFiniteSet(S) /\ Owner \notin S
    BY <2>1, BabelAssumption, FS_Subset DEF Routers
  <2> DEFINE q == [n \in S |-> node[n].src.seqno]
             d == [n \in S |-> node[n].src.metric]
  <2>3. q \in [S -> Nat] /\ d \in [S -> Nat]
    <3>1. \A n \in S : node[n].src \in [seqno : Nat, metric : Nat]
      BY <1>1, <2>1 DEF Inv, IsRouter
    <3> QED
      BY <3>1
  <2>4. \E n \in S : \A m \in S : ~(q[m] > q[n] \/ (q[m] = q[n] /\ d[m] < d[n]))
    <3> HIDE DEF q, d
    <3> QED
      BY <2>1, <2>2, <2>3, BestSource, SMTT(60)
  <2>5. PICK n \in S : \A m \in S : ~(q[m] > q[n] \/ (q[m] = q[n] /\ d[m] < d[n]))
    BY <2>4
  <2>6. ASSUME NEW m \in FeasibleHop(n) \cap S
        PROVE  FALSE
    <3>1. Better(node[m].src.seqno, node[m].src.metric, node[n].src)
      BY <1>1, <2>1, <2>2, <2>6 DEF FeasibleDescends
    <3> QED
      BY <2>5, <3>1 DEF Better
  <2> QED
    BY <2>6
<1> QED
  BY <1>1, InitInv, NextInv, DescentTheorem, PTL DEF Spec
==============================================================================
