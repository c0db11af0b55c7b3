--------------------------- MODULE ZebraRibProofs ---------------------------
(***************************************************************************)
(* Proofs about zebra's routing table (module ZebraRib).                   *)
(***************************************************************************)
EXTENDS ZebraRib, TLAPS

-----------------------------------------------------------------------------
(* The queues.                                                             *)

Tables ==
    [routes : [Dests -> Seq(Rib)], flags : [Dests -> SUBSET SubQueues],
     subq : [SubQueues -> Seq(Dests)], ribq : BOOLEAN]

\* A flag is backed by a place in the sub-queue.
FlagsOK(t) == \A d \in Dests : \A q \in t.flags[d] : Waits(t, d, q)

\* The meta queue is an item of ribq while it has work.
RibqOK(t) == t.ribq <=> \E q \in SubQueues : t.subq[q] # <<>>

\* A destination is flagged for every one of its entries.
Flagged(t, d) ==
    \A n \in DOMAIN t.routes[d] : meta_queue_map[t.routes[d][n].type] \in t.flags[d]

\* No flag and no place in a queue goes away.
Grows(t, u) ==
    \A d \in Dests, q \in SubQueues :
        /\ q \in t.flags[d] => q \in u.flags[d]
        /\ Waits(t, d, q) => Waits(u, d, q)

\* What queueing a destination does.
Queueing(t, d, u) ==
    /\ u \in Tables
    /\ u.routes = t.routes
    /\ Grows(t, u)
    /\ FlagsOK(u)
    /\ RibqOK(u)
    /\ Flagged(u, d)

\* A type has a sub-queue.
LEMMA MapType ==
  ASSUME NEW type \in RouteTypes
  PROVE  meta_queue_map[type] \in SubQueues
BY DEF RouteTypes, meta_queue_map, SubQueues

\* The fields of a table.
LEMMA TableParts ==
  ASSUME NEW t \in Tables
  PROVE  /\ t.routes \in [Dests -> Seq(Rib)]
         /\ t.flags \in [Dests -> SUBSET SubQueues]
         /\ t.subq \in [SubQueues -> Seq(Dests)]
         /\ t.ribq \in BOOLEAN
         /\ t = [routes |-> t.routes, flags |-> t.flags, subq |-> t.subq, ribq |-> t.ribq]
BY Zenon DEF Tables

\* To wait in a sub-queue is to have a place there.
LEMMA WaitsDef ==
  ASSUME NEW t \in Tables, NEW d \in Dests, NEW q \in SubQueues
  PROVE  Waits(t, d, q) <=> \E n \in 1..Len(t.subq[q]) : t.subq[q][n] = d
BY TableParts DEF Waits

-----------------------------------------------------------------------------
(* Steps that are counted.  Counting is proved at the end of the module.   *)

\* Induction over 0..n, as a fact about a set of numbers.
Counting ==
    \A n \in Nat : \A K \in SUBSET (0..n) :
        0 \in K /\ (\A i \in 1..n : i - 1 \in K => i \in K) => \A i \in 0..n : i \in K

\* n steps g from a, all in A, are a function.
LEMMA Fold ==
  ASSUME Counting, NEW A, NEW a \in A, NEW n \in Nat, NEW g \in [1..n -> [A -> A]]
  PROVE  \E f \in [0..n -> A] : f[0] = a /\ \A i \in 1..n : f[i] = g[i][f[i - 1]]
<1> DEFINE Steps(f, m) == /\ f \in [0..m -> A]
                          /\ f[0] = a
                          /\ \A i \in 1..m : f[i] = g[i][f[i - 1]]
           K == {m \in 0..n : \E f : Steps(f, m)}
<1>1. 0 \in K
  <2>1. Steps([i \in 0..0 |-> a], 0)
    OBVIOUS
  <2>2. 0 \in 0..n
    OBVIOUS
  <2> HIDE DEF Steps
  <2> QED BY <2>1, <2>2, Zenon
<1>2. ASSUME NEW m \in 1..n, m - 1 \in K PROVE m \in K
  <2>1. PICK f : Steps(f, m - 1)
    BY <1>2, Zenon
  <2> DEFINE h == [i \in 0..m |-> IF i = m THEN g[m][f[m - 1]] ELSE f[i]]
  <2>2. /\ f \in [0..(m - 1) -> A] /\ f[0] = a
        /\ \A i \in 1..(m - 1) : f[i] = g[i][f[i - 1]]
    BY <2>1, Zenon
  <2>3. g[m] \in [A -> A] /\ f[m - 1] \in A
    BY <2>2
  <2>4. g[m][f[m - 1]] \in A
    BY <2>3, Zenon
  <2>5. h \in [0..m -> A]
    BY <2>2, <2>4
  <2>6. h[0] = a
    BY <2>2
  <2>7. ASSUME NEW i \in 1..m PROVE h[i] = g[i][h[i - 1]]
    <3>1. CASE i = m
      BY <3>1
    <3>2. CASE i # m
      <4>1. i \in 1..(m - 1) /\ i \in 0..m /\ i - 1 \in 0..m /\ i - 1 # m
        BY <3>2
      <4>2. h[i] = f[i] /\ h[i - 1] = f[i - 1]
        BY <3>2, <4>1, Zenon
      <4> HIDE DEF h
      <4> QED BY <4>1, <4>2, <2>2, Zenon
    <3> QED BY <3>1, <3>2, Zenon
  <2>8. Steps(h, m)
    <3> HIDE DEF h
    <3> QED BY <2>5, <2>6, <2>7, Zenon
  <2> HIDE DEF Steps
  <2> QED BY <2>8
<1>3. \A i \in 0..n : i \in K
  <2> HIDE DEF K
  <2>1. K \in SUBSET (0..n)
    BY Zenon DEF K
  <2> QED BY <1>1, <1>2, <2>1, Zenon DEF Counting
<1>4. \E f : Steps(f, n)
  BY <1>3
<1> QED BY <1>4, Zenon

-----------------------------------------------------------------------------
(* What the entries of a destination have to fulfil.                       *)

One(rs) == \A m, n \in Selected(rs) : m = n

SelTypes(rs) == {rs[n].type : n \in Selected(rs)}

\* Routes of an earlier zebra are swept before anything else happens.
NoKernel(rs) == \A n \in DOMAIN rs : rs[n].type = "kernel" => rs[n].removed

\* The kernel's routes ks are the selected entry's.
KernOK(rs, ks) ==
    /\ {} \notin ks
    /\ \A k \in ks : \E n \in Selected(rs) : ~SystemRoute(rs[n]) /\ rs[n].fib = k

\* A connected entry is selected; one should be.
HasConn(rs) ==
    \E n \in DOMAIN rs : rs[n].type = "connect" /\ ~rs[n].removed /\ rs[n].selected
WantConn(rs, up) ==
    /\ Distance["connect"] # DISTANCE_INFINITY
    /\ \E n \in DOMAIN rs : /\ rs[n].type = "connect" /\ ~rs[n].removed
                            /\ \E i \in rs[n].nhs : i \in up

LiveAt(rs, type) == {n \in DOMAIN rs : rs[n].type = type /\ ~rs[n].removed}

\* There is a static entry and nh is one of its next hops.
HasLine(rs, nh) ==
    /\ LiveAt(rs, "static") # {}
    /\ \A n \in LiveAt(rs, "static") : nh \in rs[n].nhs

-----------------------------------------------------------------------------
(* The choice of an entry.                                                 *)

\* s is the choice among the first k entries.
Chosen(rs, k, s) ==
    IF s = 0 THEN \A m \in 1..k : ~Usable(rs[m])
    ELSE /\ s \in 1..k
         /\ Usable(rs[s])
         /\ \A m \in 1..k : Usable(rs[m]) => /\ ~Better(rs[m], rs[s])
                                             /\ m > s => Better(rs[s], rs[m])

\* The choice is the best usable entry, and there is one if any is usable.
LEMMA SelectionBest ==
  \A rs \in Seq(Rib) :
     /\ Counting
     =>
         /\ Selection(rs) \in 0..Len(rs)
         /\ Selection(rs) = 0 => \A n \in DOMAIN rs : ~Usable(rs[n])
         /\ \A n \in DOMAIN rs : n = Selection(rs) <=> Best(rs, n)
\* Distances and metrics are numbers.
<1>Numbers. ASSUME NEW r \in Rib
            PROVE  Distance[r.type] \in Nat /\ Metric[r.type] \in Nat
  <2>1. r.type \in RouteTypes
    BY Zenon DEF Rib
  <2>2. Distance \in [RouteTypes -> 0..255] /\ Metric \in [RouteTypes -> Nat]
    BY ZebraAssumption, Zenon DEF DISTANCE_INFINITY
  <2> QED BY <2>1, <2>2
\* The loop replaces its choice by what is at least as good.
<1>ReplacesBetter. ASSUME NEW r \in Rib, NEW x \in Rib
                   PROVE  IF Replaces(r, x) THEN ~Better(x, r) ELSE Better(x, r) /\ ~Better(r, x)
  <2>1. /\ Distance[r.type] \in Nat /\ Metric[r.type] \in Nat
        /\ Distance[x.type] \in Nat /\ Metric[x.type] \in Nat
    BY <1>Numbers, Zenon
  <2>2. CASE r.type = "connect"
    <3>1. CASE x.type = "connect"
      <4>1. Metric[r.type] = Metric[x.type] /\ Distance[r.type] = Distance[x.type]
        BY <2>2, <3>1, Zenon
      <4> QED BY <2>1, <2>2, <3>1, <4>1 DEF Replaces, Better
    <3>2. CASE x.type # "connect"
      BY <2>1, <2>2, <3>2, Zenon DEF Replaces, Better
    <3> QED BY <3>1, <3>2, Zenon
  <2>3. CASE r.type # "connect"
    BY <2>1, <2>3 DEF Replaces, Better
  <2> QED BY <2>2, <2>3, Zenon
\* The order of the entries is transitive.
<1>BetterTrans. ASSUME NEW r \in Rib, NEW x \in Rib, NEW y \in Rib, ~Better(r, x), ~Better(x, y)
                PROVE  ~Better(r, y)
  <2> USE <1>BetterTrans
  <2>1. /\ Distance[r.type] \in Nat /\ Metric[r.type] \in Nat
        /\ Distance[x.type] \in Nat /\ Metric[x.type] \in Nat
        /\ Distance[y.type] \in Nat /\ Metric[y.type] \in Nat
    BY <1>Numbers, Zenon
  <2>2. CASE r.type = "connect"
    <3>1. x.type = "connect"
      BY <2>2, Zenon DEF Better
    <3>2. y.type = "connect"
      BY <3>1, Zenon DEF Better
    <3>3. Metric[r.type] = Metric[y.type] /\ Distance[r.type] = Distance[y.type]
      BY <2>2, <3>2, Zenon
    <3> QED BY <2>1, <2>2, <3>2, <3>3, Zenon DEF Better
  <2>3. CASE r.type # "connect"
    <3>1. CASE y.type = "connect"
      BY <2>1, <2>3, <3>1, Zenon DEF Better
    <3>2. CASE y.type # "connect"
      <4>1. x.type # "connect"
        BY <3>2, Zenon DEF Better
      <4> QED BY <2>1, <2>3, <3>2, <4>1 DEF Better
    <3> QED BY <3>1, <3>2, Zenon
  <2> QED BY <2>2, <2>3, Zenon
\* One step of the loop.
<1>ChosenStep. ASSUME NEW rs \in Seq(Rib), NEW k \in 1..Len(rs), NEW s \in 0..(k - 1), Chosen(rs, k - 1, s)
               PROVE  Chosen(rs, k, IF Usable(rs[k]) /\ (s = 0 \/ Replaces(rs[k], rs[s])) THEN k ELSE s)
  <2> USE <1>ChosenStep
  <2>1. /\ Len(rs) \in Nat /\ \A m \in 1..Len(rs) : rs[m] \in Rib
        /\ k \in Nat /\ k \in 1..k /\ k # 0
        /\ \A m \in 1..k : m \in Nat /\ m <= k /\ (m \in 1..(k - 1) \/ m = k)
    OBVIOUS
  <2>2. CASE ~Usable(rs[k])
    <3>1. CASE s = 0
      BY <2>1, <2>2, <3>1, Zenon DEF Chosen
    <3>2. CASE s # 0
      <4>1. s \in 1..k
        BY <3>2
      <4> QED BY <2>1, <2>2, <3>2, <4>1, Zenon DEF Chosen
    <3> QED BY <2>2, <3>1, <3>2, Zenon
  <2>3. CASE Usable(rs[k]) /\ s = 0
    <3>1. ~Better(rs[k], rs[k])
      <4>1. Distance[rs[k].type] \in Nat /\ Metric[rs[k].type] \in Nat
        BY <2>1, <1>Numbers, Zenon
      <4> QED BY <4>1 DEF Better
    <3>2. Chosen(rs, k, k)
      BY <2>1, <2>3, <3>1 DEF Chosen
    <3> QED BY <2>3, <3>2, Zenon
  <2>4. CASE Usable(rs[k]) /\ s # 0 /\ Replaces(rs[k], rs[s])
    <3>1. s \in 1..(k - 1) /\ rs[s] \in Rib /\ rs[k] \in Rib
      BY <2>1, <2>4
    <3>2. ~Better(rs[s], rs[k])
      BY <2>4, <3>1, <1>ReplacesBetter, Zenon
    <3>3. ASSUME NEW m \in 1..k, Usable(rs[m]) PROVE ~Better(rs[m], rs[k])
      <4>1. CASE m = k
        <5>1. Distance[rs[k].type] \in Nat /\ Metric[rs[k].type] \in Nat
          BY <2>1, <1>Numbers, Zenon
        <5> QED BY <4>1, <5>1 DEF Better
      <4>2. CASE m \in 1..(k - 1)
        <5>1. ~Better(rs[m], rs[s]) /\ rs[m] \in Rib
          BY <2>1, <2>4, <3>3, <4>2 DEF Chosen
        <5> QED BY <3>1, <3>2, <5>1, <1>BetterTrans, Zenon
      <4> QED BY <2>1, <4>1, <4>2, Zenon
    <3>4. \A m \in 1..k : ~(m > k)
      BY <2>1
    <3>5. Chosen(rs, k, k)
      BY <2>1, <2>4, <3>3, <3>4, Zenon DEF Chosen
    <3> QED BY <2>4, <3>5, Zenon
  <2>5. CASE Usable(rs[k]) /\ s # 0 /\ ~Replaces(rs[k], rs[s])
    <3>1. s \in 1..(k - 1) /\ s \in 1..k /\ rs[s] \in Rib /\ rs[k] \in Rib
      BY <2>1, <2>5
    <3>2. Better(rs[s], rs[k]) /\ ~Better(rs[k], rs[s])
      BY <2>5, <3>1, <1>ReplacesBetter, Zenon
    <3>3. Chosen(rs, k, s)
      BY <2>1, <2>5, <3>1, <3>2, Zenon DEF Chosen
    <3> QED BY <2>5, <3>3, Zenon
  <2> QED BY <2>2, <2>3, <2>4, <2>5, Zenon
\* The loop of rib_process.
<1>SelectionChosen. ASSUME Counting, NEW rs \in Seq(Rib)
                    PROVE  Selection(rs) \in 0..Len(rs) /\ Chosen(rs, Len(rs), Selection(rs))
  <2> USE <1>SelectionChosen
  <2> DEFINE c == Len(rs)
             Step(s, n) == IF Usable(rs[n]) /\ (s = 0 \/ Replaces(rs[n], rs[s])) THEN n ELSE s
             g == [n \in 1..c |-> [s \in 0..c |-> Step(s, n)]]
             Rec(f) == f = [n \in 0..c |-> IF n = 0 THEN 0 ELSE Step(f[n - 1], n)]
             F == CHOOSE f : Rec(f)
  <2>1. c \in Nat
    OBVIOUS
  <2>2. Selection(rs) = F[c]
    BY Zenon DEF Selection
  <2>3. \A n \in 1..c, s \in 0..c : Step(s, n) \in 0..c
    BY <2>1
  <2>4. ASSUME NEW n \in 1..c, NEW s \in 0..(n - 1), Chosen(rs, n - 1, s)
        PROVE  Step(s, n) \in 0..n /\ Chosen(rs, n, Step(s, n))
    BY <2>1, <2>4, <1>ChosenStep
  <2> HIDE DEF Step, c
  <2>5. g \in [1..c -> [0..c -> 0..c]]
    BY <2>3, Zenon
  <2>6. PICK f \in [0..c -> 0..c] : f[0] = 0 /\ \A n \in 1..c : f[n] = g[n][f[n - 1]]
    <3> DEFINE A == 0..c
    <3>1. 0 \in A
      BY <2>1
    <3>2. g \in [1..c -> [A -> A]]
      BY <2>5, Zenon
    <3> HIDE DEF g, A
    <3>3. \E f \in [0..c -> A] : f[0] = 0 /\ \A n \in 1..c : f[n] = g[n][f[n - 1]]
      <4>1. PICK z \in A : z = 0
        BY <3>1, Zenon
      <4>2. \E f \in [0..c -> A] : f[0] = z /\ \A n \in 1..c : f[n] = g[n][f[n - 1]]
        BY <2>1, <3>2, Fold
      <4> QED BY <4>1, <4>2, Zenon
    <3> QED BY <3>3, Zenon DEF A
  <2>7. Rec(f)
    <3>1. \A n \in 1..c : f[n - 1] \in 0..c
      BY <2>1, <2>6
    <3>2. \A n \in 1..c : f[n] = Step(f[n - 1], n)
      BY <2>6, <3>1, Zenon
    <3> QED BY <2>1, <2>6, <3>2
  <2>8. Rec(F)
    <3> HIDE DEF Rec
    <3> QED BY <2>7, Zenon
  <2>9. F[0] = 0 /\ \A n \in 1..c : F[n] = Step(F[n - 1], n)
    <3> DEFINE B(n) == IF n = 0 THEN 0 ELSE Step(F[n - 1], n)
    <3> HIDE DEF F
    <3>1. F = [n \in 0..c |-> B(n)]
      BY <2>8, Zenon
    <3> HIDE DEF B
    <3>2. \A n \in 0..c : F[n] = B(n)
      BY <3>1, Zenon
    <3>3. 0 \in 0..c /\ \A n \in 1..c : n \in 0..c /\ n # 0
      BY <2>1
    <3> QED BY <3>2, <3>3, Zenon DEF B
  <2> HIDE DEF F
  <2> DEFINE K == {k \in 0..c : F[k] \in 0..k /\ Chosen(rs, k, F[k])}
  <2>10. 0 \in K
    <3>1. 0 \in 0..c /\ 0 \in 0..0 /\ \A m \in 1..0 : FALSE
      BY <2>1
    <3> QED BY <2>9, <3>1, Zenon DEF Chosen
  <2>11. ASSUME NEW k \in 1..c, k - 1 \in K PROVE k \in K
    <3>1. F[k - 1] \in 0..(k - 1) /\ Chosen(rs, k - 1, F[k - 1]) /\ k \in 0..c
      BY <2>11
    <3> QED BY <2>4, <2>9, <3>1
  <2>12. c \in K
    <3>1. K \in SUBSET (0..c) /\ c \in 0..c
      BY <2>1
    <3> HIDE DEF K
    <3> QED BY <2>1, <2>10, <2>11, <3>1, Zenon DEF Counting
  <2> QED BY <2>2, <2>12, Zenon DEF c
<1>Main. ASSUME Counting, NEW rs \in Seq(Rib)
         PROVE  /\ Selection(rs) \in 0..Len(rs)
                /\ Selection(rs) = 0 => \A n \in DOMAIN rs : ~Usable(rs[n])
                /\ \A n \in DOMAIN rs : n = Selection(rs) <=> Best(rs, n)
  <2> USE <1>Main
  <2> DEFINE s == Selection(rs)
  <2>1. s \in 0..Len(rs) /\ Chosen(rs, Len(rs), s)
    BY <1>SelectionChosen, Zenon
  <2> HIDE DEF s
  <2>2. DOMAIN rs = 1..Len(rs) /\ Len(rs) \in Nat
    OBVIOUS
  <2>3. s = 0 => \A n \in DOMAIN rs : ~Usable(rs[n])
    BY <2>1, <2>2, Zenon DEF Chosen
  <2>4. ASSUME NEW n \in DOMAIN rs, n = s PROVE Best(rs, n)
    BY <2>1, <2>2, <2>4 DEF Chosen, Best
  <2>5. ASSUME NEW n \in DOMAIN rs, Best(rs, n) PROVE n = s
    <3>1. Usable(rs[n]) /\ s # 0 /\ s \in DOMAIN rs
      BY <2>1, <2>2, <2>3, <2>5 DEF Best
    <3>2. Best(rs, s) /\ Usable(rs[s])
      BY <2>4, <3>1, Zenon DEF Best
    <3>3. CASE n < s
      <4>1. Better(rs[n], rs[s])
        BY <2>2, <2>5, <3>1, <3>2, <3>3, Zenon DEF Best
      <4> QED BY <3>1, <3>2, <4>1, Zenon DEF Best
    <3>4. CASE s < n
      <4>1. Better(rs[s], rs[n])
        BY <2>2, <3>1, <3>2, <3>4, Zenon DEF Best
      <4> QED BY <2>5, <3>1, <3>2, <4>1, Zenon DEF Best
    <3> QED BY <2>2, <3>1, <3>3, <3>4
  <2> QED BY <2>1, <2>3, <2>4, <2>5, Zenon DEF s
<1> QED BY <1>Main, Zenon

-----------------------------------------------------------------------------
(* What rib_unlink leaves.                                                 *)

\* ks are the entries at h[1] < h[2] < ... of the first k, all but the removed.
Places(ks, rs, k, h) ==
    /\ ks \in Seq(Rib)
    /\ h \in [1..Len(ks) -> 1..k]
    /\ \A n \in 1..Len(ks) : ks[n] = rs[h[n]] /\ ~rs[h[n]].removed
    /\ \A m, n \in 1..Len(ks) : m < n => h[m] < h[n]
    /\ \A m \in 1..k : ~rs[m].removed => \E n \in 1..Len(ks) : h[n] = m

\* rib_unlink keeps the entries that are not removed, in their order.
LEMMA KeptPlaces ==
  \A rs \in Seq(Rib) :
     /\ Counting
     =>
         \E h : Places(Kept(rs), rs, Len(rs), h)
\* One more entry is looked at by rib_unlink.
<1>PlacesStep. ASSUME NEW rs \in Seq(Rib), NEW k \in 1..Len(rs), NEW ks, NEW h, Places(ks, rs, k - 1, h)
               PROVE  \E g : Places(IF rs[k].removed THEN ks ELSE Append(ks, rs[k]), rs, k, g)
  <2> USE <1>PlacesStep
  <2>1. /\ ks \in Seq(Rib) /\ h \in [1..Len(ks) -> 1..(k - 1)]
        /\ \A n \in 1..Len(ks) : ks[n] = rs[h[n]] /\ ~rs[h[n]].removed
        /\ \A m, n \in 1..Len(ks) : m < n => h[m] < h[n]
        /\ \A m \in 1..(k - 1) : ~rs[m].removed => \E n \in 1..Len(ks) : h[n] = m
    BY Zenon DEF Places
  <2>2. Len(rs) \in Nat /\ k \in Nat /\ rs[k] \in Rib /\ Len(ks) \in Nat
    BY <2>1
  <2>3. \A n \in 1..Len(ks) : h[n] \in 1..(k - 1) /\ h[n] \in 1..k /\ h[n] < k
    BY <2>1, <2>2
  <2>4. CASE rs[k].removed
    <3>1. h \in [1..Len(ks) -> 1..k]
      BY <2>1, <2>3, Zenon
    <3>2. \A m \in 1..k : m = k \/ m \in 1..(k - 1)
      BY <2>2
    <3>3. Places(ks, rs, k, h)
      BY <2>1, <2>4, <3>1, <3>2, Zenon DEF Places
    <3> QED BY <2>4, <3>3, Zenon
  <2>5. CASE ~rs[k].removed
    <3> DEFINE c == Len(ks)
               x == Append(ks, rs[k])
               g == [n \in 1..(c + 1) |-> IF n = c + 1 THEN k ELSE h[n]]
    <3>1. /\ x \in Seq(Rib) /\ Len(x) = c + 1 /\ x[c + 1] = rs[k]
          /\ \A n \in 1..c : x[n] = ks[n]
      BY <2>1, <2>2
    <3>2. \A n \in 1..(c + 1) : n = c + 1 \/ n \in 1..c
      BY <2>2
    <3>3. c + 1 \in 1..(c + 1) /\ k \in 1..k /\ \A n \in 1..c : n \in 1..(c + 1) /\ n # c + 1
      BY <2>2
    <3>4. g[c + 1] = k /\ \A n \in 1..c : g[n] = h[n]
      BY <3>3, Zenon
    <3>5. g \in [1..(c + 1) -> 1..k]
      BY <2>3, <3>2, <3>3, Zenon
    <3> HIDE DEF x, g, c
    <3>6. \A n \in 1..(c + 1) : x[n] = rs[g[n]] /\ ~rs[g[n]].removed
      BY <2>1, <2>5, <3>1, <3>2, <3>4 DEF c
    <3>7. ASSUME NEW m \in 1..(c + 1), NEW n \in 1..(c + 1), m < n PROVE g[m] < g[n]
      <4>1. m \in 1..c
        BY <2>2, <3>7 DEF c
      <4>2. CASE n = c + 1
        BY <2>3, <3>4, <4>1, <4>2, Zenon DEF c
      <4>3. CASE n \in 1..c
        BY <2>1, <3>4, <3>7, <4>1, <4>3, Zenon DEF c
      <4> QED BY <3>2, <4>2, <4>3, Zenon
    <3>8. ASSUME NEW m \in 1..k, ~rs[m].removed PROVE \E n \in 1..(c + 1) : g[n] = m
      <4>1. CASE m = k
        BY <3>3, <3>4, <4>1, Zenon
      <4>2. CASE m # k
        <5>1. m \in 1..(k - 1)
          BY <2>2, <4>2
        <5>2. PICK n \in 1..c : h[n] = m
          BY <2>1, <3>8, <5>1, Zenon DEF c
        <5> QED BY <3>3, <3>4, <5>2, Zenon
      <4> QED BY <4>1, <4>2, Zenon
    <3>9. Places(x, rs, k, g)
      BY <3>1, <3>5, <3>6, <3>7, <3>8, Zenon DEF Places
    <3> QED BY <2>5, <3>9, Zenon DEF x
  <2> QED BY <2>4, <2>5, Zenon
<1>Main. ASSUME Counting, NEW rs \in Seq(Rib)
         PROVE  \E h : Places(Kept(rs), rs, Len(rs), h)
  <2> USE <1>Main
  <2> DEFINE c == Len(rs)
             Step(ks, n) == IF rs[n].removed THEN ks ELSE Append(ks, rs[n])
             A == Seq(Rib)
             g == [n \in 1..c |-> [ks \in A |-> Step(ks, n)]]
             Rec(f) == f = [n \in 0..c |-> IF n = 0 THEN <<>>
                                           ELSE IF rs[n].removed THEN f[n - 1]
                                           ELSE Append(f[n - 1], rs[n])]
             F == CHOOSE f : Rec(f)
  <2>1. c \in Nat /\ \A n \in 1..c : rs[n] \in Rib
    OBVIOUS
  <2>2. Kept(rs) = F[c]
    BY Zenon DEF Kept
  <2>3. \A n \in 1..c : \A ks \in A : Step(ks, n) \in A
    BY <2>1
  <2>4. ASSUME NEW n \in 1..c, NEW ks, NEW h, Places(ks, rs, n - 1, h)
        PROVE  \E k : Places(Step(ks, n), rs, n, k)
    BY <2>4, <1>PlacesStep, Zenon
  <2>5. <<>> \in A
    OBVIOUS
  <2>6. Places(<<>>, rs, 0, <<>>)
    BY DEF Places
  <2> HIDE DEF c
  <2>7. \A f : Rec(f) <=> f = [n \in 0..c |-> IF n = 0 THEN <<>> ELSE Step(f[n - 1], n)]
    BY Zenon
  <2> HIDE DEF Step, A, Rec
  <2>8. g \in [1..c -> [A -> A]]
    BY <2>3, Zenon
  <2>9. PICK f \in [0..c -> A] : f[0] = <<>> /\ \A n \in 1..c : f[n] = g[n][f[n - 1]]
    <3> HIDE DEF g
    <3>1. PICK z \in A : z = <<>>
      BY <2>5, Zenon
    <3>2. c \in Nat
      BY <2>1, Zenon
    <3>3. \E f \in [0..c -> A] : f[0] = z /\ \A n \in 1..c : f[n] = g[n][f[n - 1]]
      BY <2>8, <3>2, Fold
    <3> QED BY <3>1, <3>3, Zenon
  <2>10. Rec(f)
    <3>1. \A n \in 1..c : f[n - 1] \in A
      BY <2>1, <2>9
    <3>2. \A n \in 1..c : f[n] = Step(f[n - 1], n)
      BY <2>9, <3>1, Zenon
    <3>3. f = [n \in 0..c |-> f[n]]
      BY <2>9
    <3> QED BY <2>1, <2>7, <2>9, <3>2, <3>3, SMTT(30)
  <2>11. Rec(F)
    BY <2>10, Zenon
  <2>12. F[0] = <<>> /\ \A n \in 1..c : F[n] = Step(F[n - 1], n)
    <3> DEFINE B(n) == IF n = 0 THEN <<>> ELSE Step(F[n - 1], n)
    <3> HIDE DEF F
    <3>1. F = [n \in 0..c |-> B(n)]
      BY <2>7, <2>11, Zenon
    <3> HIDE DEF B
    <3>2. \A n \in 0..c : F[n] = B(n)
      BY <3>1, Zenon
    <3>3. 0 \in 0..c /\ \A n \in 1..c : n \in 0..c /\ n # 0
      BY <2>1
    <3> QED BY <3>2, <3>3, Zenon DEF B
  <2> HIDE DEF F
  <2> DEFINE K == {k \in 0..c : \E h : Places(F[k], rs, k, h)}
  <2>13. 0 \in K
    <3>1. 0 \in 0..c
      BY <2>1
    <3> QED BY <2>6, <2>12, <3>1, Zenon
  <2>14. ASSUME NEW k \in 1..c, k - 1 \in K PROVE k \in K
    <3>1. (\E h : Places(F[k - 1], rs, k - 1, h)) /\ k \in 0..c
      BY <2>14
    <3>2. \E h : Places(F[k], rs, k, h)
      BY <2>4, <2>12, <3>1, Zenon
    <3> QED BY <3>1, <3>2, Zenon
  <2>15. c \in K
    <3>1. K \in SUBSET (0..c) /\ c \in 0..c
      BY <2>1
    <3> HIDE DEF K
    <3> QED BY <2>1, <2>13, <2>14, <3>1, Zenon DEF Counting
  <2> QED BY <2>2, <2>15, Zenon DEF c
<1> QED BY <1>Main, Zenon

-----------------------------------------------------------------------------
(* rib_process.                                                            *)

\* nexthop_active_update entry by entry.
LEMMA RefreshedList ==
  ASSUME NEW t \in Tables, NEW d \in Dests, NEW up
  PROVE  /\ Refreshed(t, up, d) \in Seq(Rib)
         /\ Len(Refreshed(t, up, d)) = Len(t.routes[d])
         /\ \A n \in 1..Len(t.routes[d]) :
               IF t.routes[d][n].removed THEN Refreshed(t, up, d)[n] = t.routes[d][n]
               ELSE Refreshed(t, up, d)[n]
                      = [t.routes[d][n] EXCEPT !.active = ActiveHops(t, up, d, t.routes[d][n])]
<1> DEFINE old == t.routes[d]
<1>1. old \in Seq(Rib)
  BY TableParts, Zenon
<1>2. DOMAIN old = 1..Len(old) /\ Len(old) \in Nat /\ \A n \in 1..Len(old) : old[n] \in Rib
  BY <1>1
<1>3. ASSUME NEW r \in Rib PROVE [r EXCEPT !.active = ActiveHops(t, up, d, r)] \in Rib
  <2>1. ActiveHops(t, up, d, r) \subseteq r.nhs
    BY Zenon DEF ActiveHops
  <2> HIDE DEF ActiveHops
  <2> QED BY <2>1, Zenon DEF Rib
<1>4. \A n \in 1..Len(old) :
         (IF old[n].removed THEN old[n] ELSE [old[n] EXCEPT !.active = ActiveHops(t, up, d, old[n])])
            \in Rib
  BY <1>2, <1>3, Zenon
<1>5. Refreshed(t, up, d) = [n \in 1..Len(old) |->
         IF old[n].removed THEN old[n] ELSE [old[n] EXCEPT !.active = ActiveHops(t, up, d, old[n])]]
  BY <1>2, Zenon DEF Refreshed
<1> HIDE DEF old
<1> QED BY <1>2, <1>4, <1>5 DEF old

FibOf(rs) == IF Selected(rs) = {} THEN 0 ELSE CHOOSE n \in Selected(rs) : TRUE

\* The position that rib_process finds is that of the one selected entry, and
\* what the kernel has is that entry.
LEMMA FibIs ==
  ASSUME NEW rs \in Seq(Rib), One(rs)
  PROVE  /\ FibOf(rs) \in 0..Len(rs)
         /\ \A n \in DOMAIN rs : rs[n].selected <=> n = FibOf(rs)
         /\ FibOf(rs) # 0 => FibOf(rs) \in Selected(rs)
         /\ \A ks : KernOK(rs, ks) =>
               \A k \in ks : /\ k # {} /\ FibOf(rs) # 0
                             /\ ~SystemRoute(rs[FibOf(rs)]) /\ rs[FibOf(rs)].fib = k
         /\ SelTypes(rs) = IF FibOf(rs) = 0 THEN {} ELSE {rs[FibOf(rs)].type}
<1> DEFINE f == FibOf(rs)
<1>1. DOMAIN rs = 1..Len(rs) /\ Len(rs) \in Nat
  OBVIOUS
<1>2. CASE Selected(rs) = {}
  <2>1. f = 0
    BY <1>2, Zenon DEF FibOf
  <2>2. \A n \in DOMAIN rs : ~rs[n].selected /\ n # 0
    BY <1>1, <1>2 DEF Selected
  <2> QED BY <1>1, <1>2, <2>1, <2>2 DEF KernOK, SelTypes
<1>3. CASE Selected(rs) # {}
  <2>1. f \in Selected(rs)
    BY <1>3, Zenon DEF FibOf
  <2> HIDE DEF f
  <2>2. f \in DOMAIN rs /\ rs[f].selected /\ f # 0 /\ f \in 0..Len(rs)
    BY <1>1, <2>1 DEF Selected
  <2>3. Selected(rs) = {f}
    BY <2>1, Zenon DEF One
  <2>4. \A n \in DOMAIN rs : rs[n].selected <=> n = f
    BY <2>3, Zenon DEF Selected
  <2>5. SelTypes(rs) = {rs[f].type}
    BY <2>3, Zenon DEF SelTypes
  <2>6. ASSUME NEW ks, KernOK(rs, ks), NEW k \in ks
        PROVE  k # {} /\ ~SystemRoute(rs[f]) /\ rs[f].fib = k
    BY <2>3, <2>6, Zenon DEF KernOK
  <2> QED BY <2>1, <2>2, <2>4, <2>5, <2>6, Zenon DEF f
<1> QED BY <1>2, <1>3, Zenon

\* Entries that rib_process does not tell apart.
Alike(r, x) == r.type = x.type /\ r.removed = x.removed /\ r.active = x.active

\* Entries that were looked at for the next hops of table t.
Decided(t, up, d, ks) ==
    \A n \in DOMAIN ks : /\ ks[n].selected <=> Best(ks, n)
                         /\ ks[n].removed \/ Current(t, up, d, ks[n])

\* What nexthop_active_update has just set is current.
LEMMA HopsCurrent ==
  ASSUME NEW t, NEW up, NEW d, NEW r, r.active = ActiveHops(t, up, d, r)
  PROVE  Current(t, up, d, r)
<1>1. CASE r.type = "connect"
  <2>1. r.active = r.nhs \cap up
    BY <1>1, Zenon DEF ActiveHops
  <2> QED BY <1>1, <2>1, Zenon DEF Current
<1>2. CASE r.type # "connect"
  <2>1. \A i : i \in r.active <=> i \in r.nhs /\ GatewayActive(t, d, i)
    BY <1>2, Zenon DEF ActiveHops
  <2>2. ASSUME NEW i, GatewayActive(t, d, i)
        PROVE  /\ ConnOf[i] # d
               /\ \E n \in Match(t, ConnOf[i]) : t.routes[ConnOf[i]][n].type = "connect"
    BY <2>2, Zenon DEF GatewayActive
  <2> QED BY <1>2, <2>1, <2>2, Zenon DEF Current
<1> QED BY <1>1, <1>2, Zenon

\* ks are the entries of d after rib_process and rib_unlink.
Unlinked(t, up, d, ks) ==
    /\ ks \in Seq(Rib)
    /\ Decided(t, up, d, ks)
    /\ HasConn(ks) <=> WantConn(ks, up)
    /\ WantConn(ks, up) <=> WantConn(t.routes[d], up)
    /\ \A n \in DOMAIN ks :
          /\ ~ks[n].removed
          /\ \E m \in DOMAIN t.routes[d] :
                ~t.routes[d][m].removed /\ t.routes[d][m].type = ks[n].type

\* x is what rib_process makes of d: the entries that rib_unlink leaves are the
\* ones the kernel and the client have been told of, and no line is lost.
Processed(t, d, x) ==
    LET ks == Kept(x.routes)
    IN  /\ Unlinked(t, ifup, d, ks)
        /\ One(ks) /\ NoKernel(ks)
        /\ KernOK(ks, x.kernel)
        /\ x.told = SelTypes(ks) \cap redist
        /\ \A nh : HasLine(t.routes[d], nh) => HasLine(ks, nh)

\* The result of rib_process and rib_unlink.
LEMMA ProcessedList ==
  \A t \in Tables, d \in Dests, ok \in BOOLEAN :
     /\ Counting
     /\ One(t.routes[d])
     /\ KernOK(t.routes[d], kernel[d])
     /\ NoKernel(t.routes[d])
     /\ told[d] = SelTypes(t.routes[d]) \cap redist
     => Processed(t, d, rib_process(t, d, ok))
\* What nexthop_active_update leaves alone.
<1>RefreshedSame. ASSUME NEW t \in Tables, NEW d \in Dests, NEW up, NEW n \in 1..Len(t.routes[d])
                  PROVE  LET r == t.routes[d][n]
                             x == Refreshed(t, up, d)[n]
                         IN  /\ x.type = r.type /\ x.nhs = r.nhs /\ x.removed = r.removed
                             /\ x.selected = r.selected /\ x.fib = r.fib
                             /\ ~r.removed => x.active = ActiveHops(t, up, d, r)
  <2>1. t.routes[d][n] \in Rib
    BY TableParts
  <2>2. IF t.routes[d][n].removed THEN Refreshed(t, up, d)[n] = t.routes[d][n]
        ELSE Refreshed(t, up, d)[n]
               = [t.routes[d][n] EXCEPT !.active = ActiveHops(t, up, d, t.routes[d][n])]
    BY RefreshedList
  <2> QED BY <2>1, <2>2, Zenon DEF Rib
\* The entries after rib_process, the kernel's routes and what the client knows.
<1>ProcessResult. ASSUME Counting, NEW t \in Tables, NEW d \in Dests, NEW ok \in BOOLEAN,
                         One(t.routes[d]), KernOK(t.routes[d], kernel[d]),
                         told[d] = SelTypes(t.routes[d]) \cap redist
                  PROVE  LET x  == rib_process(t, d, ok)
                             rs == Refreshed(t, ifup, d)
                         IN  /\ x.routes \in Seq(Rib) /\ Len(x.routes) = Len(rs)
                             /\ \A n \in 1..Len(rs) :
                                   /\ x.routes[n].type = rs[n].type /\ x.routes[n].nhs = rs[n].nhs
                                   /\ x.routes[n].removed = rs[n].removed
                                   /\ x.routes[n].active = rs[n].active
                                   /\ x.routes[n].selected <=> n = Selection(rs)
                             /\ KernOK(x.routes, x.kernel)
                             /\ x.told = SelTypes(x.routes) \cap redist
  <2> USE <1>ProcessResult
  <2> DEFINE old == t.routes[d]
             rs == Refreshed(t, ifup, d)
             s == Selection(rs)
             fib == FibOf(old)
             keep == s # 0 /\ s = fib
             changed == rs[s].active # old[s].active
             reinstall == keep /\ (changed \/ (~SystemRoute(rs[s]) /\ rs[s].fib = {}))
             out  == fib # 0 /\ (~keep \/ changed)
             in   == s # 0 /\ (~keep \/ reinstall)
             k1   == IF out THEN KernelWithout(kernel[d], old[fib]) ELSE kernel[d]
             t1   == IF out THEN Withdrawn(told[d], old[fib]) ELSE told[d]
             Y(n) == IF n = fib /\ out THEN Uninstalled(rs[n]) ELSE rs[n]
             Z(n) == IF n = s /\ in THEN Installed(Y(n), ok) ELSE Y(n)
             R == [n \in DOMAIN rs |-> [Z(n) EXCEPT !.selected = (n = s)]]
             K == IF in THEN KernelWith(k1, rs[s], ok) ELSE k1
             T == IF in /\ (~keep \/ changed) THEN Announced(t1, rs[s]) ELSE t1
  <2>1. rib_process(t, d, ok) = [routes |-> R, kernel |-> K, told |-> T]
    BY Zenon DEF rib_process, FibOf
  <2>2. old \in Seq(Rib) /\ rs \in Seq(Rib) /\ Len(rs) = Len(old) /\ Len(rs) \in Nat
    BY TableParts, RefreshedList
  <2>3. DOMAIN rs = 1..Len(rs) /\ \A n \in 1..Len(rs) : rs[n] \in Rib
    BY <2>2
  <2>4. \A n \in 1..Len(rs) : rs[n].type = old[n].type /\ rs[n].fib = old[n].fib
    BY <2>2, <1>RefreshedSame
  <2>5. /\ s \in 0..Len(rs)
        /\ s # 0 => s \in 1..Len(rs) /\ Usable(rs[s])
    <3>1. s \in 0..Len(rs) /\ \A n \in DOMAIN rs : n = s <=> Best(rs, n)
      BY <2>2, SelectionBest, Zenon
    <3>2. s # 0 => s \in 1..Len(rs)
      BY <2>2, <3>1
    <3> HIDE DEF s, rs
    <3> QED BY <2>3, <3>1, <3>2, Zenon DEF Best
  <2>6. /\ fib \in 0..Len(rs) /\ (fib # 0 => fib \in 1..Len(rs))
        /\ \A k \in kernel[d] : /\ k # {} /\ fib # 0
                                /\ ~SystemRoute(old[fib]) /\ old[fib].fib = k
        /\ told[d] = (IF fib = 0 THEN {} ELSE {old[fib].type}) \cap redist
    <3>1. fib \in 0..Len(rs)
      BY <2>2, FibIs, Zenon
    <3>2. fib # 0 => fib \in 1..Len(rs)
      BY <2>2, <3>1
    <3>3. \A k \in kernel[d] : /\ k # {} /\ fib # 0
                               /\ ~SystemRoute(old[fib]) /\ old[fib].fib = k
      BY <2>2, FibIs
    <3>4. SelTypes(old) = IF fib = 0 THEN {} ELSE {old[fib].type}
      BY <2>2, FibIs, Zenon
    <3> HIDE DEF fib, old
    <3> QED BY <3>1, <3>2, <3>3, <3>4, Zenon DEF old
  <2> HIDE DEF old, rs, s, fib
  <2>7. ASSUME NEW n \in 1..Len(rs)
        PROVE  /\ Z(n) \in Rib
               /\ Z(n).type = rs[n].type /\ Z(n).nhs = rs[n].nhs
               /\ Z(n).removed = rs[n].removed /\ Z(n).active = rs[n].active
               /\ (n = s /\ in /\ ok /\ ~SystemRoute(rs[n])) => Z(n).fib = rs[n].active
               /\ (n = s /\ ~in /\ ~out) => Z(n) = rs[n]
    <3>1. ASSUME NEW r \in Rib
          PROVE  /\ Uninstalled(r) \in Rib
                 /\ Uninstalled(r).type = r.type /\ Uninstalled(r).nhs = r.nhs
                 /\ Uninstalled(r).removed = r.removed /\ Uninstalled(r).active = r.active
                 /\ Installed(r, ok) \in Rib
                 /\ Installed(r, ok).type = r.type /\ Installed(r, ok).nhs = r.nhs
                 /\ Installed(r, ok).removed = r.removed /\ Installed(r, ok).active = r.active
                 /\ (ok /\ ~SystemRoute(r)) => Installed(r, ok).fib = r.active
      BY Zenon DEF Uninstalled, Installed, Rib, SystemRoute
    <3> HIDE DEF in, out
    <3>2. /\ Y(n) \in Rib /\ Y(n).type = rs[n].type /\ Y(n).nhs = rs[n].nhs
          /\ Y(n).removed = rs[n].removed /\ Y(n).active = rs[n].active
          /\ ~out => Y(n) = rs[n]
      BY <2>3, <3>1, Zenon
    <3> HIDE DEF Y
    <3>3. SystemRoute(Y(n)) <=> SystemRoute(rs[n])
      BY <3>2, Zenon DEF SystemRoute
    <3> QED BY <3>1, <3>2, <3>3, Zenon
  <2>8. ASSUME NEW n \in 1..Len(rs)
        PROVE  /\ R[n] \in Rib
               /\ R[n].type = rs[n].type /\ R[n].nhs = rs[n].nhs
               /\ R[n].removed = rs[n].removed /\ R[n].active = rs[n].active
               /\ R[n].selected <=> n = s
               /\ R[n].fib = Z(n).fib
    <3>1. R[n] = [Z(n) EXCEPT !.selected = (n = s)]
      BY <2>3, Zenon
    <3>2. Z(n) \in Rib
      BY <2>7, Zenon
    <3>3. /\ Z(n).type = rs[n].type /\ Z(n).nhs = rs[n].nhs
          /\ Z(n).removed = rs[n].removed /\ Z(n).active = rs[n].active
      BY <2>7, Zenon
    <3> HIDE DEF R, Z
    <3> QED BY <3>1, <3>2, <3>3, Zenon DEF Rib
  <2>9. R \in Seq(Rib) /\ Len(R) = Len(rs) /\ DOMAIN R = 1..Len(rs)
    <3>1. DOMAIN R = 1..Len(rs) /\ R = [n \in 1..Len(rs) |-> R[n]]
      BY <2>3, Zenon
    <3> HIDE DEF R
    <3> QED BY <2>2, <2>8, <3>1
  <2> HIDE DEF Y, Z, R
  <2>10. out \/ fib = 0 => k1 = {} /\ t1 = {}
    <3> HIDE DEF keep, changed
    <3>1. fib = 0 => kernel[d] = {} /\ told[d] = {} /\ ~out
      BY <2>6, Zenon
    <3>2. ASSUME out PROVE KernelWithout(kernel[d], old[fib]) = {}
      BY <2>6, Zenon DEF KernelWithout
    <3>3. ASSUME out PROVE Withdrawn(told[d], old[fib]) = {}
      BY <2>6, <3>3, Zenon DEF Withdrawn
    <3> HIDE DEF out
    <3> QED BY <3>1, <3>2, <3>3, Zenon
  <2>11. Selected(R) = IF s = 0 THEN {} ELSE {s}
    BY <2>5, <2>8, <2>9 DEF Selected
  <2> DEFINE tell == in /\ (~keep \/ changed)
  <2>12. /\ in => s # 0 /\ K = KernelWith(k1, rs[s], ok)
         /\ ~in => K = k1
         /\ tell => s # 0 /\ T = Announced(t1, rs[s]) /\ (out \/ fib = 0)
         /\ ~tell => T = t1
         /\ ~out => k1 = kernel[d] /\ t1 = told[d]
         /\ in /\ ~out /\ fib # 0 => s = fib /\ rs[s].fib = {}
         /\ ~in /\ ~out /\ fib # 0 => s = fib
         /\ s = 0 => out \/ fib = 0
         /\ s # 0 /\ ~tell => s = fib /\ ~out
    <3> DEFINE ch == changed
               sys == SystemRoute(rs[s])
               none == rs[s].fib = {}
    <3>1. /\ keep <=> s # 0 /\ s = fib
          /\ reinstall <=> keep /\ (ch \/ (~sys /\ none))
          /\ out <=> fib # 0 /\ (~keep \/ ch)
          /\ in <=> s # 0 /\ (~keep \/ reinstall)
          /\ tell <=> in /\ (~keep \/ ch)
          /\ k1 = IF out THEN KernelWithout(kernel[d], old[fib]) ELSE kernel[d]
          /\ t1 = IF out THEN Withdrawn(told[d], old[fib]) ELSE told[d]
          /\ K = IF in THEN KernelWith(k1, rs[s], ok) ELSE k1
          /\ T = IF tell THEN Announced(t1, rs[s]) ELSE t1
      BY Zenon
    <3>2. none => rs[s].fib = {}
      BY Zenon
    <3> HIDE DEF ch, sys, none, keep, reinstall, out, in, tell, k1, t1, K, T, changed
    <3> QED BY <3>1, <3>2, Zenon
  <2>13. \A n \in 1..Len(rs) :
            /\ (n = s /\ in /\ ok /\ ~SystemRoute(rs[n])) => R[n].fib = rs[n].active
            /\ (n = s /\ ~in /\ ~out) => R[n].fib = rs[n].fib
    <3> HIDE DEF in, out
    <3> QED BY <2>7, <2>8
  <2> HIDE DEF keep, changed, reinstall, out, in, tell, k1, t1, K, T
  <2>14. KernOK(R, K)
    <3>1. CASE in
      <4>1. k1 = {}
        <5>1. CASE out \/ fib = 0
          BY <2>10, <5>1, Zenon
        <5>2. CASE ~out /\ fib # 0
          <6>1. s = fib /\ rs[s].fib = {} /\ s \in 1..Len(rs) /\ k1 = kernel[d]
            BY <2>5, <2>12, <3>1, <5>2, Zenon
          <6>2. old[fib].fib = {}
            BY <2>4, <6>1, Zenon
          <6> QED BY <2>6, <6>1, <6>2, Zenon
        <5> QED BY <5>1, <5>2, Zenon
      <4>2. K = KernelWith(k1, rs[s], ok) /\ s # 0
        BY <2>12, <3>1, Zenon
      <4>3. s \in 1..Len(rs) /\ rs[s].active # {}
        BY <2>5, <4>2, Zenon DEF Usable
      <4>4. CASE SystemRoute(rs[s]) \/ ~ok
        <5>1. K = {}
          BY <4>1, <4>2, <4>4, Zenon DEF KernelWith
        <5> QED BY <5>1, Zenon DEF KernOK
      <4>5. CASE ~SystemRoute(rs[s]) /\ ok
        <5>1. K = {rs[s].active}
          BY <4>1, <4>2, <4>5, Zenon DEF KernelWith
        <5>2. R[s].fib = rs[s].active
          BY <2>13, <3>1, <4>3, <4>5, Zenon
        <5>3. R[s].type = rs[s].type /\ s \in Selected(R)
          BY <2>8, <2>11, <4>2, <4>3, Zenon
        <5>4. ~SystemRoute(R[s])
          BY <4>5, <5>3, Zenon DEF SystemRoute
        <5> QED BY <4>3, <5>1, <5>2, <5>3, <5>4, Zenon DEF KernOK
      <4> QED BY <4>4, <4>5, Zenon
    <3>2. CASE ~in
      <4>1. K = k1
        BY <2>12, <3>2, Zenon
      <4>2. CASE out \/ fib = 0
        <5>1. K = {}
          BY <2>10, <4>1, <4>2, Zenon
        <5> QED BY <5>1, Zenon DEF KernOK
      <4>3. CASE ~out /\ fib # 0
        <5>1. s = fib /\ s # 0 /\ K = kernel[d]
          BY <2>12, <3>2, <4>1, <4>3, Zenon
        <5>2. s \in 1..Len(rs)
          BY <2>5, <5>1, Zenon
        <5>3. R[s].fib = rs[s].fib
          BY <2>13, <3>2, <4>3, <5>2, Zenon
        <5>4. R[s].type = rs[s].type /\ s \in Selected(R)
          BY <2>8, <2>11, <5>1, <5>2, Zenon
        <5>5. R[s].fib = old[s].fib /\ R[s].type = old[s].type
          BY <2>4, <5>2, <5>3, <5>4, Zenon
        <5>6. \A k \in kernel[d] : k # {} /\ ~SystemRoute(old[s]) /\ old[s].fib = k
          BY <2>6, <5>1, Zenon
        <5> QED BY <5>1, <5>4, <5>5, <5>6, Zenon DEF KernOK, SystemRoute
      <4> QED BY <4>2, <4>3, Zenon
    <3> QED BY <3>1, <3>2, Zenon
  <2>15. T = SelTypes(R) \cap redist
    <3>1. SelTypes(R) = IF s = 0 THEN {} ELSE {rs[s].type}
      <4>1. s # 0 => R[s].type = rs[s].type
        BY <2>5, <2>8, Zenon
      <4> QED BY <2>11, <4>1, Zenon DEF SelTypes
    <3>2. CASE tell
      <4>1. T = Announced(t1, rs[s]) /\ s # 0 /\ t1 = {}
        BY <2>10, <2>12, <3>2, Zenon
      <4> QED BY <3>1, <4>1, Zenon DEF Announced
    <3>3. CASE ~tell /\ s = 0
      <4>1. T = {}
        BY <2>10, <2>12, <3>3, Zenon
      <4> QED BY <3>1, <3>3, <4>1, Zenon
    <3>4. CASE ~tell /\ s # 0
      <4>1. s = fib /\ T = told[d]
        BY <2>12, <3>4, Zenon
      <4>2. rs[s].type = old[fib].type
        BY <2>4, <2>5, <3>4, <4>1, Zenon
      <4>3. told[d] = {old[fib].type} \cap redist
        BY <2>6, <3>4, <4>1, Zenon
      <4> QED BY <3>1, <3>4, <4>1, <4>2, <4>3, Zenon
    <3> QED BY <3>2, <3>3, <3>4, Zenon
  <2>16. /\ R \in Seq(Rib) /\ Len(R) = Len(rs)
         /\ \A n \in 1..Len(rs) :
               /\ R[n].type = rs[n].type /\ R[n].nhs = rs[n].nhs
               /\ R[n].removed = rs[n].removed /\ R[n].active = rs[n].active
               /\ R[n].selected <=> n = s
         /\ KernOK(R, K) /\ T = SelTypes(R) \cap redist
    BY <2>8, <2>9, <2>14, <2>15, Zenon
  <2>17. /\ rib_process(t, d, ok).routes = R /\ rib_process(t, d, ok).kernel = K
         /\ rib_process(t, d, ok).told = T
    BY <2>1
  <2> QED BY <2>16, <2>17, Zenon DEF rs, s
\* Usable and Better look only at type, removed and active.
<1>AlikeIs. ASSUME NEW r, NEW x, Alike(r, x)
            PROVE  /\ Usable(r) <=> Usable(x)
                   /\ \A y, z : Alike(y, z) => (Better(r, y) <=> Better(x, z))
  <2> USE <1>AlikeIs
  <2>1. r.type = x.type /\ r.removed = x.removed /\ r.active = x.active
    BY Zenon DEF Alike
  <2>2. Usable(r) <=> Usable(x)
    BY <2>1, Zenon DEF Usable
  <2>3. ASSUME NEW y, NEW z, Alike(y, z) PROVE Better(r, y) <=> Better(x, z)
    <3>1. y.type = z.type
      BY <2>3, Zenon DEF Alike
    <3> QED BY <2>1, <3>1, Zenon DEF Better
  <2> QED BY <2>2, <2>3, Zenon
\* Taking removed entries out does not change which one is the best.
<1>PlacesBest. ASSUME NEW ks, NEW xs \in Seq(Rib), NEW rs \in Seq(Rib), Len(rs) = Len(xs), NEW h,
                      Places(ks, xs, Len(xs), h), \A n \in 1..Len(xs) : Alike(xs[n], rs[n]),
                      NEW n \in 1..Len(ks)
               PROVE  Best(ks, n) <=> Best(rs, h[n])
  <2> USE <1>PlacesBest
  <2>1. /\ ks \in Seq(Rib) /\ h \in [1..Len(ks) -> 1..Len(xs)]
        /\ \A m \in 1..Len(ks) : ks[m] = xs[h[m]] /\ ~xs[h[m]].removed
        /\ \A m, j \in 1..Len(ks) : m < j => h[m] < h[j]
        /\ \A m \in 1..Len(xs) : ~xs[m].removed => \E j \in 1..Len(ks) : h[j] = m
    BY Zenon DEF Places
  <2>2. /\ DOMAIN ks = 1..Len(ks) /\ DOMAIN rs = 1..Len(xs)
        /\ Len(ks) \in Nat /\ Len(xs) \in Nat
    BY <2>1
  <2>3. \A j \in 1..Len(ks) : h[j] \in 1..Len(xs) /\ h[j] \in Nat /\ Alike(ks[j], rs[h[j]])
    <3>1. \A j \in 1..Len(ks) : h[j] \in 1..Len(xs)
      BY <2>1, Zenon
    <3>2. \A j \in 1..Len(xs) : j \in Nat
      BY <2>2
    <3> QED BY <2>1, <3>1, <3>2, Zenon
  <2>4. \A j \in 1..Len(ks) : /\ Usable(ks[j]) <=> Usable(rs[h[j]])
                              /\ Better(ks[j], ks[n]) <=> Better(rs[h[j]], rs[h[n]])
                              /\ Better(ks[n], ks[j]) <=> Better(rs[h[n]], rs[h[j]])
    <3> SUFFICES ASSUME NEW j \in 1..Len(ks)
                 PROVE  /\ Usable(ks[j]) <=> Usable(rs[h[j]])
                        /\ Better(ks[j], ks[n]) <=> Better(rs[h[j]], rs[h[n]])
                        /\ Better(ks[n], ks[j]) <=> Better(rs[h[n]], rs[h[j]])
      BY Zenon
    <3>1. Alike(ks[j], rs[h[j]]) /\ Alike(ks[n], rs[h[n]])
      BY <2>3, Zenon
    <3> QED BY <3>1, <1>AlikeIs, Zenon
  <2>5. \A j \in 1..Len(ks) : j > n <=> h[j] > h[n]
    <3>1. ASSUME NEW j \in 1..Len(ks) PROVE j > n <=> h[j] > h[n]
      <4>1. CASE j = n
        BY <2>3, <4>1
      <4>2. CASE j > n
        <5>1. n < j
          BY <2>2, <4>2, Zenon
        <5>2. h[n] < h[j]
          BY <2>1, <5>1, Zenon
        <5> QED BY <2>3, <4>2, <5>2, Zenon
      <4>3. CASE j < n
        <5>1. h[j] < h[n]
          BY <2>1, <4>3, Zenon
        <5> QED BY <2>2, <2>3, <4>3, <5>1
      <4> QED BY <2>2, <4>1, <4>2, <4>3
    <3> QED BY <3>1, Zenon
  <2>6. ASSUME Best(ks, n) PROVE Best(rs, h[n])
    <3>1. Usable(rs[h[n]])
      BY <2>4, <2>6, Zenon DEF Best
    <3>2. ASSUME NEW m \in DOMAIN rs, Usable(rs[m])
          PROVE  ~Better(rs[m], rs[h[n]]) /\ (m > h[n] => Better(rs[h[n]], rs[m]))
      <4>1. ~xs[m].removed
        BY <2>2, <3>2, Zenon DEF Usable, Alike
      <4>2. PICK j \in 1..Len(ks) : h[j] = m
        BY <2>1, <2>2, <3>2, <4>1, Zenon
      <4>3. ~Better(ks[j], ks[n]) /\ (j > n => Better(ks[n], ks[j]))
        BY <2>2, <2>4, <2>6, <3>2, <4>2, Zenon DEF Best
      <4> QED BY <2>4, <2>5, <4>2, <4>3, Zenon
    <3> QED BY <3>1, <3>2, Zenon DEF Best
  <2>7. ASSUME Best(rs, h[n]) PROVE Best(ks, n)
    <3>1. Usable(ks[n])
      BY <2>4, <2>7, Zenon DEF Best
    <3>2. ASSUME NEW j \in DOMAIN ks, Usable(ks[j])
          PROVE  ~Better(ks[j], ks[n]) /\ (j > n => Better(ks[n], ks[j]))
      <4>1. j \in 1..Len(ks) /\ h[j] \in DOMAIN rs /\ Usable(rs[h[j]])
        BY <2>2, <2>3, <2>4, <3>2, Zenon
      <4>2. ~Better(rs[h[j]], rs[h[n]]) /\ (h[j] > h[n] => Better(rs[h[n]], rs[h[j]]))
        BY <2>7, <4>1, Zenon DEF Best
      <4> QED BY <2>4, <2>5, <4>1, <4>2, Zenon
    <3> QED BY <3>1, <3>2, Zenon DEF Best
  <2> QED BY <2>6, <2>7, Zenon
\* Taking removed entries out changes nothing else that matters.
<1>PlacesKeep. ASSUME NEW ks, NEW xs \in Seq(Rib), NEW h, Places(ks, xs, Len(xs), h),
                      \A n \in 1..Len(xs) : xs[n].selected => ~xs[n].removed
               PROVE  /\ One(xs) => One(ks)
                      /\ SelTypes(ks) = SelTypes(xs)
                      /\ \A k : KernOK(xs, k) => KernOK(ks, k)
                      /\ HasConn(ks) <=> HasConn(xs)
                      /\ \A up : WantConn(ks, up) <=> WantConn(xs, up)
                      /\ \A nh : HasLine(xs, nh) => HasLine(ks, nh)
  <2> USE <1>PlacesKeep
  <2>1. /\ ks \in Seq(Rib) /\ h \in [1..Len(ks) -> 1..Len(xs)]
        /\ \A m \in 1..Len(ks) : ks[m] = xs[h[m]] /\ ~xs[h[m]].removed
        /\ \A m, j \in 1..Len(ks) : m < j => h[m] < h[j]
        /\ \A m \in 1..Len(xs) : ~xs[m].removed => \E j \in 1..Len(ks) : h[j] = m
    BY Zenon DEF Places
  <2>2. /\ DOMAIN ks = 1..Len(ks) /\ DOMAIN xs = 1..Len(xs)
        /\ Len(ks) \in Nat /\ Len(xs) \in Nat
    BY <2>1
  <2>3. \A j \in DOMAIN ks : h[j] \in DOMAIN xs /\ ks[j] = xs[h[j]] /\ ~ks[j].removed
    BY <2>1, <2>2, Zenon
  <2>4. \A m \in DOMAIN xs : ~xs[m].removed => \E j \in DOMAIN ks : h[j] = m /\ ks[j] = xs[m]
    BY <2>1, <2>2, <2>3, SMTT(30)
  <2>5. \A m, j \in DOMAIN ks : h[m] = h[j] => m = j
    <3>1. ASSUME NEW m \in DOMAIN ks, NEW j \in DOMAIN ks, h[m] = h[j], m # j PROVE FALSE
      <4>1. h[m] \in Nat /\ h[j] \in Nat
        BY <2>2, <2>3
      <4>2. CASE m < j
        BY <2>1, <2>2, <3>1, <4>1, <4>2
      <4>3. CASE j < m
        BY <2>1, <2>2, <3>1, <4>1, <4>3
      <4> QED BY <2>2, <3>1, <4>2, <4>3
    <3> QED BY <3>1, Zenon
  <2>6. \A j \in Selected(ks) : j \in DOMAIN ks /\ h[j] \in Selected(xs) /\ ks[j] = xs[h[j]]
    BY <2>3, Zenon DEF Selected
  <2>7. \A m \in Selected(xs) : \E j \in Selected(ks) : ks[j] = xs[m]
    BY <2>2, <2>4, Zenon DEF Selected
  <2>8. One(xs) => One(ks)
    BY <2>5, <2>6, Zenon DEF One
  <2>9. SelTypes(ks) = SelTypes(xs)
    <3>1. ASSUME NEW x \in SelTypes(ks) PROVE x \in SelTypes(xs)
      BY <2>6, <3>1 DEF SelTypes
    <3>2. ASSUME NEW x \in SelTypes(xs) PROVE x \in SelTypes(ks)
      <4>1. PICK m \in Selected(xs) : x = xs[m].type
        BY <3>2, Zenon DEF SelTypes
      <4>2. PICK j \in Selected(ks) : ks[j] = xs[m]
        BY <2>7, Zenon
      <4> QED BY <4>1, <4>2, Zenon DEF SelTypes
    <3> QED BY <3>1, <3>2, Zenon
  <2>10. ASSUME NEW k, KernOK(xs, k) PROVE KernOK(ks, k)
    <3>1. ASSUME NEW x \in k PROVE \E n \in Selected(ks) : ~SystemRoute(ks[n]) /\ ks[n].fib = x
      <4>1. PICK m \in Selected(xs) : ~SystemRoute(xs[m]) /\ xs[m].fib = x
        BY <2>10, Zenon DEF KernOK
      <4>2. PICK j \in Selected(ks) : ks[j] = xs[m]
        BY <2>7, Zenon
      <4> QED BY <4>1, <4>2, Zenon
    <3> QED BY <2>10, <3>1, Zenon DEF KernOK
  <2>11. HasConn(ks) <=> HasConn(xs)
    BY <2>3, <2>4 DEF HasConn
  <2>12. ASSUME NEW up PROVE WantConn(ks, up) <=> WantConn(xs, up)
    BY <2>3, <2>4 DEF WantConn
  <2>13. ASSUME NEW nh, HasLine(xs, nh) PROVE HasLine(ks, nh)
    <3>1. PICK m \in LiveAt(xs, "static") : TRUE
      BY <2>13, Zenon DEF HasLine
    <3>2. m \in DOMAIN xs /\ xs[m].type = "static" /\ ~xs[m].removed
      BY <3>1, Zenon DEF LiveAt
    <3>3. PICK j \in DOMAIN ks : ks[j] = xs[m]
      BY <2>4, <3>2, Zenon
    <3>4. j \in LiveAt(ks, "static")
      BY <3>2, <3>3, Zenon DEF LiveAt
    <3>5. \A i \in LiveAt(ks, "static") : h[i] \in LiveAt(xs, "static") /\ ks[i] = xs[h[i]]
      BY <2>3, Zenon DEF LiveAt
    <3> QED BY <2>13, <3>4, <3>5, Zenon DEF HasLine
  <2> QED BY <2>8, <2>9, <2>10, <2>11, <2>12, <2>13, Zenon
\* The active next hops depend on type and next hops.
<1>HopsOf. ASSUME NEW t, NEW up, NEW d, NEW r, NEW x, r.type = x.type, r.nhs = x.nhs
           PROVE  ActiveHops(t, up, d, r) = ActiveHops(t, up, d, x)
  BY <1>HopsOf, Zenon DEF ActiveHops
<1>Main. ASSUME Counting, NEW t \in Tables, NEW d \in Dests, NEW ok \in BOOLEAN,
                One(t.routes[d]), KernOK(t.routes[d], kernel[d]), NoKernel(t.routes[d]),
                told[d] = SelTypes(t.routes[d]) \cap redist
         PROVE  Processed(t, d, rib_process(t, d, ok))
  <2> USE <1>Main
  <2> DEFINE x   == rib_process(t, d, ok)
             xs  == x.routes
             old == t.routes[d]
             rs  == Refreshed(t, ifup, d)
             ks  == Kept(xs)
             s   == Selection(rs)
             up  == ifup
  <2>1. /\ xs \in Seq(Rib) /\ Len(xs) = Len(rs)
        /\ \A n \in 1..Len(rs) :
              /\ xs[n].type = rs[n].type /\ xs[n].nhs = rs[n].nhs /\ xs[n].removed = rs[n].removed
              /\ xs[n].active = rs[n].active
              /\ xs[n].selected <=> n = s
        /\ KernOK(xs, x.kernel) /\ x.told = SelTypes(xs) \cap redist
    <3> HIDE DEF up
    <3> QED BY <1>ProcessResult
  <2>2. rs \in Seq(Rib) /\ Len(rs) = Len(old) /\ old \in Seq(Rib)
    BY TableParts, RefreshedList
  <2>3. \A n \in 1..Len(rs) :
           /\ rs[n].type = old[n].type /\ rs[n].nhs = old[n].nhs /\ rs[n].removed = old[n].removed
           /\ ~old[n].removed => rs[n].active = ActiveHops(t, ifup, d, old[n])
    BY <2>2, <1>RefreshedSame
  <2>4. /\ s \in 0..Len(rs)
        /\ s = 0 => \A n \in DOMAIN rs : ~Usable(rs[n])
        /\ \A n \in DOMAIN rs : n = s <=> Best(rs, n)
    BY <2>2, SelectionBest, Zenon
  <2>5. PICK h : Places(ks, xs, Len(xs), h)
    BY <2>1, KeptPlaces, Zenon
  <2> HIDE DEF x, xs, old, rs, ks, s
  <2>6. /\ DOMAIN xs = 1..Len(rs) /\ DOMAIN rs = 1..Len(rs) /\ DOMAIN old = 1..Len(rs)
        /\ Len(rs) \in Nat
    BY <2>1, <2>2
  <2>7. \A n \in 1..Len(rs) : Alike(xs[n], rs[n])
    BY <2>1, Zenon DEF Alike
  <2>8. \A n \in 1..Len(rs) : xs[n].selected => Best(rs, n) /\ ~xs[n].removed
    BY <2>1, <2>4, <2>6 DEF Best, Usable
  <2>9. /\ One(xs) => One(ks)
        /\ SelTypes(ks) = SelTypes(xs)
        /\ \A k : KernOK(xs, k) => KernOK(ks, k)
        /\ HasConn(ks) <=> HasConn(xs)
        /\ WantConn(ks, up) <=> WantConn(xs, up)
        /\ \A nh : HasLine(xs, nh) => HasLine(ks, nh)
    <3>1. \A n \in 1..Len(xs) : xs[n].selected => ~xs[n].removed
      BY <2>1, <2>8, Zenon
    <3> HIDE DEF up
    <3> QED BY <2>1, <2>5, <3>1, <1>PlacesKeep, Zenon
  <2>10. One(xs)
    BY <2>1, <2>6 DEF One, Selected
  <2>11. WantConn(xs, up) <=> WantConn(old, up)
    BY <2>1, <2>3, <2>6 DEF WantConn
  <2>12. \A n \in 1..Len(rs) : xs[n].type = "connect" /\ ~xs[n].removed =>
             \A i : i \in xs[n].active <=> i \in xs[n].nhs /\ i \in up
    BY <2>1, <2>3 DEF ActiveHops
  <2>13. ASSUME HasConn(xs) PROVE WantConn(xs, up)
    <3>1. PICK n \in 1..Len(rs) : xs[n].type = "connect" /\ ~xs[n].removed /\ xs[n].selected
      BY <2>6, <2>13, Zenon DEF HasConn
    <3>2. Usable(rs[n])
      BY <2>8, <3>1, Zenon DEF Best
    <3>3. xs[n].active # {} /\ Distance["connect"] # DISTANCE_INFINITY
      BY <2>1, <3>1, <3>2, Zenon DEF Usable
    <3>4. PICK i \in xs[n].active : TRUE
      BY <3>3, Zenon
    <3> HIDE DEF up
    <3> QED BY <2>6, <2>12, <3>1, <3>3, <3>4, Zenon DEF WantConn
  <2>14. ASSUME WantConn(xs, up) PROVE HasConn(xs)
    <3>1. PICK n \in 1..Len(rs) : /\ xs[n].type = "connect" /\ ~xs[n].removed
                                  /\ \E i \in xs[n].nhs : i \in up
      BY <2>6, <2>14, Zenon DEF WantConn
    <3>2. xs[n].active # {}
      BY <2>12, <3>1, Zenon
    <3>3. Usable(rs[n])
      BY <2>1, <2>14, <3>1, <3>2, Zenon DEF Usable, WantConn
    <3>4. s # 0 /\ s \in 1..Len(rs)
      BY <2>4, <2>6, <3>3
    <3>5. Best(rs, s)
      BY <2>4, <2>6, <3>4, Zenon
    <3>6. Usable(rs[s]) /\ ~Better(rs[n], rs[s])
      BY <2>6, <3>3, <3>5, Zenon DEF Best
    <3>7. rs[s].type = "connect"
      BY <2>1, <3>1, <3>6, Zenon DEF Better
    <3>8. xs[s].type = "connect" /\ ~xs[s].removed /\ xs[s].selected
      BY <2>1, <3>4, <3>6, <3>7, Zenon DEF Usable
    <3> QED BY <2>6, <3>4, <3>8, Zenon DEF HasConn
  <2>15. ASSUME NEW nh, HasLine(old, nh) PROVE HasLine(xs, nh)
    <3>1. LiveAt(xs, "static") = LiveAt(old, "static")
      BY <2>1, <2>3, <2>6 DEF LiveAt
    <3>2. \A n \in LiveAt(xs, "static") : xs[n].nhs = old[n].nhs
      BY <2>1, <2>3, <2>6, Zenon DEF LiveAt
    <3> QED BY <2>15, <3>1, <3>2, Zenon DEF HasLine
  <2>16. /\ ks \in Seq(Rib) /\ h \in [1..Len(ks) -> 1..Len(rs)] /\ DOMAIN ks = 1..Len(ks)
         /\ \A n \in 1..Len(ks) : ks[n] = xs[h[n]] /\ ~xs[h[n]].removed
    BY <2>1, <2>5 DEF Places
  <2>17. \A n \in DOMAIN ks : h[n] \in 1..Len(rs) /\ ks[n] = xs[h[n]] /\ ~ks[n].removed
    BY <2>16, Zenon
  <2>18. \A n \in DOMAIN ks :
            /\ ~ks[n].removed
            /\ \E m \in DOMAIN old : ~old[m].removed /\ old[m].type = ks[n].type
    <3> SUFFICES ASSUME NEW n \in DOMAIN ks
                 PROVE  /\ ~ks[n].removed
                        /\ \E m \in DOMAIN old : ~old[m].removed /\ old[m].type = ks[n].type
      BY Zenon
    <3>1. h[n] \in 1..Len(rs) /\ ks[n] = xs[h[n]] /\ ~ks[n].removed
      BY <2>17, Zenon
    <3>2. h[n] \in DOMAIN old /\ ~old[h[n]].removed /\ old[h[n]].type = ks[n].type
      BY <2>1, <2>3, <2>6, <3>1
    <3> QED BY <3>1, <3>2, Zenon
  <2>19. NoKernel(ks)
    <3>1. NoKernel(old)
      BY Zenon DEF old
    <3> QED BY <2>18, <3>1 DEF NoKernel
  <2>20. ASSUME NEW n \in DOMAIN ks
         PROVE  /\ ks[n].selected <=> Best(ks, n)
                /\ ks[n].active = ActiveHops(t, up, d, ks[n])
    <3>1. n \in 1..Len(ks) /\ h[n] \in 1..Len(rs) /\ ks[n] = xs[h[n]] /\ ~ks[n].removed
      BY <2>16, <2>17, Zenon
    <3>2. Best(ks, n) <=> Best(rs, h[n])
      BY <2>1, <2>2, <2>5, <2>7, <3>1, <1>PlacesBest, Zenon
    <3>3. ks[n].selected <=> Best(rs, h[n])
      BY <2>1, <2>4, <2>6, <3>1, Zenon
    <3>4. ks[n].active = ActiveHops(t, up, d, old[h[n]])
      BY <2>1, <2>3, <3>1
    <3>5. old[h[n]].type = ks[n].type /\ old[h[n]].nhs = ks[n].nhs
      BY <2>1, <2>3, <3>1
    <3>6. ActiveHops(t, up, d, old[h[n]]) = ActiveHops(t, up, d, ks[n])
      BY <3>5, <1>HopsOf
    <3> QED BY <3>2, <3>3, <3>4, <3>6, Zenon
  <2>21. Decided(t, ifup, d, ks)
    BY <2>20, HopsCurrent, Zenon DEF Decided
  <2>22. HasConn(ks) <=> WantConn(ks, ifup)
    BY <2>9, <2>13, <2>14, Zenon
  <2>23. WantConn(ks, ifup) <=> WantConn(old, ifup)
    BY <2>9, <2>11, Zenon
  <2>24. One(ks) /\ KernOK(ks, x.kernel) /\ x.told = SelTypes(ks) \cap redist
         /\ \A nh : HasLine(old, nh) => HasLine(ks, nh)
    BY <2>1, <2>9, <2>10, <2>15, Zenon
  <2>25. Unlinked(t, ifup, d, ks)
    BY <2>16, <2>18, <2>21, <2>22, <2>23, Zenon DEF Unlinked, old
  <2> HIDE DEF up
  <2> QED BY <2>19, <2>24, <2>25, Zenon DEF Processed, ks, xs, x, old
<1> QED BY <1>Main, Zenon

-----------------------------------------------------------------------------
(* Tables that are in order.                                               *)

\* Tables whose flags and meta queue are in order.
Sound == {t \in Tables : FlagsOK(t) /\ RibqOK(t)}

\* rib_queue_add on a table that is in order.
LEMMA SoundAdd ==
  \A t \in Sound, d \in Dests :
         rib_queue_add(t, d) \in Sound /\ Queueing(t, d, rib_queue_add(t, d))
\* What a destination lacks are sub-queues, and with its flags they cover its
\* entries.
<1>LackingType. ASSUME NEW t \in Tables, NEW d \in Dests
                PROVE  /\ Lacking(t, d) \in SUBSET SubQueues
                       /\ \A n \in DOMAIN t.routes[d] :
                             meta_queue_map[t.routes[d][n].type] \in Lacking(t, d) \cup t.flags[d]
  <2>1. t.routes[d] \in Seq(Rib)
    BY TableParts, Zenon
  <2>2. \A n \in DOMAIN t.routes[d] : t.routes[d][n] \in Rib
    BY <2>1
  <2>3. \A n \in DOMAIN t.routes[d] : t.routes[d][n].type \in RouteTypes
    BY <2>2, Zenon DEF Rib
  <2> QED BY <2>3, MapType, Zenon DEF Lacking
\* rib_queue_add keeps flags, sub-queues and ribq in step, takes nobody out, and
\* leaves the destination flagged for every entry.
<1>QueueAdd. ASSUME NEW t \in Tables, NEW d \in Dests, FlagsOK(t), RibqOK(t)
             PROVE  Queueing(t, d, rib_queue_add(t, d))
  <2> USE <1>QueueAdd
  <2>1. CASE t.routes[d] = <<>>
    <3>1. rib_queue_add(t, d) = t
      BY <2>1, Zenon DEF rib_queue_add
    <3> QED BY <2>1, <3>1 DEF Queueing, Grows, Flagged
  <2>2. CASE t.routes[d] # <<>>
    <3> DEFINE L == Lacking(t, d)
               u == [routes |-> t.routes,
                     flags |-> [t.flags EXCEPT ![d] = @ \cup L],
                     subq |-> [q \in SubQueues |-> IF q \in L THEN Append(t.subq[q], d) ELSE t.subq[q]],
                     ribq |-> TRUE]
    <3>1. rib_queue_add(t, d) = u
      <4>1. rib_queue_add(t, d)
              = [t EXCEPT !.flags[d] = @ \cup L,
                          !.subq = [q \in SubQueues |-> IF q \in L THEN Append(@[q], d) ELSE @[q]],
                          !.ribq = TRUE]
        BY <2>2, Zenon DEF rib_queue_add
      <4> HIDE DEF L
      <4> QED BY <4>1, TableParts, Zenon
    <3>2. u \in Tables
      <4>1. L \in SUBSET SubQueues
        BY <1>LackingType, Zenon
      <4> HIDE DEF L
      <4>2. [t.flags EXCEPT ![d] = @ \cup L] \in [Dests -> SUBSET SubQueues]
        BY <4>1, TableParts
      <4>3. [q \in SubQueues |-> IF q \in L THEN Append(t.subq[q], d) ELSE t.subq[q]]
              \in [SubQueues -> Seq(Dests)]
        BY TableParts
      <4> QED BY <4>2, <4>3, TableParts, Zenon DEF Tables
    <3>3. ASSUME NEW e \in Dests, NEW q \in SubQueues, Waits(t, e, q)
          PROVE  Waits(u, e, q)
      <4>1. PICK n \in 1..Len(t.subq[q]) : t.subq[q][n] = e
        BY <3>3, WaitsDef, Zenon
      <4>2. n \in 1..Len(u.subq[q]) /\ u.subq[q][n] = e
        BY <4>1, TableParts
      <4> QED BY <3>2, <4>2, WaitsDef, Zenon
    <3>4. ASSUME NEW q \in L PROVE Waits(u, d, q)
      <4>1. q \in SubQueues /\ u.subq[q] = Append(t.subq[q], d) /\ t.subq[q] \in Seq(Dests)
        BY <1>LackingType, TableParts, Zenon
      <4>2. u.subq[q][Len(t.subq[q]) + 1] = d /\ Len(t.subq[q]) + 1 \in 1..Len(u.subq[q])
        BY <4>1
      <4> QED BY <3>2, <4>1, <4>2, WaitsDef
    <3>5. Grows(t, u)
      <4>1. \A e \in Dests, q \in SubQueues : q \in t.flags[e] => q \in u.flags[e]
        BY TableParts, Zenon
      <4> QED BY <3>3, <4>1, Zenon DEF Grows
    <3>6. FlagsOK(u)
      <4> SUFFICES ASSUME NEW e \in Dests, NEW q \in u.flags[e] PROVE Waits(u, e, q)
        BY Zenon DEF FlagsOK
      <4>1. q \in SubQueues
        BY <3>2, TableParts
      <4>2. CASE q \in t.flags[e]
        BY <3>3, <4>1, <4>2, Zenon DEF FlagsOK
      <4>3. CASE q \notin t.flags[e]
        <5>1. e = d /\ q \in L
          BY <4>3, TableParts, Zenon
        <5> QED BY <5>1, <3>4, Zenon
      <4> QED BY <4>2, <4>3, Zenon
    <3>7. Flagged(u, d)
      BY <1>LackingType, TableParts DEF Flagged
    <3>8. RibqOK(u)
      <4>1. 1 \in DOMAIN t.routes[d]
        BY <2>2, TableParts
      <4>2. PICK q \in u.flags[d] : TRUE
        BY <3>7, <4>1, Zenon DEF Flagged
      <4>3. q \in SubQueues /\ Waits(u, d, q)
        BY <4>2, <3>2, <3>6, TableParts, ZenonT(30) DEF FlagsOK
      <4>4. u.subq[q] # <<>>
        BY <3>2, <4>3, WaitsDef, TableParts
      <4> QED BY <4>3, <4>4, Zenon DEF RibqOK
    <3> HIDE DEF u
    <3> QED
      <4>1. u.routes = t.routes
        BY Zenon DEF u
      <4> QED BY <3>1, <3>2, <3>5, <3>6, <3>7, <3>8, <4>1, Zenon DEF Queueing
  <2> QED BY <2>1, <2>2, Zenon
<1>Main. ASSUME NEW t \in Sound, NEW d \in Dests
         PROVE  rib_queue_add(t, d) \in Sound /\ Queueing(t, d, rib_queue_add(t, d))
  <2>1. t \in Tables /\ FlagsOK(t) /\ RibqOK(t)
    BY Zenon DEF Sound
  <2>2. Queueing(t, d, rib_queue_add(t, d))
    BY <2>1, <1>QueueAdd, Zenon
  <2> QED BY <2>2, Zenon DEF Queueing, Sound
<1> QED BY <1>Main, Zenon

-----------------------------------------------------------------------------
(* Changes to the entries of a destination.                                *)

With(t, d, rs) == [t EXCEPT !.routes[d] = rs]
Requeued(t, d, rs) == rib_queue_add(With(t, d, rs), d)

\* u is t with the entries rs on d, which is queued for them.
Changes(t, d, rs, u) ==
    /\ u \in Sound
    /\ u.routes = [t.routes EXCEPT ![d] = rs]
    /\ Grows(t, u)
    /\ Flagged(u, d)

\* Replacing the entries of a destination and queueing it.
LEMMA Change ==
  ASSUME NEW t \in Sound, NEW d \in Dests, NEW rs \in Seq(Rib)
  PROVE  Changes(t, d, rs, Requeued(t, d, rs))
<1> DEFINE w == With(t, d, rs)
<1>1. t \in Tables /\ FlagsOK(t) /\ RibqOK(t)
  BY Zenon DEF Sound
<1>2. /\ w.routes = [t.routes EXCEPT ![d] = rs]
      /\ w.flags = t.flags /\ w.subq = t.subq /\ w.ribq = t.ribq
      /\ w = [routes |-> [t.routes EXCEPT ![d] = rs], flags |-> t.flags,
              subq |-> t.subq, ribq |-> t.ribq]
  <2> DEFINE R == [t.routes EXCEPT ![d] = rs]
  <2>1. w = [t EXCEPT !.routes = R]
    BY <1>1, TableParts, Zenon DEF With
  <2> HIDE DEF w, R
  <2>2. w = [routes |-> R, flags |-> t.flags, subq |-> t.subq, ribq |-> t.ribq]
    BY <1>1, <2>1, Zenon DEF Tables
  <2> QED BY <2>2, Zenon DEF R
<1>3. w \in Tables
  <2>1. [t.routes EXCEPT ![d] = rs] \in [Dests -> Seq(Rib)]
    BY <1>1, TableParts, Zenon
  <2> QED BY <1>1, <1>2, <2>1, TableParts, Zenon DEF Tables
<1> HIDE DEF w
<1>4. \A e, q : Waits(w, e, q) <=> Waits(t, e, q)
  BY <1>2, Zenon DEF Waits
<1>5. w \in Sound
  <2>1. FlagsOK(w)
    BY <1>1, <1>2, <1>4, Zenon DEF FlagsOK
  <2>2. RibqOK(w)
    BY <1>1, <1>2, Zenon DEF RibqOK
  <2> QED BY <1>3, <2>1, <2>2, Zenon DEF Sound
<1> DEFINE u == rib_queue_add(w, d)
<1>6. u \in Sound /\ Queueing(w, d, u)
  BY <1>5, SoundAdd, Zenon
<1> HIDE DEF u
<1>7. u.routes = w.routes /\ Flagged(u, d) /\ Grows(w, u)
  BY <1>6, Zenon DEF Queueing
<1>8. Grows(t, u)
  BY <1>2, <1>4, <1>7, Zenon DEF Grows
<1>9. Changes(t, d, rs, u)
  BY <1>2, <1>6, <1>7, <1>8, Zenon DEF Changes
<1> QED BY <1>9, Zenon DEF Requeued, u, w

Marked(rs, N) ==
    [n \in DOMAIN rs |-> IF n \in N THEN [rs[n] EXCEPT !.removed = TRUE] ELSE rs[n]]

\* Marking entries as removed keeps the list.
LEMMA MarkedList ==
  ASSUME NEW rs \in Seq(Rib), NEW N
  PROVE  /\ Marked(rs, N) \in Seq(Rib)
         /\ Len(Marked(rs, N)) = Len(rs)
         /\ \A n \in 1..Len(rs) :
               /\ n \in N => Marked(rs, N)[n] = [rs[n] EXCEPT !.removed = TRUE]
               /\ n \notin N => Marked(rs, N)[n] = rs[n]
<1>1. DOMAIN rs = 1..Len(rs) /\ Len(rs) \in Nat /\ \A n \in 1..Len(rs) : rs[n] \in Rib
  OBVIOUS
<1>2. \A r \in Rib : [r EXCEPT !.removed = TRUE] \in Rib
  BY Zenon DEF Rib
<1> QED BY <1>1, <1>2 DEF Marked

\* The operations in these terms.
LEMMA RemoveIs ==
  ASSUME NEW t, NEW d, NEW N
  PROVE  Remove(t, d, N) = With(t, d, Marked(t.routes[d], N))
BY Zenon DEF Remove, With, Marked

\* rib_delnode replaces entries and queues.
LEMMA DelnodeIs ==
  ASSUME NEW t, NEW d, NEW N, N # {}
  PROVE  rib_delnode(t, d, N) = Requeued(t, d, Marked(t.routes[d], N))
BY RemoveIs, Zenon DEF rib_delnode, Requeued

\* rib_addnode replaces entries and queues.
LEMMA AddnodeIs ==
  ASSUME NEW t, NEW d, NEW r
  PROVE  rib_addnode(t, d, r) = Requeued(t, d, <<r>> \o t.routes[d])
BY Zenon DEF rib_addnode, Requeued, With

\* rs is old, with a new entry at its head if k = 1: entries of other types are
\* the same, those of the type keep what is known outside of zebra's table.
Shifted(old, rs, k, type) ==
    /\ k \in {0, 1}
    /\ rs \in Seq(Rib)
    /\ Len(rs) = Len(old) + k
    /\ \A n \in 1..Len(old) :
          /\ rs[n + k].type = old[n].type
          /\ rs[n + k].selected = old[n].selected
          /\ rs[n + k].fib = old[n].fib
          /\ old[n].type # type => rs[n + k] = old[n]
    /\ k = 1 => rs[1].type = type /\ ~rs[1].selected /\ ~rs[1].removed

\* Entries that are marked stay in their places.
LEMMA MarkedShifted ==
  ASSUME NEW old \in Seq(Rib), NEW type, NEW N,
         \A n \in 1..Len(old) : n \in N => old[n].type = type
  PROVE  Shifted(old, Marked(old, N), 0, type)
<1> DEFINE rs == Marked(old, N)
<1>1. /\ rs \in Seq(Rib) /\ Len(rs) = Len(old) /\ Len(old) \in Nat
      /\ \A n \in 1..Len(old) :
            /\ n \in N => rs[n] = [old[n] EXCEPT !.removed = TRUE]
            /\ n \notin N => rs[n] = old[n]
  BY MarkedList
<1> HIDE DEF rs
<1>2. \A n \in 1..Len(old) : old[n] \in Rib /\ n + 0 = n
  OBVIOUS
<1>3. ASSUME NEW n \in 1..Len(old)
      PROVE  /\ rs[n].type = old[n].type /\ rs[n].selected = old[n].selected
             /\ rs[n].fib = old[n].fib /\ (old[n].type # type => rs[n] = old[n])
  BY <1>1, <1>2, Zenon DEF Rib
<1>4. Shifted(old, rs, 0, type)
  BY <1>1, <1>2, <1>3 DEF Shifted
<1> QED BY <1>4, Zenon DEF rs

\* A new entry is neither removed nor selected.
LEMMA NewRibType ==
  ASSUME NEW type \in RouteTypes, NEW nhs \in SUBSET Ifs
  PROVE  /\ NewRib(type, nhs) \in Rib
         /\ NewRib(type, nhs).type = type /\ NewRib(type, nhs).nhs = nhs
         /\ ~NewRib(type, nhs).selected /\ ~NewRib(type, nhs).removed
BY Zenon DEF NewRib, Rib

\* A new entry before a list that keeps its entries.
LEMMA HeadShifted ==
  ASSUME NEW old \in Seq(Rib), NEW rs, NEW type \in RouteTypes, NEW nhs \in SUBSET Ifs,
         Shifted(old, rs, 0, type)
  PROVE  /\ Shifted(old, <<NewRib(type, nhs)>> \o rs, 1, type)
         /\ (<<NewRib(type, nhs)>> \o rs)[1] = NewRib(type, nhs)
         /\ \A n \in 1..Len(rs) : (<<NewRib(type, nhs)>> \o rs)[n + 1] = rs[n]
<1> DEFINE r == NewRib(type, nhs)
           x == <<r>> \o rs
<1>1. r \in Rib /\ r.type = type /\ ~r.selected /\ ~r.removed
  BY NewRibType, Zenon
<1> HIDE DEF r
<1>2. rs \in Seq(Rib) /\ Len(rs) = Len(old) /\ Len(old) \in Nat
  BY DEF Shifted
<1>3. x \in Seq(Rib) /\ Len(x) = Len(rs) + 1 /\ x[1] = r /\ \A n \in 1..Len(rs) : x[n + 1] = rs[n]
  BY <1>1, <1>2
<1> HIDE DEF x
<1>4. \A n \in 1..Len(old) : /\ rs[n].type = old[n].type /\ rs[n].selected = old[n].selected
                             /\ rs[n].fib = old[n].fib /\ (old[n].type # type => rs[n] = old[n])
  <2>1. \A n \in 1..Len(old) : n + 0 = n
    OBVIOUS
  <2> QED BY <2>1, Zenon DEF Shifted
<1>5. Shifted(old, x, 1, type)
  BY <1>1, <1>2, <1>3, <1>4 DEF Shifted
<1> QED BY <1>2, <1>3, <1>5, Zenon DEF x, r

-----------------------------------------------------------------------------
(* Changes that shift the entries.                                         *)

\* The selected entries are the earlier ones, each k places further down.
LEMMA ShiftedPlaces ==
  ASSUME NEW old \in Seq(Rib), NEW rs, NEW k, NEW type, Shifted(old, rs, k, type)
  PROVE  /\ DOMAIN old = 1..Len(old) /\ DOMAIN rs = 1..Len(rs)
         /\ \A n \in DOMAIN old :
               /\ n + k \in DOMAIN rs
               /\ rs[n + k].type = old[n].type
               /\ rs[n + k].selected = old[n].selected
               /\ rs[n + k].fib = old[n].fib
               /\ old[n].type # type => rs[n + k] = old[n]
         /\ \A m \in DOMAIN rs :
               \/ \E n \in DOMAIN old : m = n + k
               \/ k = 1 /\ m = 1 /\ rs[m].type = type /\ ~rs[m].selected /\ ~rs[m].removed
<1>1. /\ k \in {0, 1} /\ rs \in Seq(Rib) /\ Len(rs) = Len(old) + k /\ Len(old) \in Nat
      /\ k = 1 => rs[1].type = type /\ ~rs[1].selected /\ ~rs[1].removed
  BY DEF Shifted
<1>2. DOMAIN old = 1..Len(old) /\ DOMAIN rs = 1..Len(rs)
  BY <1>1
<1>3. \A n \in DOMAIN old : n + k \in DOMAIN rs
  BY <1>1, <1>2
<1>4. ASSUME NEW m \in DOMAIN rs
      PROVE  (\E n \in DOMAIN old : m = n + k) \/ (k = 1 /\ m = 1)
  <2>1. CASE m - k \in DOMAIN old
    <3>1. m = (m - k) + k
      BY <1>1, <1>2
    <3> QED BY <2>1, <3>1, Zenon
  <2>2. CASE m - k \notin DOMAIN old
    BY <1>1, <1>2, <2>2
  <2> QED BY <2>1, <2>2, Zenon
<1> QED BY <1>1, <1>2, <1>3, <1>4, Zenon DEF Shifted

\* A change that shifts the entries keeps one selected entry and its type.
LEMMA ShiftedKeeps ==
  ASSUME NEW old \in Seq(Rib), NEW rs, NEW k, NEW type, Shifted(old, rs, k, type)
  PROVE  /\ One(old) => One(rs)
         /\ SelTypes(rs) = SelTypes(old)
         /\ \A ks : KernOK(old, ks) => KernOK(rs, ks)
<1> DEFINE D == DOMAIN old
           E == DOMAIN rs
<1>1. \A n \in D : /\ n + k \in E /\ rs[n + k].type = old[n].type
                   /\ rs[n + k].selected = old[n].selected /\ rs[n + k].fib = old[n].fib
  BY ShiftedPlaces
<1>2. \A m \in E : (\E n \in D : m = n + k) \/ ~rs[m].selected
  BY ShiftedPlaces
<1>3. \A n \in Selected(old) : n \in D /\ n + k \in Selected(rs)
  BY <1>1, Zenon DEF Selected
<1>4. \A m \in Selected(rs) : \E n \in Selected(old) : m = n + k
  BY <1>1, <1>2 DEF Selected
<1>5. One(old) => One(rs)
  BY <1>4, Zenon DEF One
<1>6. SelTypes(rs) = SelTypes(old)
  <2>1. ASSUME NEW x \in SelTypes(old) PROVE x \in SelTypes(rs)
    BY <1>1, <1>3, <2>1 DEF SelTypes
  <2>2. ASSUME NEW x \in SelTypes(rs) PROVE x \in SelTypes(old)
    <3>1. PICK m \in Selected(rs) : x = rs[m].type
      BY <2>2, Zenon DEF SelTypes
    <3>2. PICK n \in Selected(old) : m = n + k
      BY <1>4, <3>1, Zenon
    <3> QED BY <1>1, <1>3, <3>1, <3>2 DEF SelTypes
  <2> QED BY <2>1, <2>2, Zenon
<1>7. ASSUME NEW ks, KernOK(old, ks) PROVE KernOK(rs, ks)
  BY <1>1, <1>3, <1>7 DEF KernOK, SystemRoute
<1> QED BY <1>5, <1>6, <1>7, Zenon

\* A change that shifts the entries keeps what the kernel has in order.
LEMMA ShiftedKernel ==
  ASSUME NEW old \in Seq(Rib), NEW rs, NEW k, NEW type, Shifted(old, rs, k, type),
         type # "kernel", NoKernel(old)
  PROVE  NoKernel(rs)
<1> SUFFICES ASSUME NEW m \in DOMAIN rs, rs[m].type = "kernel" PROVE rs[m].removed
  BY Zenon DEF NoKernel
<1>1. PICK n \in DOMAIN old : m = n + k
  BY ShiftedPlaces
<1>2. rs[m] = old[n]
  BY <1>1, ShiftedPlaces
<1> QED BY <1>2, Zenon DEF NoKernel

\* A change to entries of another type does not touch the connected ones.
LEMMA ShiftedConn ==
  ASSUME NEW old \in Seq(Rib), NEW rs, NEW k, NEW type, Shifted(old, rs, k, type),
         type # "connect", NEW up
  PROVE  /\ HasConn(rs) <=> HasConn(old)
         /\ WantConn(rs, up) <=> WantConn(old, up)
<1>1. ASSUME NEW n \in DOMAIN old, old[n].type = "connect"
      PROVE  n + k \in DOMAIN rs /\ rs[n + k] = old[n]
  BY <1>1, ShiftedPlaces
<1>2. ASSUME NEW m \in DOMAIN rs, rs[m].type = "connect"
      PROVE  \E n \in DOMAIN old : rs[m] = old[n]
  <2>1. PICK n \in DOMAIN old : m = n + k
    BY <1>2, ShiftedPlaces
  <2>2. rs[m] = old[n]
    BY <1>2, <2>1, ShiftedPlaces
  <2> QED BY <2>2, Zenon
<1>3. ASSUME HasConn(old) PROVE HasConn(rs)
  BY <1>1, <1>3, Zenon DEF HasConn
<1>4. ASSUME HasConn(rs) PROVE HasConn(old)
  BY <1>2, <1>4, Zenon DEF HasConn
<1>5. ASSUME WantConn(old, up) PROVE WantConn(rs, up)
  BY <1>1, <1>5, Zenon DEF WantConn
<1>6. ASSUME WantConn(rs, up) PROVE WantConn(old, up)
  BY <1>2, <1>6, Zenon DEF WantConn
<1> QED BY <1>3, <1>4, <1>5, <1>6, Zenon

\* A change to entries of another type keeps the configured lines.
LEMMA ShiftedLine ==
  ASSUME NEW old \in Seq(Rib), NEW rs, NEW k, NEW type, Shifted(old, rs, k, type),
         type # "static", NEW nh, HasLine(old, nh)
  PROVE  HasLine(rs, nh)
<1>1. PICK n \in LiveAt(old, "static") : TRUE
  BY Zenon DEF HasLine
<1>2. n + k \in DOMAIN rs /\ rs[n + k] = old[n]
  BY <1>1, ShiftedPlaces DEF LiveAt
<1>3. n + k \in LiveAt(rs, "static")
  BY <1>1, <1>2, Zenon DEF LiveAt
<1>4. ASSUME NEW m \in LiveAt(rs, "static") PROVE nh \in rs[m].nhs
  <2>1. m \in DOMAIN rs /\ rs[m].type = "static" /\ ~rs[m].removed
    BY Zenon DEF LiveAt
  <2>2. PICK j \in DOMAIN old : m = j + k
    BY <2>1, ShiftedPlaces
  <2>3. rs[m] = old[j]
    BY <2>1, <2>2, ShiftedPlaces
  <2>4. j \in LiveAt(old, "static")
    BY <2>1, <2>3, Zenon DEF LiveAt
  <2> QED BY <2>3, <2>4, Zenon DEF HasLine
<1> QED BY <1>3, <1>4, Zenon DEF HasLine

\* Live in terms of the list of entries.
LEMMA LiveIs ==
  ASSUME NEW t, NEW d, NEW type
  PROVE  Live(t, d, type) = LiveAt(t.routes[d], type)
BY Zenon DEF Live, LiveAt

-----------------------------------------------------------------------------
(* Operations on the table.                                                *)

\* Flags are not lost while queues grow.
LEMMA FlaggedGrows ==
  ASSUME NEW t \in Tables, NEW u, NEW d \in Dests,
         u.routes[d] = t.routes[d], Grows(t, u), Flagged(t, d)
  PROVE  Flagged(u, d)
<1>1. \A q \in SubQueues : q \in t.flags[d] => q \in u.flags[d]
  BY Zenon DEF Grows
<1>2. t.flags[d] \subseteq SubQueues
  BY TableParts, Zenon
<1> QED BY <1>1, <1>2, Zenon DEF Flagged

\* The steps and the result of rib_update.
LEMMA Update ==
  \A t \in Sound :
     /\ Counting
     =>
         /\ rib_update(t) \in Sound
         /\ rib_update(t).routes = t.routes
         /\ \A d \in Dests : Flagged(rib_update(t), d)
\* The steps of rib_update.
<1>UpdateSteps. ASSUME Counting, NEW t \in Sound
                PROVE  \E f \in [0..NumDests -> Sound] :
                          /\ f[0] = t
                          /\ \A d \in 1..NumDests : f[d] = rib_queue_add(f[d - 1], d)
                          /\ rib_update(t) = f[NumDests]
  <2> USE <1>UpdateSteps
  <2> DEFINE g == [d \in 1..NumDests |-> [x \in Sound |-> rib_queue_add(x, d)]]
             Rec(f) == f = [d \in 0..NumDests |-> IF d = 0 THEN t ELSE rib_queue_add(f[d - 1], d)]
             F == CHOOSE f : Rec(f)
  <2>1. NumDests \in Nat /\ Dests = 1..NumDests
    BY ZebraAssumption, Zenon DEF Dests
  <2>2. g \in [1..NumDests -> [Sound -> Sound]]
    BY <2>1, SoundAdd, Zenon
  <2>3. PICK f \in [0..NumDests -> Sound] :
            f[0] = t /\ \A d \in 1..NumDests : f[d] = g[d][f[d - 1]]
    <3> HIDE DEF g
    <3> QED BY <2>1, <2>2, Fold
  <2>4. \A d \in 1..NumDests : f[d] = rib_queue_add(f[d - 1], d)
    <3>1. \A d \in 1..NumDests : f[d - 1] \in Sound
      BY <2>1, <2>3
    <3> QED BY <2>3, <3>1, Zenon
  <2>5. Rec(f)
    BY <2>1, <2>3, <2>4
  <2>6. Rec(F)
    <3> HIDE DEF Rec
    <3> QED BY <2>5, Zenon
  <2>7. rib_update(t) = F[NumDests]
    BY Zenon DEF rib_update
  <2>8. F[0] = t /\ \A d \in 1..NumDests : F[d] = rib_queue_add(F[d - 1], d)
    <3> HIDE DEF F
    <3> QED BY <2>1, <2>6
  <2>9. \A d \in 0..NumDests : F[d] = f[d]
    <3> DEFINE K == {d \in 0..NumDests : F[d] = f[d]}
    <3> HIDE DEF F
    <3>1. 0 \in K
      BY <2>1, <2>3, <2>8
    <3>2. ASSUME NEW d \in 1..NumDests, d - 1 \in K PROVE d \in K
      <4>1. F[d - 1] = f[d - 1] /\ d \in 0..NumDests
        BY <3>2
      <4> QED BY <4>1, <2>4, <2>8, Zenon
    <3>3. K \in SUBSET (0..NumDests)
      BY Zenon
    <3>4. \A d \in 0..NumDests : d \in K
      <4> HIDE DEF K
      <4> QED BY <2>1, <3>1, <3>2, <3>3, Zenon DEF Counting
    <3> QED BY <3>4, Zenon
  <2> QED BY <2>1, <2>3, <2>4, <2>7, <2>9
<1>Main. ASSUME Counting, NEW t \in Sound
         PROVE  /\ rib_update(t) \in Sound
                /\ rib_update(t).routes = t.routes
                /\ \A d \in Dests : Flagged(rib_update(t), d)
  <2> USE <1>Main
  <2>1. PICK f \in [0..NumDests -> Sound] :
            /\ f[0] = t
            /\ \A d \in 1..NumDests : f[d] = rib_queue_add(f[d - 1], d)
            /\ rib_update(t) = f[NumDests]
    BY <1>UpdateSteps, Zenon
  <2> DEFINE Done(k) == f[k].routes = t.routes /\ \A d \in 1..k : Flagged(f[k], d)
             K == {k \in 0..NumDests : Done(k)}
  <2>2. NumDests \in Nat /\ Dests = 1..NumDests
    BY ZebraAssumption, Zenon DEF Dests
  <2>3. 0 \in K
    BY <2>1, <2>2
  <2>4. ASSUME NEW k \in 1..NumDests, k - 1 \in K PROVE k \in K
    <3>1. f[k - 1] \in Sound /\ f[k - 1] \in Tables /\ k \in Dests /\ k \in 0..NumDests
      BY <2>1, <2>2 DEF Sound
    <3>2. Queueing(f[k - 1], k, f[k])
      BY <2>1, <3>1, SoundAdd, Zenon
    <3>3. f[k].routes = f[k - 1].routes /\ Grows(f[k - 1], f[k]) /\ Flagged(f[k], k)
      BY <3>2, Zenon DEF Queueing
    <3>4. f[k - 1].routes = t.routes /\ \A d \in 1..(k - 1) : Flagged(f[k - 1], d)
      BY <2>4, Zenon
    <3>5. ASSUME NEW d \in 1..k PROVE Flagged(f[k], d)
      <4>1. CASE d = k
        BY <3>3, <4>1, Zenon
      <4>2. CASE d # k
        <5>1. d \in 1..(k - 1) /\ d \in Dests
          BY <2>2, <4>2
        <5>2. Flagged(f[k - 1], d) /\ f[k].routes[d] = f[k - 1].routes[d]
          BY <3>3, <3>4, <5>1, Zenon
        <5> QED BY <3>1, <3>3, <5>1, <5>2, FlaggedGrows, Zenon
      <4> QED BY <4>1, <4>2, Zenon
    <3> QED BY <3>1, <3>3, <3>4, <3>5, Zenon
  <2>5. Done(NumDests)
    <3>1. K \in SUBSET (0..NumDests)
      BY Zenon
    <3>2. \A k \in 0..NumDests : k \in K
      <4> HIDE DEF K
      <4> QED BY <2>2, <2>3, <2>4, <3>1, Zenon DEF Counting
    <3>3. NumDests \in 0..NumDests
      BY <2>2
    <3> QED BY <3>2, <3>3, Zenon
  <2> QED BY <2>1, <2>2, <2>5
<1> QED BY <1>Main, Zenon

\* rib_delnode of entries of a type.
LEMMA Delnode ==
  ASSUME NEW t \in Sound, NEW d \in Dests, NEW N, NEW type,
         \A n \in N : n \in DOMAIN t.routes[d] /\ t.routes[d][n].type = type
  PROVE  LET u  == rib_delnode(t, d, N)
             rs == Marked(t.routes[d], N)
         IN  /\ Shifted(t.routes[d], rs, 0, type)
             /\ u \in Sound
             /\ u.routes = [t.routes EXCEPT ![d] = rs]
             /\ Grows(t, u)
             /\ u = t \/ Flagged(u, d)
<1> DEFINE rs == Marked(t.routes[d], N)
<1>1. t \in Tables /\ t.routes[d] \in Seq(Rib) /\ t.routes \in [Dests -> Seq(Rib)]
  BY TableParts, Zenon DEF Sound
<1>2. Shifted(t.routes[d], rs, 0, type) /\ rs \in Seq(Rib)
  BY <1>1, MarkedShifted, MarkedList, Zenon
<1>3. CASE N = {}
  <2>1. rib_delnode(t, d, N) = t
    BY <1>3, Zenon DEF rib_delnode
  <2>2. rs = t.routes[d]
    <3>1. rs = [n \in DOMAIN t.routes[d] |-> t.routes[d][n]]
      BY <1>3, Zenon DEF Marked
    <3> HIDE DEF rs
    <3> QED BY <1>1, <3>1
  <2>3. t.routes = [t.routes EXCEPT ![d] = rs]
    BY <1>1, <2>2, Zenon
  <2>4. Grows(t, t)
    BY Zenon DEF Grows
  <2> QED BY <1>2, <2>1, <2>3, <2>4, Zenon
<1>4. CASE N # {}
  <2>1. rib_delnode(t, d, N) = Requeued(t, d, rs)
    BY <1>4, DelnodeIs, Zenon
  <2>2. Changes(t, d, rs, Requeued(t, d, rs))
    BY <1>2, Change, Zenon
  <2> HIDE DEF rs
  <2>3. Changes(t, d, rs, rib_delnode(t, d, N))
    BY <2>1, <2>2, Zenon
  <2>4. /\ rib_delnode(t, d, N) \in Sound
        /\ rib_delnode(t, d, N).routes = [t.routes EXCEPT ![d] = rs]
        /\ Grows(t, rib_delnode(t, d, N))
        /\ Flagged(rib_delnode(t, d, N), d)
    BY <2>3, Zenon DEF Changes
  <2> QED BY <1>2, <2>4, Zenon DEF rs
<1> QED BY <1>3, <1>4, Zenon

\* Every entry of the type is removed, destination by destination.
LEMMA Score ==
  \A t \in Sound : \A type :
     /\ Counting
     =>
         LET u == rib_score_proto(t, type)
         IN  /\ u \in Sound
             /\ Grows(t, u)
             /\ \A d \in Dests : /\ Shifted(t.routes[d], u.routes[d], 0, type)
                                 /\ u.routes[d] = t.routes[d] \/ Flagged(u, d)
\* Queues that grow twice grow.
<1>GrowsTrans. ASSUME NEW t, NEW u, NEW v, Grows(t, u), Grows(u, v)
               PROVE  Grows(t, v)
  BY <1>GrowsTrans, Zenon DEF Grows
\* It keeps the table sound whatever the entries are.
<1>DelnodeSound. ASSUME NEW t \in Sound, NEW d \in Dests, NEW N
                 PROVE  rib_delnode(t, d, N) \in Sound
  <2>1. t.routes[d] \in Seq(Rib)
    BY TableParts, Zenon DEF Sound
  <2>2. Changes(t, d, Marked(t.routes[d], N), Requeued(t, d, Marked(t.routes[d], N)))
    BY <2>1, MarkedList, Change, Zenon
  <2>3. CASE N = {}
    BY <2>3, Zenon DEF rib_delnode
  <2>4. CASE N # {}
    BY <2>2, <2>4, DelnodeIs DEF Changes
  <2> QED BY <2>3, <2>4, Zenon
\* The steps of rib_score_proto.
<1>ScoreSteps. ASSUME Counting, NEW t \in Sound, NEW type
               PROVE  \E f \in [0..NumDests -> Sound] :
                         /\ f[0] = t
                         /\ \A d \in 1..NumDests : f[d] = rib_delnode(f[d - 1], d, Live(t, d, type))
                         /\ rib_score_proto(t, type) = f[NumDests]
  <2> USE <1>ScoreSteps
  <2> DEFINE g == [d \in 1..NumDests |-> [x \in Sound |-> rib_delnode(x, d, Live(t, d, type))]]
             Rec(f) == f = [d \in 0..NumDests |->
                              IF d = 0 THEN t ELSE rib_delnode(f[d - 1], d, Live(t, d, type))]
             F == CHOOSE f : Rec(f)
  <2>1. NumDests \in Nat /\ Dests = 1..NumDests
    BY ZebraAssumption, Zenon DEF Dests
  <2>2. g \in [1..NumDests -> [Sound -> Sound]]
    BY <2>1, <1>DelnodeSound, Zenon
  <2>3. PICK f \in [0..NumDests -> Sound] :
            f[0] = t /\ \A d \in 1..NumDests : f[d] = g[d][f[d - 1]]
    <3> HIDE DEF g
    <3> QED BY <2>1, <2>2, Fold
  <2>4. \A d \in 1..NumDests : f[d] = rib_delnode(f[d - 1], d, Live(t, d, type))
    <3>1. \A d \in 1..NumDests : f[d - 1] \in Sound
      BY <2>1, <2>3
    <3> QED BY <2>3, <3>1, Zenon
  <2>5. Rec(f)
    BY <2>1, <2>3, <2>4
  <2>6. Rec(F)
    <3> HIDE DEF Rec
    <3> QED BY <2>5, Zenon
  <2>7. rib_score_proto(t, type) = F[NumDests]
    BY Zenon DEF rib_score_proto
  <2>8. F[0] = t /\ \A d \in 1..NumDests : F[d] = rib_delnode(F[d - 1], d, Live(t, d, type))
    <3> HIDE DEF F
    <3> QED BY <2>1, <2>6
  <2>9. \A d \in 0..NumDests : F[d] = f[d]
    <3> DEFINE K == {d \in 0..NumDests : F[d] = f[d]}
    <3> HIDE DEF F
    <3>1. 0 \in K
      BY <2>1, <2>3, <2>8
    <3>2. ASSUME NEW d \in 1..NumDests, d - 1 \in K PROVE d \in K
      <4>1. F[d - 1] = f[d - 1] /\ d \in 0..NumDests
        BY <3>2
      <4> QED BY <4>1, <2>4, <2>8, Zenon
    <3>3. K \in SUBSET (0..NumDests)
      BY Zenon
    <3>4. \A d \in 0..NumDests : d \in K
      <4> HIDE DEF K
      <4> QED BY <2>1, <3>1, <3>2, <3>3, Zenon DEF Counting
    <3> QED BY <3>4, Zenon
  <2> QED BY <2>1, <2>3, <2>4, <2>7, <2>9
<1>Main. ASSUME Counting, NEW t \in Sound, NEW type
         PROVE  LET u == rib_score_proto(t, type)
                IN  /\ u \in Sound
                    /\ Grows(t, u)
                    /\ \A d \in Dests : /\ Shifted(t.routes[d], u.routes[d], 0, type)
                                        /\ u.routes[d] = t.routes[d] \/ Flagged(u, d)
  <2> USE <1>Main
  <2>1. PICK f \in [0..NumDests -> Sound] :
            /\ f[0] = t
            /\ \A d \in 1..NumDests : f[d] = rib_delnode(f[d - 1], d, Live(t, d, type))
            /\ rib_score_proto(t, type) = f[NumDests]
    BY <1>ScoreSteps
  <2> DEFINE Scored(u, d) == /\ Shifted(t.routes[d], u.routes[d], 0, type)
                             /\ u.routes[d] = t.routes[d] \/ Flagged(u, d)
             Done(k) == /\ Grows(t, f[k])
                        /\ \A d \in Dests : IF d <= k THEN Scored(f[k], d)
                                            ELSE f[k].routes[d] = t.routes[d]
             K == {k \in 0..NumDests : Done(k)}
  <2>2. NumDests \in Nat /\ Dests = 1..NumDests
    BY ZebraAssumption, Zenon DEF Dests
  <2>3. 0 \in K
    <3>1. Grows(t, t)
      BY Zenon DEF Grows
    <3>2. \A d \in Dests : ~(d <= 0)
      BY <2>2
    <3> HIDE DEF Scored
    <3> QED BY <2>1, <2>2, <3>1, <3>2
  <2>4. ASSUME NEW k \in 1..NumDests, k - 1 \in K PROVE k \in K
    <3> DEFINE x == f[k - 1]
               u == f[k]
               N == Live(t, k, type)
    <3>1. x \in Sound /\ x \in Tables /\ k \in Dests /\ k \in 0..NumDests
      BY <2>1, <2>2 DEF Sound
    <3>2. u = rib_delnode(x, k, N)
      BY <2>1, Zenon
    <3>3. /\ Grows(t, x)
          /\ \A d \in Dests : d <= k - 1 => Scored(x, d)
          /\ \A d \in Dests : ~(d <= k - 1) => x.routes[d] = t.routes[d]
      BY <2>4, Zenon
    <3>4. x.routes[k] = t.routes[k] /\ x.routes \in [Dests -> Seq(Rib)]
      <4>1. ~(k <= k - 1)
        OBVIOUS
      <4> QED BY <3>1, <3>3, <4>1, TableParts, Zenon
    <3>5. \A n \in N : n \in DOMAIN x.routes[k] /\ x.routes[k][n].type = type
      BY <3>4, Zenon DEF Live
    <3> HIDE DEF x, u, N, Scored
    <3>6. /\ Shifted(x.routes[k], Marked(x.routes[k], N), 0, type)
          /\ u \in Sound
          /\ u.routes = [x.routes EXCEPT ![k] = Marked(x.routes[k], N)]
          /\ Grows(x, u)
          /\ u = x \/ Flagged(u, k)
      BY <3>1, <3>2, <3>5, Delnode
    <3>7. Grows(t, u)
      BY <3>3, <3>6, <1>GrowsTrans, Zenon
    <3>8. Scored(u, k)
      <4>1. u.routes[k] = Marked(x.routes[k], N)
        BY <3>1, <3>4, <3>6, Zenon
      <4>2. Shifted(t.routes[k], u.routes[k], 0, type)
        BY <3>4, <3>6, <4>1, Zenon
      <4> QED BY <3>4, <3>6, <4>2, Zenon DEF Scored
    <3>9. ASSUME NEW d \in Dests, d <= k PROVE Scored(u, d)
      <4>1. CASE d = k
        BY <3>8, <4>1, Zenon
      <4>2. CASE d # k
        <5>1. d <= k - 1
          BY <2>2, <3>9, <4>2
        <5>2. Scored(x, d) /\ u.routes[d] = x.routes[d]
          BY <3>3, <3>4, <3>6, <4>2, <5>1, Zenon
        <5>3. Flagged(x, d) => Flagged(u, d)
          BY <3>1, <3>6, <5>2, FlaggedGrows, Zenon
        <5> QED BY <5>2, <5>3, Zenon DEF Scored
      <4> QED BY <4>1, <4>2, Zenon
    <3>10. ASSUME NEW d \in Dests, ~(d <= k) PROVE u.routes[d] = t.routes[d]
      <4>1. d # k /\ ~(d <= k - 1)
        BY <2>2, <3>10
      <4> QED BY <3>3, <3>4, <3>6, <4>1, Zenon
    <3> QED BY <3>1, <3>7, <3>9, <3>10, Zenon DEF u
  <2>5. Done(NumDests)
    <3>1. K \in SUBSET (0..NumDests)
      BY Zenon
    <3>2. \A k \in 0..NumDests : k \in K
      <4> HIDE DEF K
      <4> QED BY <2>2, <2>3, <2>4, <3>1, Zenon DEF Counting
    <3>3. NumDests \in 0..NumDests
      BY <2>2
    <3> QED BY <3>2, <3>3, Zenon
  <2>6. f[NumDests] \in Sound /\ \A d \in Dests : d <= NumDests
    BY <2>1, <2>2
  <2> HIDE DEF Scored
  <2>7. Grows(t, f[NumDests]) /\ \A d \in Dests : Scored(f[NumDests], d)
    BY <2>5, <2>6, Zenon
  <2> QED BY <2>1, <2>6, <2>7, Zenon DEF Scored
<1> QED BY <1>Main, Zenon

\* static_install_ipv4.

\* static_install_ipv4 in either case: the line is there, the others stay.
LEMMA StaticInstall ==
  \A t \in Sound, s \in StaticRoutes :
         \E rs, k : /\ Shifted(t.routes[s.dest], rs, k, "static")
                    /\ static_install_ipv4(t, s) = Requeued(t, s.dest, rs)
                    /\ HasLine(rs, s.nh)
                    /\ \A nh : HasLine(t.routes[s.dest], nh) => HasLine(rs, nh)
\* A next hop more keeps the list.
<1>JoinedList. ASSUME NEW rs \in Seq(Rib), NEW N, NEW nh \in Ifs
               PROVE  /\ Joined(rs, N, nh) \in Seq(Rib)
                      /\ Len(Joined(rs, N, nh)) = Len(rs)
                      /\ \A n \in 1..Len(rs) :
                            /\ n \in N => Joined(rs, N, nh)[n] = [rs[n] EXCEPT !.nhs = @ \cup {nh}]
                            /\ n \notin N => Joined(rs, N, nh)[n] = rs[n]
  <2>1. DOMAIN rs = 1..Len(rs) /\ Len(rs) \in Nat /\ \A n \in 1..Len(rs) : rs[n] \in Rib
    OBVIOUS
  <2>2. \A r \in Rib : [r EXCEPT !.nhs = @ \cup {nh}] \in Rib
    BY Zenon DEF Rib
  <2> QED BY <2>1, <2>2 DEF Joined
\* static_install_ipv4 when there is a static entry.
<1>StaticJoin. ASSUME NEW old \in Seq(Rib), NEW nh \in Ifs, LiveAt(old, "static") # {}
               PROVE  LET rs == Joined(old, LiveAt(old, "static"), nh)
                      IN  /\ Shifted(old, rs, 0, "static")
                          /\ HasLine(rs, nh)
                          /\ \A x : HasLine(old, x) => HasLine(rs, x)
  <2> USE <1>StaticJoin
  <2> DEFINE N == LiveAt(old, "static")
             rs == Joined(old, N, nh)
  <2>1. /\ rs \in Seq(Rib) /\ Len(rs) = Len(old) /\ Len(old) \in Nat
        /\ \A n \in 1..Len(old) :
              /\ n \in N => rs[n] = [old[n] EXCEPT !.nhs = @ \cup {nh}]
              /\ n \notin N => rs[n] = old[n]
    BY <1>JoinedList
  <2>2. DOMAIN old = 1..Len(old) /\ DOMAIN rs = 1..Len(old) /\ \A n \in 1..Len(old) : old[n] \in Rib
    BY <2>1
  <2>3. N \subseteq 1..Len(old) /\ \A n \in N : old[n].type = "static" /\ ~old[n].removed
    BY <2>2, Zenon DEF LiveAt
  <2> HIDE DEF rs, N
  <2>4. ASSUME NEW n \in 1..Len(old)
        PROVE  /\ rs[n].type = old[n].type /\ rs[n].selected = old[n].selected
               /\ rs[n].fib = old[n].fib /\ (old[n].type # "static" => rs[n] = old[n])
               /\ rs[n].removed = old[n].removed
               /\ n \in N => rs[n].nhs = old[n].nhs \cup {nh}
    BY <2>1, <2>2, <2>3 DEF Rib
  <2>5. Shifted(old, rs, 0, "static")
    <3>1. \A n \in 1..Len(old) : n + 0 = n
      OBVIOUS
    <3> QED BY <2>1, <2>4, <3>1 DEF Shifted
  <2>6. LiveAt(rs, "static") = N
    BY <2>2, <2>4, Zenon DEF LiveAt, N
  <2>7. HasLine(rs, nh)
    BY <2>3, <2>4, <2>6, Zenon DEF HasLine, N
  <2>8. ASSUME NEW x, HasLine(old, x) PROVE HasLine(rs, x)
    BY <2>3, <2>4, <2>6, <2>8 DEF HasLine, N
  <2> QED BY <2>5, <2>7, <2>8, Zenon DEF rs, N
\* static_install_ipv4 when there is none.
<1>StaticNew. ASSUME NEW old \in Seq(Rib), NEW nh \in Ifs, LiveAt(old, "static") = {}
              PROVE  LET rs == <<NewRib("static", {nh})>> \o old
                     IN  /\ Shifted(old, rs, 1, "static")
                         /\ HasLine(rs, nh)
  <2> USE <1>StaticNew
  <2> DEFINE r == NewRib("static", {nh})
             rs == <<r>> \o old
  <2>1. r \in Rib /\ r.type = "static" /\ r.nhs = {nh} /\ ~r.removed /\ "static" \in RouteTypes
    BY NewRibType DEF RouteTypes
  <2>2. Shifted(old, old, 0, "static")
    BY DEF Shifted
  <2>3. Shifted(old, rs, 1, "static") /\ rs[1] = r /\ \A n \in 1..Len(old) : rs[n + 1] = old[n]
    BY <2>1, <2>2, HeadShifted
  <2>4. /\ DOMAIN rs = 1..(Len(old) + 1) /\ Len(old) \in Nat /\ DOMAIN old = 1..Len(old)
    BY <2>1
  <2> HIDE DEF r, rs
  <2>5. ASSUME NEW n \in LiveAt(rs, "static") PROVE n = 1
    <3>1. n \in DOMAIN rs /\ rs[n].type = "static" /\ ~rs[n].removed
      BY Zenon DEF LiveAt
    <3>2. ASSUME n # 1 PROVE FALSE
      <4>1. n - 1 \in 1..Len(old) /\ n = (n - 1) + 1
        BY <2>4, <3>1, <3>2
      <4>2. rs[n] = old[n - 1]
        BY <2>3, <4>1, Zenon
      <4>3. n - 1 \in LiveAt(old, "static")
        BY <2>4, <3>1, <4>1, <4>2, Zenon DEF LiveAt
      <4> QED BY <4>3, Zenon
    <3> QED BY <3>2, Zenon
  <2>6. 1 \in LiveAt(rs, "static")
    BY <2>1, <2>3, <2>4 DEF LiveAt
  <2>7. HasLine(rs, nh)
    BY <2>1, <2>3, <2>5, <2>6, Zenon DEF HasLine
  <2> QED BY <2>3, <2>7, Zenon DEF rs, r
<1>Main. ASSUME NEW t \in Sound, NEW s \in StaticRoutes
         PROVE  \E rs, k : /\ Shifted(t.routes[s.dest], rs, k, "static")
                           /\ static_install_ipv4(t, s) = Requeued(t, s.dest, rs)
                           /\ HasLine(rs, s.nh)
                           /\ \A nh : HasLine(t.routes[s.dest], nh) => HasLine(rs, nh)
  <2> DEFINE old == t.routes[s.dest]
             N == LiveAt(old, "static")
  <2>1. s.dest \in Dests /\ s.nh \in Ifs
    BY ZebraAssumption, Zenon
  <2>2. old \in Seq(Rib)
    BY <2>1, TableParts, Zenon DEF Sound
  <2>3. Live(t, s.dest, "static") = N
    BY LiveIs, Zenon
  <2>4. CASE N = {}
    <3> DEFINE rs == <<NewRib("static", {s.nh})>> \o old
    <3>1. static_install_ipv4(t, s) = Requeued(t, s.dest, rs)
      BY <2>3, <2>4, AddnodeIs, Zenon DEF static_install_ipv4
    <3>2. Shifted(old, rs, 1, "static") /\ HasLine(rs, s.nh)
      BY <2>1, <2>2, <2>4, <1>StaticNew, Zenon
    <3>3. \A nh : ~HasLine(old, nh)
      BY <2>4, Zenon DEF HasLine
    <3> HIDE DEF rs
    <3> QED BY <3>1, <3>2, <3>3, Zenon
  <2>5. CASE N # {}
    <3> DEFINE rs == Joined(old, N, s.nh)
    <3>1. static_install_ipv4(t, s) = Requeued(t, s.dest, rs)
      BY <2>3, <2>5, Zenon DEF static_install_ipv4, Requeued, With
    <3>2. /\ Shifted(old, rs, 0, "static") /\ HasLine(rs, s.nh)
          /\ \A x : HasLine(old, x) => HasLine(rs, x)
      BY <2>1, <2>2, <2>5, <1>StaticJoin, Zenon
    <3> HIDE DEF rs
    <3> QED BY <3>1, <3>2, Zenon
  <2> QED BY <2>4, <2>5, Zenon
<1> QED BY <1>Main, Zenon

-----------------------------------------------------------------------------
(* The table that main builds.                                             *)

\* Tables in which every entry waits and none is selected.
Fresh == {t \in Sound : \A d \in Dests : Flagged(t, d) /\ Selected(t.routes[d]) = {}}

\* rib_add_ipv4 shifts the entries by one place.
LEMMA AddShifted ==
  \A t \in Sound, d \in Dests, type \in RouteTypes, nhs \in SUBSET Ifs :
         \E rs : /\ rib_add_ipv4(t, d, NewRib(type, nhs)) = Requeued(t, d, rs)
                 /\ Shifted(t.routes[d], rs, 1, type)
\* rib_add_ipv4 marks the entries of the type and puts the new one in front.
<1>AddIs. ASSUME NEW t \in Tables, NEW d \in Dests, NEW r, r.type # "connect"
          PROVE  rib_add_ipv4(t, d, r)
                   = Requeued(t, d, <<r>> \o Marked(t.routes[d], Live(t, d, r.type)))
  <2> USE <1>AddIs
  <2> DEFINE rs == Marked(t.routes[d], Live(t, d, r.type))
             w  == With(t, d, rs)
  <2>1. rib_add_ipv4(t, d, r) = rib_addnode(w, d, r)
    BY RemoveIs, Zenon DEF rib_add_ipv4
  <2>2. rib_addnode(w, d, r) = Requeued(w, d, <<r>> \o w.routes[d])
    BY AddnodeIs, Zenon
  <2> HIDE DEF rs
  <2>3. w.routes[d] = rs
    BY TableParts DEF With
  <2>4. ASSUME NEW x PROVE With(w, d, x) = With(t, d, x)
    BY TableParts, Zenon DEF With
  <2> HIDE DEF w
  <2>5. rib_add_ipv4(t, d, r) = Requeued(w, d, <<r>> \o rs)
    BY <2>1, <2>2, <2>3, Zenon
  <2> QED BY <2>4, <2>5, Zenon DEF Requeued, rs
\* A connected entry marks none.
<1>AddConnectIs. ASSUME NEW t, NEW d, NEW r, r.type = "connect"
                 PROVE  rib_add_ipv4(t, d, r) = Requeued(t, d, <<r>> \o t.routes[d])
  BY <1>AddConnectIs, AddnodeIs, Zenon DEF rib_add_ipv4
<1>Main. ASSUME NEW t \in Sound, NEW d \in Dests, NEW type \in RouteTypes, NEW nhs \in SUBSET Ifs
         PROVE  \E rs : /\ rib_add_ipv4(t, d, NewRib(type, nhs)) = Requeued(t, d, rs)
                        /\ Shifted(t.routes[d], rs, 1, type)
  <2> DEFINE old == t.routes[d]
             r == NewRib(type, nhs)
  <2>1. t \in Tables /\ old \in Seq(Rib) /\ r.type = type
    BY TableParts, NewRibType DEF Sound
  <2>2. CASE type = "connect"
    <3>1. Shifted(old, old, 0, type)
      BY <2>1 DEF Shifted
    <3>2. Shifted(old, <<r>> \o old, 1, type)
      BY <2>1, <3>1, HeadShifted, Zenon
    <3>3. rib_add_ipv4(t, d, r) = Requeued(t, d, <<r>> \o old)
      BY <2>1, <2>2, <1>AddConnectIs, Zenon
    <3> QED BY <3>2, <3>3, Zenon
  <2>3. CASE type # "connect"
    <3> DEFINE N == Live(t, d, type)
               rs == Marked(old, N)
    <3>1. \A n \in 1..Len(old) : n \in N => old[n].type = type
      BY Zenon DEF Live
    <3>2. Shifted(old, rs, 0, type)
      <4> HIDE DEF N
      <4> QED BY <2>1, <3>1, MarkedShifted, Zenon
    <3>3. Shifted(old, <<r>> \o rs, 1, type)
      <4> HIDE DEF rs
      <4> QED BY <2>1, <3>2, HeadShifted, Zenon
    <3>4. rib_add_ipv4(t, d, r) = Requeued(t, d, <<r>> \o rs)
      <4> HIDE DEF r
      <4> QED BY <2>1, <2>3, <1>AddIs, Zenon
    <3> QED BY <3>3, <3>4, Zenon
  <2> QED BY <2>2, <2>3, Zenon
<1> QED BY <1>Main, Zenon

\* The empty table is fresh.
LEMMA EmptyFresh == EmptyTable \in Fresh
<1> DEFINE t == EmptyTable
<1>1. /\ t.routes = [d \in Dests |-> <<>>] /\ t.flags = [d \in Dests |-> {}]
      /\ t.subq = [q \in SubQueues |-> <<>>] /\ t.ribq = FALSE
  BY Zenon DEF EmptyTable
<1>2. t \in Tables
  BY DEF EmptyTable, Tables
<1> HIDE DEF t
<1>3. FlagsOK(t) /\ RibqOK(t)
  BY <1>1, Zenon DEF FlagsOK, RibqOK
<1>4. \A d \in Dests : Flagged(t, d) /\ Selected(t.routes[d]) = {}
  BY <1>1 DEF Flagged, Selected
<1>5. t \in Fresh
  BY <1>2, <1>3, <1>4, Zenon DEF Fresh, Sound
<1> QED BY <1>5, Zenon DEF t

\* Order lists a finite set; proved at the end of the module.
Orders ==
    \A S : IsFiniteSet(S) =>
        /\ Cardinality(S) \in Nat
        /\ Order(S) \in [1..Cardinality(S) -> S]
        /\ \A s \in S : \E n \in 1..Cardinality(S) : Order(S)[n] = s

\* What main builds from the interfaces, the kernel's routes and the
\* configuration: every entry waits, none is selected, the routes of an earlier
\* zebra are marked and the configured lines are there.
LEMMA MainFresh ==
  \A up \in SUBSET Ifs, left \in [Dests -> SUBSET (SUBSET Ifs)], S \in SUBSET StaticRoutes :
     /\ Counting
     /\ Orders
     /\ IsFiniteSet(up)
     /\ IsFiniteSet(S)
     =>
         LET u == rib_sweep_table(vty_read_config(netlink_route_read(interface_lookup(up), left), S))
         IN  /\ u \in Fresh
             /\ \A d \in Dests : NoKernel(u.routes[d])
             /\ \A s \in S : HasLine(u.routes[s.dest], s.nh)
\* Changes that shift the entries keep a table fresh.
<1>FreshChange. ASSUME NEW t \in Fresh, NEW d \in Dests, NEW rs, NEW k, NEW type,
                       Shifted(t.routes[d], rs, k, type)
                PROVE  /\ Requeued(t, d, rs) \in Fresh
                       /\ Requeued(t, d, rs).routes = [t.routes EXCEPT ![d] = rs]
  <2> USE <1>FreshChange
  <2> DEFINE u == Requeued(t, d, rs)
  <2>1. /\ t \in Sound /\ t \in Tables
        /\ \A e \in Dests : Flagged(t, e) /\ Selected(t.routes[e]) = {}
    BY Zenon DEF Fresh, Sound
  <2>2. rs \in Seq(Rib) /\ t.routes[d] \in Seq(Rib) /\ t.routes \in [Dests -> Seq(Rib)]
    BY <2>1, TableParts, Zenon DEF Shifted
  <2>3. Changes(t, d, rs, u)
    BY <2>1, <2>2, Change, Zenon
  <2> HIDE DEF u
  <2>4. /\ u \in Sound /\ u.routes = [t.routes EXCEPT ![d] = rs]
        /\ Grows(t, u) /\ Flagged(u, d)
    BY <2>3, Zenon DEF Changes
  <2>5. Selected(rs) = {}
    <3> SUFFICES ASSUME NEW m \in DOMAIN rs, rs[m].selected PROVE FALSE
      BY Zenon DEF Selected
    <3>1. PICK n \in DOMAIN t.routes[d] : m = n + k
      BY <2>2, ShiftedPlaces
    <3>2. t.routes[d][n].selected
      BY <2>2, <3>1, ShiftedPlaces
    <3> QED BY <2>1, <3>2, Zenon DEF Selected
  <2>6. ASSUME NEW e \in Dests PROVE Flagged(u, e) /\ Selected(u.routes[e]) = {}
    <3>1. CASE e = d
      BY <2>2, <2>4, <2>5, <3>1, Zenon
    <3>2. CASE e # d
      <4>1. u.routes[e] = t.routes[e]
        BY <2>2, <2>4, <3>2, Zenon
      <4> QED BY <2>1, <2>4, <4>1, FlaggedGrows, Zenon
    <3> QED BY <3>1, <3>2, Zenon
  <2>7. u \in Fresh
    BY <2>4, <2>6, Zenon DEF Fresh
  <2> QED BY <2>4, <2>7, Zenon DEF u
\* rib_add_ipv4 keeps a table fresh.
<1>FreshAdd. ASSUME NEW t \in Fresh, NEW d \in Dests, NEW type \in RouteTypes, NEW nhs \in SUBSET Ifs
             PROVE  rib_add_ipv4(t, d, NewRib(type, nhs)) \in Fresh
  <2>1. t \in Sound
    BY Zenon DEF Fresh
  <2>2. PICK rs : /\ rib_add_ipv4(t, d, NewRib(type, nhs)) = Requeued(t, d, rs)
                  /\ Shifted(t.routes[d], rs, 1, type)
    BY <2>1, AddShifted, Zenon
  <2>3. Requeued(t, d, rs) \in Fresh
    BY <2>2, <1>FreshChange, Zenon
  <2> QED BY <2>2, <2>3, Zenon
\* Order lists a finite set.
<1>OrderList. ASSUME Orders, NEW S, IsFiniteSet(S)
              PROVE  /\ Cardinality(S) \in Nat
                     /\ Order(S) \in [1..Cardinality(S) -> S]
                     /\ \A s \in S : \E n \in 1..Cardinality(S) : Order(S)[n] = s
  BY <1>OrderList, Zenon DEF Orders
\* Counted steps from a fresh table.
<1>FreshFold. ASSUME Counting, NEW a \in Fresh, NEW n \in Nat, NEW g \in [1..n -> [Fresh -> Fresh]]
              PROVE  \E f \in [0..n -> Fresh] : f[0] = a /\ \A i \in 1..n : f[i] = g[i][f[i - 1]]
  BY <1>FreshFold, Fold
\* Interfaces are read.
<1>InterfacesFresh. ASSUME Counting, Orders, NEW up \in SUBSET Ifs, IsFiniteSet(up)
                    PROVE  interface_lookup(up) \in Fresh
  <2> USE <1>InterfacesFresh
  <2> DEFINE c == Cardinality(up)
             Step(x, n) == rib_add_ipv4(x, ConnOf[Order(up)[n]], NewRib("connect", {Order(up)[n]}))
             g == [n \in 1..c |-> [x \in Fresh |-> Step(x, n)]]
             Rec(f) == f = [n \in 0..c |-> IF n = 0 THEN EmptyTable ELSE Step(f[n - 1], n)]
             F == CHOOSE f : Rec(f)
  <2>1. c \in Nat /\ \A n \in 1..c : Order(up)[n] \in up
    BY <1>OrderList, Zenon
  <2>2. ASSUME NEW x \in Fresh, NEW n \in 1..c PROVE Step(x, n) \in Fresh
    <3>1. Order(up)[n] \in Ifs /\ ConnOf[Order(up)[n]] \in Dests /\ "connect" \in RouteTypes
      BY <2>1, ZebraAssumption, Zenon DEF RouteTypes
    <3> QED BY <3>1, <1>FreshAdd, Zenon
  <2> HIDE DEF c, Step
  <2>3. g \in [1..c -> [Fresh -> Fresh]]
    BY <2>2, Zenon
  <2>4. PICK f \in [0..c -> Fresh] :
            f[0] = EmptyTable /\ \A n \in 1..c : f[n] = g[n][f[n - 1]]
    <3> HIDE DEF g
    <3>1. c \in Nat /\ EmptyTable \in Fresh
      BY <2>1, EmptyFresh, Zenon
    <3> QED BY <2>3, <3>1, <1>FreshFold
  <2>5. \A n \in 1..c : f[n] = Step(f[n - 1], n)
    <3>1. \A n \in 1..c : f[n - 1] \in Fresh
      BY <2>1, <2>4
    <3> QED BY <2>4, <3>1, Zenon
  <2>6. Rec(f)
    BY <2>1, <2>4, <2>5
  <2>7. Rec(F)
    <3> HIDE DEF Rec
    <3> QED BY <2>6, Zenon
  <2>8. interface_lookup(up) = F[c]
    BY Zenon DEF interface_lookup, Step, c
  <2>9. F[0] = EmptyTable /\ \A n \in 1..c : F[n] = Step(F[n - 1], n)
    <3> HIDE DEF F
    <3> QED BY <2>1, <2>7
  <2>10. \A n \in 0..c : F[n] \in Fresh
    <3> DEFINE K == {n \in 0..c : F[n] \in Fresh}
    <3> HIDE DEF F
    <3>1. 0 \in K
      BY <2>1, <2>9, EmptyFresh
    <3>2. ASSUME NEW n \in 1..c, n - 1 \in K PROVE n \in K
      <4>1. F[n - 1] \in Fresh /\ n \in 0..c
        BY <3>2
      <4> QED BY <2>2, <2>9, <4>1, Zenon
    <3>3. K \in SUBSET (0..c)
      BY Zenon
    <3>4. \A n \in 0..c : n \in K
      <4> HIDE DEF K
      <4> QED BY <2>1, <3>1, <3>2, <3>3, Zenon DEF Counting
    <3> QED BY <3>4, Zenon
  <2> QED BY <2>1, <2>8, <2>10
\* The kernel's routes are read back.
<1>ReadFresh. ASSUME Counting, NEW t \in Fresh, NEW left \in [Dests -> SUBSET (SUBSET Ifs)]
              PROVE  netlink_route_read(t, left) \in Fresh
  <2> USE <1>ReadFresh
  <2> DEFINE Step(x, d) == IF left[d] = {} THEN x
                           ELSE rib_add_ipv4(x, d, NewRib("kernel", LastRead(left, d)))
             g == [d \in 1..NumDests |-> [x \in Fresh |-> Step(x, d)]]
             Rec(f) == f = [d \in 0..NumDests |-> IF d = 0 THEN t ELSE Step(f[d - 1], d)]
             F == CHOOSE f : Rec(f)
  <2>1. NumDests \in Nat /\ Dests = 1..NumDests
    BY ZebraAssumption, Zenon DEF Dests
  <2>2. ASSUME NEW x \in Fresh, NEW d \in 1..NumDests PROVE Step(x, d) \in Fresh
    <3>1. CASE left[d] = {}
      BY <3>1, Zenon
    <3>2. CASE left[d] # {}
      <4>1. d \in Dests /\ left[d] \in SUBSET (SUBSET Ifs) /\ "kernel" \in RouteTypes
        BY <2>1, Zenon DEF RouteTypes
      <4>2. \E ks \in SUBSET Ifs : left[d] # {} => ks \in left[d]
        BY <3>2, <4>1, Zenon
      <4>3. LastRead(left, d) \in SUBSET Ifs
        BY <4>2, Zenon DEF LastRead
      <4>4. rib_add_ipv4(x, d, NewRib("kernel", LastRead(left, d))) \in Fresh
        BY <4>1, <4>3, <1>FreshAdd, Zenon
      <4> QED BY <3>2, <4>4, Zenon
    <3> QED BY <3>1, <3>2, Zenon
  <2>3. g \in [1..NumDests -> [Fresh -> Fresh]]
    <3> HIDE DEF Step
    <3> QED BY <2>2, Zenon
  <2>4. PICK f \in [0..NumDests -> Fresh] :
            f[0] = t /\ \A d \in 1..NumDests : f[d] = g[d][f[d - 1]]
    <3> HIDE DEF g
    <3> QED BY <2>1, <2>3, Fold, SMTT(30)
  <2>5. Rec(f)
    <3>1. \A d \in 1..NumDests : f[d - 1] \in Fresh
      BY <2>1, <2>4
    <3> HIDE DEF Step
    <3>2. \A d \in 1..NumDests : f[d] = Step(f[d - 1], d)
      BY <2>4, <3>1, Zenon
    <3> QED BY <2>1, <2>4, <3>2
  <2>6. Rec(F)
    <3> HIDE DEF Rec
    <3> QED BY <2>5, Zenon
  <2>7. netlink_route_read(t, left) = F[NumDests]
    BY Zenon DEF netlink_route_read
  <2> HIDE DEF Step
  <2>8. F[0] = t /\ \A d \in 1..NumDests : F[d] = Step(F[d - 1], d)
    <3> HIDE DEF F
    <3> QED BY <2>1, <2>6
  <2>9. \A d \in 0..NumDests : F[d] \in Fresh
    <3> DEFINE K == {d \in 0..NumDests : F[d] \in Fresh}
    <3> HIDE DEF F
    <3>1. 0 \in K
      BY <2>1, <2>8
    <3>2. ASSUME NEW d \in 1..NumDests, d - 1 \in K PROVE d \in K
      <4>1. F[d - 1] \in Fresh /\ d \in 0..NumDests
        BY <3>2
      <4> QED BY <2>2, <2>8, <4>1, Zenon
    <3>3. K \in SUBSET (0..NumDests)
      BY Zenon
    <3>4. \A d \in 0..NumDests : d \in K
      <4> HIDE DEF K
      <4> QED BY <2>1, <3>1, <3>2, <3>3, Zenon DEF Counting
    <3> QED BY <3>4, Zenon
  <2> QED BY <2>1, <2>7, <2>9
\* static_install_ipv4 keeps a table fresh.
<1>FreshStatic. ASSUME NEW t \in Fresh, NEW s \in StaticRoutes
                PROVE  LET u == static_install_ipv4(t, s)
                       IN  /\ u \in Fresh
                           /\ HasLine(u.routes[s.dest], s.nh)
                           /\ \A d \in Dests, nh \in Ifs : HasLine(t.routes[d], nh) => HasLine(u.routes[d], nh)
  <2> DEFINE u == static_install_ipv4(t, s)
  <2>1. t \in Sound /\ s.dest \in Dests /\ t.routes \in [Dests -> Seq(Rib)]
    BY ZebraAssumption, TableParts, Zenon DEF Fresh, Sound
  <2>2. PICK rs, k : /\ Shifted(t.routes[s.dest], rs, k, "static")
                     /\ u = Requeued(t, s.dest, rs)
                     /\ HasLine(rs, s.nh)
                     /\ \A nh : HasLine(t.routes[s.dest], nh) => HasLine(rs, nh)
    BY <2>1, StaticInstall, Zenon
  <2> HIDE DEF u
  <2>3. u \in Fresh /\ u.routes = [t.routes EXCEPT ![s.dest] = rs]
    BY <2>1, <2>2, <1>FreshChange, Zenon
  <2>4. u.routes[s.dest] = rs /\ \A d \in Dests : d # s.dest => u.routes[d] = t.routes[d]
    BY <2>1, <2>3, Zenon
  <2>5. ASSUME NEW d \in Dests, NEW nh \in Ifs, HasLine(t.routes[d], nh)
        PROVE  HasLine(u.routes[d], nh)
    BY <2>2, <2>4, <2>5, Zenon
  <2> QED BY <2>2, <2>3, <2>4, <2>5, Zenon DEF u
\* The configuration is read.
<1>ConfigFresh. ASSUME Counting, Orders, NEW t \in Fresh, NEW S \in SUBSET StaticRoutes, IsFiniteSet(S)
                PROVE  /\ vty_read_config(t, S) \in Fresh
                       /\ \A s \in S : HasLine(vty_read_config(t, S).routes[s.dest], s.nh)
  <2> USE <1>ConfigFresh
  <2> DEFINE c == Cardinality(S)
             o == Order(S)
             Step(x, n) == static_install_ipv4(x, o[n])
             g == [n \in 1..c |-> [x \in Fresh |-> Step(x, n)]]
             Rec(f) == f = [n \in 0..c |-> IF n = 0 THEN t ELSE Step(f[n - 1], n)]
             F == CHOOSE f : Rec(f)
  <2>1. /\ c \in Nat /\ \A n \in 1..c : o[n] \in S
        /\ \A s \in S : \E n \in 1..c : o[n] = s
    BY <1>OrderList, Zenon
  <2>2. \A s \in S : s \in StaticRoutes /\ s.dest \in Dests /\ s.nh \in Ifs
    BY ZebraAssumption, Zenon
  <2>3. vty_read_config(t, S) = F[c]
    BY Zenon DEF vty_read_config
  <2> HIDE DEF c, o
  <2>4. ASSUME NEW x \in Fresh, NEW n \in 1..c
        PROVE  /\ Step(x, n) \in Fresh
               /\ HasLine(Step(x, n).routes[o[n].dest], o[n].nh)
               /\ \A d \in Dests, nh \in Ifs : HasLine(x.routes[d], nh) => HasLine(Step(x, n).routes[d], nh)
    <3>1. o[n] \in StaticRoutes
      BY <2>1, <2>2, Zenon
    <3> QED BY <3>1, <1>FreshStatic, Zenon
  <2> HIDE DEF Step
  <2>5. g \in [1..c -> [Fresh -> Fresh]]
    BY <2>4, Zenon
  <2>6. PICK f \in [0..c -> Fresh] : f[0] = t /\ \A n \in 1..c : f[n] = g[n][f[n - 1]]
    <3> HIDE DEF g
    <3>1. c \in Nat
      BY <2>1, Zenon
    <3> QED BY <2>5, <3>1, <1>FreshFold
  <2>7. Rec(f)
    <3>1. \A n \in 1..c : f[n - 1] \in Fresh
      BY <2>1, <2>6
    <3>2. \A n \in 1..c : f[n] = Step(f[n - 1], n)
      BY <2>6, <3>1, Zenon
    <3> QED BY <2>1, <2>6, <3>2
  <2>8. Rec(F)
    <3> HIDE DEF Rec
    <3> QED BY <2>7, Zenon
  <2>9. F[0] = t /\ \A n \in 1..c : F[n] = Step(F[n - 1], n)
    <3> HIDE DEF F
    <3> QED BY <2>1, <2>8
  <2> HIDE DEF F
  <2> DEFINE Done(k) == /\ F[k] \in Fresh
                        /\ \A n \in 1..k : HasLine(F[k].routes[o[n].dest], o[n].nh)
             K == {k \in 0..c : Done(k)}
  <2>10. 0 \in K
    <3>1. 0 \in 0..c /\ \A n \in 1..0 : FALSE
      BY <2>1
    <3> QED BY <2>9, <3>1, Zenon
  <2>11. ASSUME NEW k \in 1..c, k - 1 \in K PROVE k \in K
    <3>1. F[k - 1] \in Fresh /\ F[k] = Step(F[k - 1], k) /\ k \in 0..c
      BY <2>9, <2>11
    <3>2. \A n \in 1..(k - 1) : HasLine(F[k - 1].routes[o[n].dest], o[n].nh)
      BY <2>11, Zenon
    <3>3. /\ F[k] \in Fresh
          /\ HasLine(F[k].routes[o[k].dest], o[k].nh)
          /\ \A d \in Dests, nh \in Ifs : HasLine(F[k - 1].routes[d], nh) => HasLine(F[k].routes[d], nh)
      BY <2>4, <3>1, Zenon
    <3>4. ASSUME NEW n \in 1..k PROVE HasLine(F[k].routes[o[n].dest], o[n].nh)
      <4>1. CASE n = k
        BY <3>3, <4>1, Zenon
      <4>2. CASE n # k
        <5>1. n \in 1..(k - 1) /\ n \in 1..c
          BY <2>1, <4>2
        <5>2. o[n].dest \in Dests /\ o[n].nh \in Ifs
          BY <2>1, <2>2, <5>1, Zenon
        <5> QED BY <3>2, <3>3, <5>1, <5>2, Zenon
      <4> QED BY <4>1, <4>2, Zenon
    <3> QED BY <3>1, <3>3, <3>4, Zenon
  <2>12. Done(c)
    <3>1. K \in SUBSET (0..c)
      BY Zenon
    <3>2. \A k \in 0..c : k \in K
      <4> HIDE DEF K
      <4> QED BY <2>1, <2>10, <2>11, <3>1, Zenon DEF Counting
    <3>3. c \in 0..c
      BY <2>1
    <3> QED BY <3>2, <3>3, Zenon
  <2>13. ASSUME NEW s \in S PROVE HasLine(F[c].routes[s.dest], s.nh)
    <3>1. PICK n \in 1..c : o[n] = s
      BY <2>1, Zenon
    <3> QED BY <2>12, <3>1, Zenon
  <2> QED BY <2>3, <2>12, <2>13, Zenon
\* A destination is swept.
<1>FreshSweep. ASSUME NEW t \in Fresh, NEW d \in Dests
               PROVE  LET u == rib_delnode(t, d, Live(t, d, "kernel"))
                      IN  /\ u \in Fresh
                          /\ NoKernel(u.routes[d])
                          /\ \A nh : HasLine(t.routes[d], nh) => HasLine(u.routes[d], nh)
                          /\ \A e \in Dests : e # d => u.routes[e] = t.routes[e]
  <2> DEFINE N == Live(t, d, "kernel")
             u == rib_delnode(t, d, N)
             old == t.routes[d]
             rs == Marked(old, N)
  <2>1. /\ t \in Sound /\ t \in Tables /\ old \in Seq(Rib) /\ t.routes \in [Dests -> Seq(Rib)]
        /\ \A e \in Dests : Flagged(t, e) /\ Selected(t.routes[e]) = {}
    BY TableParts, Zenon DEF Fresh, Sound
  <2>2. N = {n \in DOMAIN old : old[n].type = "kernel" /\ ~old[n].removed}
    BY Zenon DEF Live
  <2> HIDE DEF N
  <2>3. /\ Shifted(old, rs, 0, "kernel")
        /\ u.routes = [t.routes EXCEPT ![d] = rs]
    <3>1. \A n \in N : n \in DOMAIN t.routes[d] /\ t.routes[d][n].type = "kernel"
      BY <2>2, Zenon
    <3>2. ASSUME NEW type, \A n \in N : n \in DOMAIN t.routes[d] /\ t.routes[d][n].type = type
          PROVE  Shifted(old, rs, 0, type) /\ u.routes = [t.routes EXCEPT ![d] = rs]
      <4>1. t \in Sound
        BY <2>1, Zenon
      <4>2. PICK v : v = u
        BY Zenon
      <4> HIDE DEF u
      <4>3. v = rib_delnode(t, d, N)
        BY <4>2, Zenon DEF u
      <4>4. /\ Shifted(t.routes[d], Marked(t.routes[d], N), 0, type)
            /\ v \in Sound
            /\ v.routes = [t.routes EXCEPT ![d] = Marked(t.routes[d], N)]
            /\ Grows(t, v)
            /\ v = t \/ Flagged(v, d)
        BY <3>2, <4>1, <4>3, Delnode
      <4> QED BY <4>2, <4>4, Zenon
    <3> QED BY <3>1, <3>2, Zenon
  <2>4. u \in Fresh
    <3>1. CASE N = {}
      BY <3>1, Zenon DEF rib_delnode
    <3>2. CASE N # {}
      <4>1. u = Requeued(t, d, rs)
        BY <3>2, DelnodeIs, Zenon
      <4>2. Requeued(t, d, rs) \in Fresh
        <5> HIDE DEF rs
        <5> QED BY <2>3, <1>FreshChange, Zenon
      <4> QED BY <4>1, <4>2, Zenon
    <3> QED BY <3>1, <3>2, Zenon
  <2>5. NoKernel(rs)
    <3>1. /\ Len(rs) = Len(old) /\ rs \in Seq(Rib)
          /\ \A n \in 1..Len(old) : /\ n \in N => rs[n] = [old[n] EXCEPT !.removed = TRUE]
                                    /\ n \notin N => rs[n] = old[n]
      BY <2>1, MarkedList
    <3>2. DOMAIN rs = 1..Len(old) /\ DOMAIN old = 1..Len(old) /\ \A n \in 1..Len(old) : old[n] \in Rib
      BY <2>1, <3>1
    <3> HIDE DEF rs
    <3>3. ASSUME NEW n \in 1..Len(old), rs[n].type = "kernel" PROVE rs[n].removed
      <4>1. CASE n \in N
        BY <3>1, <3>2, <4>1, Zenon DEF Rib
      <4>2. CASE n \notin N
        BY <2>2, <3>1, <3>2, <3>3, <4>2, Zenon
      <4> QED BY <4>1, <4>2, Zenon
    <3> QED BY <3>2, <3>3, Zenon DEF NoKernel
  <2> HIDE DEF u, rs
  <2>6. u.routes[d] = rs /\ \A e \in Dests : e # d => u.routes[e] = t.routes[e]
    BY <2>1, <2>3, Zenon
  <2>7. ASSUME NEW nh, HasLine(old, nh) PROVE HasLine(rs, nh)
    BY <2>1, <2>3, <2>7, ShiftedLine, Zenon
  <2> QED BY <2>4, <2>5, <2>6, <2>7, Zenon DEF u, N
\* All are.
<1>SweepFresh. ASSUME Counting, NEW t \in Fresh
               PROVE  LET u == rib_sweep_table(t)
                      IN  /\ u \in Fresh
                          /\ \A d \in Dests : /\ NoKernel(u.routes[d])
                                              /\ \A nh : HasLine(t.routes[d], nh) => HasLine(u.routes[d], nh)
  <2> USE <1>SweepFresh
  <2> DEFINE Step(x, d) == Swept(x, d)
             g == [d \in 1..NumDests |-> [x \in Fresh |-> Step(x, d)]]
             Rec(f) == f = [d \in 0..NumDests |-> IF d = 0 THEN t ELSE Step(f[d - 1], d)]
             F == CHOOSE f : Rec(f)
  <2>1. NumDests \in Nat /\ Dests = 1..NumDests
    BY ZebraAssumption, Zenon DEF Dests
  <2>2. rib_sweep_table(t) = F[NumDests]
    BY Zenon DEF rib_sweep_table
  <2>3. ASSUME NEW x \in Fresh, NEW d \in Dests
        PROVE  /\ Step(x, d) \in Fresh
               /\ NoKernel(Step(x, d).routes[d])
               /\ \A nh : HasLine(x.routes[d], nh) => HasLine(Step(x, d).routes[d], nh)
               /\ \A e \in Dests : e # d => Step(x, d).routes[e] = x.routes[e]
    BY <1>FreshSweep, Zenon DEF Swept
  <2> HIDE DEF Step
  <2>4. g \in [1..NumDests -> [Fresh -> Fresh]]
    BY <2>1, <2>3, Zenon
  <2>5. PICK f \in [0..NumDests -> Fresh] :
            f[0] = t /\ \A d \in 1..NumDests : f[d] = g[d][f[d - 1]]
    <3> HIDE DEF g
    <3> QED BY <2>1, <2>4, <1>FreshFold
  <2>6. Rec(f)
    <3>1. \A d \in 1..NumDests : f[d - 1] \in Fresh
      BY <2>1, <2>5
    <3>2. \A d \in 1..NumDests : f[d] = Step(f[d - 1], d)
      BY <2>5, <3>1, Zenon
    <3> QED BY <2>1, <2>5, <3>2
  <2>7. Rec(F)
    <3> HIDE DEF Rec
    <3> QED BY <2>6, Zenon
  <2>8. F[0] = t /\ \A d \in 1..NumDests : F[d] = Step(F[d - 1], d)
    <3> HIDE DEF F
    <3> QED BY <2>1, <2>7
  <2> HIDE DEF F
  <2> DEFINE Done(k) == /\ F[k] \in Fresh
                        /\ \A d \in 1..k : NoKernel(F[k].routes[d])
                        /\ \A d \in Dests : \A nh : HasLine(t.routes[d], nh) => HasLine(F[k].routes[d], nh)
             K == {k \in 0..NumDests : Done(k)}
  <2>9. 0 \in K
    <3>1. 0 \in 0..NumDests /\ \A d \in 1..0 : FALSE
      BY <2>1
    <3> QED BY <2>8, <3>1, Zenon
  <2>10. ASSUME NEW k \in 1..NumDests, k - 1 \in K PROVE k \in K
    <3>1. F[k - 1] \in Fresh /\ F[k] = Step(F[k - 1], k) /\ k \in Dests /\ k \in 0..NumDests
      BY <2>1, <2>8, <2>10
    <3>2. /\ \A d \in 1..(k - 1) : NoKernel(F[k - 1].routes[d])
          /\ \A d \in Dests : \A nh : HasLine(t.routes[d], nh) => HasLine(F[k - 1].routes[d], nh)
      BY <2>10, Zenon
    <3>3. /\ F[k] \in Fresh
          /\ NoKernel(F[k].routes[k])
          /\ \A nh : HasLine(F[k - 1].routes[k], nh) => HasLine(F[k].routes[k], nh)
          /\ \A e \in Dests : e # k => F[k].routes[e] = F[k - 1].routes[e]
      <4>1. /\ Step(F[k - 1], k) \in Fresh
            /\ NoKernel(Step(F[k - 1], k).routes[k])
            /\ \A nh : HasLine(F[k - 1].routes[k], nh) => HasLine(Step(F[k - 1], k).routes[k], nh)
            /\ \A e \in Dests : e # k => Step(F[k - 1], k).routes[e] = F[k - 1].routes[e]
        BY <2>3, <3>1, Zenon
      <4> QED BY <3>1, <4>1, Zenon
    <3>4. ASSUME NEW d \in 1..k PROVE NoKernel(F[k].routes[d])
      <4>1. CASE d = k
        BY <3>3, <4>1, Zenon
      <4>2. CASE d # k
        <5>1. d \in 1..(k - 1) /\ d \in Dests
          BY <2>1, <4>2
        <5> QED BY <3>2, <3>3, <4>2, <5>1, Zenon
      <4> QED BY <4>1, <4>2, Zenon
    <3>5. ASSUME NEW d \in Dests, NEW nh, HasLine(t.routes[d], nh)
          PROVE  HasLine(F[k].routes[d], nh)
      <4>1. HasLine(F[k - 1].routes[d], nh)
        BY <3>2, <3>5, Zenon
      <4> QED BY <3>3, <4>1, Zenon
    <3> QED BY <3>1, <3>3, <3>4, <3>5, Zenon
  <2>11. Done(NumDests)
    <3>1. K \in SUBSET (0..NumDests)
      BY Zenon
    <3>2. \A k \in 0..NumDests : k \in K
      <4> HIDE DEF K
      <4> QED BY <2>1, <2>9, <2>10, <3>1, Zenon DEF Counting
    <3>3. NumDests \in 0..NumDests
      BY <2>1
    <3> QED BY <3>2, <3>3, Zenon
  <2> QED BY <2>1, <2>2, <2>11, Zenon
<1>Main. ASSUME Counting, Orders, NEW up \in SUBSET Ifs, IsFiniteSet(up),
                NEW left \in [Dests -> SUBSET (SUBSET Ifs)],
                NEW S \in SUBSET StaticRoutes, IsFiniteSet(S)
         PROVE  LET u == rib_sweep_table(vty_read_config(netlink_route_read(interface_lookup(up), left), S))
                IN  /\ u \in Fresh
                    /\ \A d \in Dests : NoKernel(u.routes[d])
                    /\ \A s \in S : HasLine(u.routes[s.dest], s.nh)
  <2> USE <1>Main
  <2> DEFINE ift == interface_lookup(up)
             read == netlink_route_read(ift, left)
             conf == vty_read_config(read, S)
             u == rib_sweep_table(conf)
  <2>1. ift \in Fresh
    BY <1>InterfacesFresh, Zenon
  <2> HIDE DEF ift
  <2>2. read \in Fresh
    BY <2>1, <1>ReadFresh, Zenon
  <2> HIDE DEF read
  <2>3. conf \in Fresh /\ \A s \in S : HasLine(conf.routes[s.dest], s.nh)
    BY <2>2, <1>ConfigFresh, Zenon
  <2> HIDE DEF conf
  <2>4. /\ u \in Fresh
        /\ \A d \in Dests : /\ NoKernel(u.routes[d])
                            /\ \A nh : HasLine(conf.routes[d], nh) => HasLine(u.routes[d], nh)
    BY <2>3, <1>SweepFresh, Zenon
  <2> HIDE DEF u
  <2>5. \A s \in S : HasLine(u.routes[s.dest], s.nh)
    <3>1. \A s \in S : s.dest \in Dests
      BY ZebraAssumption
    <3> QED BY <2>3, <2>4, <3>1, Zenon
  <2> QED BY <2>4, <2>5, Zenon DEF u, conf, read, ift
<1> QED BY <1>Main, Zenon

-----------------------------------------------------------------------------
(* The invariant.                                                          *)

RemovedOK(t) ==
    \A d \in Dests : \A n \in DOMAIN t.routes[d] : t.routes[d][n].removed => Queued(t, d)

\* The connected entry of c has not been selected, or unselected, yet.
Pending(t, up, c) == ~(HasConn(t.routes[c]) <=> WantConn(t.routes[c], up))

\* The next hops through c will change when c is processed: it is in the first
\* sub-queue, and whatever may depend on it waits in a later one.
Gates(t, up) ==
    \A c \in Dests : Pending(t, up, c) =>
        /\ Waits(t, c, 0)
        /\ \A e \in Dests : \A n \in DOMAIN t.routes[e] :
              ~t.routes[e][n].removed /\ t.routes[e][n].type # "connect" =>
                 \E q \in 1..4 : Waits(t, e, q)

Settles(t, up) == \A d \in Dests : ~Queued(t, d) => Decided(t, up, d, t.routes[d])

Queues(t, up) == t \in Sound /\ RemovedOK(t) /\ Gates(t, up) /\ Settles(t, up)

\* A decision stays right while the connected entries do not change.
LEMMA DecidedSame ==
  \A t, u, up, d : \A rs \in Seq(Rib) :
     /\ Decided(t, up, d, rs)
     /\ \/ \A n \in DOMAIN rs : rs[n].removed \/ rs[n].type = "connect"
        \/ \A c \in Dests : c # d => (HasConn(u.routes[c]) <=> HasConn(t.routes[c]))
     =>
         Decided(u, up, d, rs)
\* A gateway is active through a selected connected entry.
<1>Gate. ASSUME NEW t, NEW d, NEW i
         PROVE  /\ (\E n \in Match(t, ConnOf[i]) : t.routes[ConnOf[i]][n].type = "connect")
                       <=> HasConn(t.routes[ConnOf[i]])
                /\ Inside[i] = {} => (GatewayActive(t, d, i)
                                        <=> ConnOf[i] # d /\ HasConn(t.routes[ConnOf[i]]))
  <2>1. (\E n \in Match(t, ConnOf[i]) : t.routes[ConnOf[i]][n].type = "connect")
              <=> HasConn(t.routes[ConnOf[i]])
    BY Zenon DEF Match, HasConn
  <2> HIDE DEF Match, HasConn
  <2>2. ASSUME Inside[i] = {}
        PROVE  GatewayActive(t, d, i) <=> ConnOf[i] # d /\ HasConn(t.routes[ConnOf[i]])
    BY <2>1, <2>2, Zenon DEF GatewayActive
  <2> QED BY <2>1, <2>2, Zenon
\* Flags stay current while the connected entries do not change.
<1>Same. ASSUME NEW t, NEW u, NEW up, NEW d, NEW r \in Rib, Current(t, up, d, r),
                \/ r.type = "connect"
                \/ \A c \in Dests : c # d => (HasConn(u.routes[c]) <=> HasConn(t.routes[c]))
         PROVE  Current(u, up, d, r)
  <2> USE <1>Same
  <2>1. CASE r.type = "connect"
    BY <2>1, Zenon DEF Current
  <2>2. CASE r.type # "connect"
    <3>1. \A i \in r.nhs : ConnOf[i] \in Dests
      BY ZebraAssumption, Zenon DEF Rib
    <3>2. \A i \in r.active : i \in r.nhs /\ ConnOf[i] # d /\ HasConn(t.routes[ConnOf[i]])
      BY <2>2, <1>Gate, Zenon DEF Current
    <3>3. \A i \in r.active : i \in r.nhs /\ ConnOf[i] # d /\ HasConn(u.routes[ConnOf[i]])
      BY <2>2, <3>1, <3>2, Zenon
    <3>4. ASSUME NEW i \in r.nhs, Inside[i] = {}, GatewayActive(u, d, i)
          PROVE  i \in r.active
      <4>1. ConnOf[i] # d /\ HasConn(u.routes[ConnOf[i]])
        BY <3>4, <1>Gate, Zenon
      <4>2. GatewayActive(t, d, i)
        BY <2>2, <3>1, <3>4, <4>1, <1>Gate, Zenon
      <4> QED BY <2>2, <3>4, <4>2, Zenon DEF Current
    <3>5. \A i \in r.active :
             /\ i \in r.nhs /\ ConnOf[i] # d
             /\ \E n \in Match(u, ConnOf[i]) : u.routes[ConnOf[i]][n].type = "connect"
      BY <3>3, <1>Gate, Zenon
    <3>6. \A i \in r.nhs : Inside[i] = {} /\ GatewayActive(u, d, i) => i \in r.active
      BY <3>4, Zenon
    <3> QED BY <2>2, <3>5, <3>6, Zenon DEF Current
  <2> QED BY <2>1, <2>2, Zenon
<1>Main. ASSUME NEW t, NEW u, NEW up, NEW d, NEW rs \in Seq(Rib), Decided(t, up, d, rs),
                \/ \A n \in DOMAIN rs : rs[n].removed \/ rs[n].type = "connect"
                \/ \A c \in Dests : c # d => (HasConn(u.routes[c]) <=> HasConn(t.routes[c]))
         PROVE  Decided(u, up, d, rs)
  <2> USE <1>Main
  <2>1. \A n \in DOMAIN rs : rs[n] \in Rib
    OBVIOUS
  <2>2. \A n \in DOMAIN rs : rs[n].removed \/ Current(t, up, d, rs[n])
    BY Zenon DEF Decided
  <2>3. ASSUME NEW n \in DOMAIN rs
        PROVE  rs[n].removed \/ Current(u, up, d, rs[n])
    BY <2>1, <2>2, <1>Same, Zenon
  <2> QED BY <2>3, Zenon DEF Decided
<1> QED BY <1>Main, Zenon

\* A flagged destination: its entries wait where they should.
LEMMA FlaggedAll ==
  \A t \in Sound, d \in Dests : \A n \in DOMAIN t.routes[d] :
     /\ Flagged(t, d)
     =>
         /\ Queued(t, d)
         /\ t.routes[d][n].type = "connect" => Waits(t, d, 0)
         /\ (~t.routes[d][n].removed /\ t.routes[d][n].type # "connect" /\ NoKernel(t.routes[d])) =>
               \E q \in 1..4 : Waits(t, d, q)
\* An entry waits in the sub-queue of its type.
<1>FlaggedWaits. ASSUME NEW t \in Sound, NEW d \in Dests, Flagged(t, d), NEW n \in DOMAIN t.routes[d]
                 PROVE  Waits(t, d, meta_queue_map[t.routes[d][n].type])
  BY <1>FlaggedWaits, Zenon DEF Sound, FlagsOK, Flagged
\* Only connected and kernel entries use the first sub-queue.
<1>MapHigh. ASSUME NEW type \in RouteTypes
            PROVE  /\ type # "connect" /\ type # "kernel" => meta_queue_map[type] \in 1..4
                   /\ type = "connect" => meta_queue_map[type] = 0
  BY DEF RouteTypes, meta_queue_map
<1>Main. ASSUME NEW t \in Sound, NEW d \in Dests, Flagged(t, d), NEW n \in DOMAIN t.routes[d]
         PROVE  /\ Queued(t, d)
                /\ t.routes[d][n].type = "connect" => Waits(t, d, 0)
                /\ (~t.routes[d][n].removed /\ t.routes[d][n].type # "connect" /\ NoKernel(t.routes[d])) =>
                      \E q \in 1..4 : Waits(t, d, q)
  <2> USE <1>Main
  <2>1. t.routes[d][n].type \in RouteTypes
    <3>1. t.routes[d] \in Seq(Rib)
      BY TableParts, Zenon DEF Sound
    <3>2. t.routes[d][n] \in Rib
      BY <3>1
    <3> QED BY <3>2, Zenon DEF Rib
  <2> DEFINE q == meta_queue_map[t.routes[d][n].type]
  <2>2. Waits(t, d, q) /\ q \in SubQueues
    BY <2>1, <1>FlaggedWaits, MapType, Zenon
  <2>3. /\ t.routes[d][n].type # "connect" /\ t.routes[d][n].type # "kernel" => q \in 1..4
        /\ t.routes[d][n].type = "connect" => q = 0
    BY <2>1, <1>MapHigh, Zenon
  <2> HIDE DEF q
  <2> QED BY <2>2, <2>3, Zenon DEF Queued, NoKernel
<1> QED BY <1>Main, Zenon

\* A change that leaves alone what is connected.
Quiet(t, u) ==
    /\ u \in Sound
    /\ Grows(t, u)
    /\ \A d \in Dests :
          \/ u.routes[d] = t.routes[d]
          \/ /\ Flagged(u, d)
             /\ u.routes[d] = <<>> => t.routes[d] = <<>>
             /\ NoKernel(u.routes[d])
             /\ HasConn(u.routes[d]) <=> HasConn(t.routes[d])
             /\ \A up : WantConn(u.routes[d], up) <=> WantConn(t.routes[d], up)

\* What waits goes on waiting while queues grow.
LEMMA QueuedGrows ==
  ASSUME NEW t, NEW u, NEW d \in Dests, Grows(t, u), Queued(t, d)
  PROVE  Queued(u, d)
BY Zenon DEF Queued, Grows

\* The invariant of the queues over a change that leaves the connected entries
\* alone.
LEMMA QuietQueues ==
  ASSUME NEW t, NEW u, NEW up, Queues(t, up), Quiet(t, u)
  PROVE  Queues(u, up)
<1>1. t \in Sound /\ RemovedOK(t) /\ Gates(t, up) /\ Settles(t, up)
  BY Zenon DEF Queues
<1>2. u \in Sound /\ Grows(t, u)
  BY Zenon DEF Quiet
<1>3. ASSUME NEW d \in Dests, u.routes[d] # t.routes[d]
      PROVE  Flagged(u, d) /\ (u.routes[d] = <<>> => t.routes[d] = <<>>) /\ NoKernel(u.routes[d])
  BY <1>3, Zenon DEF Quiet
<1>4. \A d \in Dests : /\ HasConn(u.routes[d]) <=> HasConn(t.routes[d])
                       /\ WantConn(u.routes[d], up) <=> WantConn(t.routes[d], up)
  BY Zenon DEF Quiet
<1>5. RemovedOK(u)
  <2> SUFFICES ASSUME NEW d \in Dests, NEW n \in DOMAIN u.routes[d], u.routes[d][n].removed
               PROVE  Queued(u, d)
    BY Zenon DEF RemovedOK
  <2>1. CASE u.routes[d] = t.routes[d]
    BY <1>1, <1>2, <2>1, QueuedGrows, Zenon DEF RemovedOK
  <2>2. CASE u.routes[d] # t.routes[d]
    BY <1>2, <1>3, <2>2, FlaggedAll, Zenon
  <2> QED BY <2>1, <2>2, Zenon
<1>6. Gates(u, up)
  <2> SUFFICES ASSUME NEW c \in Dests, Pending(u, up, c)
               PROVE  /\ Waits(u, c, 0)
                      /\ \A e \in Dests : \A n \in DOMAIN u.routes[e] :
                            ~u.routes[e][n].removed /\ u.routes[e][n].type # "connect" =>
                               \E q \in 1..4 : Waits(u, e, q)
    BY Zenon DEF Gates
  <2>1. Pending(t, up, c)
    BY <1>4, Zenon DEF Pending
  <2>2. /\ Waits(t, c, 0)
        /\ \A e \in Dests : \A n \in DOMAIN t.routes[e] :
              ~t.routes[e][n].removed /\ t.routes[e][n].type # "connect" =>
                 \E q \in 1..4 : Waits(t, e, q)
    BY <1>1, <2>1, Zenon DEF Gates
  <2>3. 0 \in SubQueues /\ 1..4 \subseteq SubQueues
    BY DEF SubQueues
  <2>4. Waits(u, c, 0)
    BY <1>2, <2>2, <2>3, Zenon DEF Grows
  <2>5. ASSUME NEW e \in Dests, NEW n \in DOMAIN u.routes[e],
               ~u.routes[e][n].removed, u.routes[e][n].type # "connect"
        PROVE  \E q \in 1..4 : Waits(u, e, q)
    <3>1. CASE u.routes[e] = t.routes[e]
      <4>1. PICK q \in 1..4 : Waits(t, e, q)
        BY <2>2, <2>5, <3>1, Zenon
      <4>2. Waits(u, e, q)
        BY <1>2, <2>3, <4>1, Zenon DEF Grows
      <4> QED BY <4>2, Zenon
    <3>2. CASE u.routes[e] # t.routes[e]
      BY <1>2, <1>3, <2>5, <3>2, FlaggedAll, Zenon
    <3> QED BY <3>1, <3>2, Zenon
  <2> QED BY <2>4, <2>5, Zenon
<1>7. Settles(u, up)
  <2> SUFFICES ASSUME NEW d \in Dests, ~Queued(u, d) PROVE Decided(u, up, d, u.routes[d])
    BY Zenon DEF Settles
  <2>1. t.routes[d] \in Seq(Rib) /\ u.routes[d] \in Seq(Rib)
    BY <1>1, <1>2, TableParts, Zenon DEF Sound
  <2>2. u.routes[d] = t.routes[d]
    <3>1. ASSUME u.routes[d] # t.routes[d] PROVE FALSE
      <4>1. u.routes[d] # <<>>
        BY <1>3, <3>1, Zenon
      <4>2. 1 \in DOMAIN u.routes[d]
        BY <2>1, <4>1
      <4> QED BY <1>2, <1>3, <3>1, <4>2, FlaggedAll, Zenon
    <3> QED BY <3>1, Zenon
  <2>3. ~Queued(t, d)
    BY <1>2, QueuedGrows, Zenon
  <2>4. Decided(t, up, d, t.routes[d])
    BY <1>1, <2>3, Zenon DEF Settles
  <2>5. Decided(u, up, d, t.routes[d])
    BY <1>4, <2>1, <2>4, DecidedSame, Zenon
  <2> QED BY <2>2, <2>5, Zenon
<1> QED BY <1>2, <1>5, <1>6, <1>7, Zenon DEF Queues

\* Everything is flagged.
LEMMA FlaggedQueues ==
  ASSUME NEW u \in Sound, NEW up, \A d \in Dests : Flagged(u, d) /\ NoKernel(u.routes[d])
  PROVE  Queues(u, up)
<1>1. RemovedOK(u)
  BY FlaggedAll, Zenon DEF RemovedOK
<1>2. Gates(u, up)
  <2> SUFFICES ASSUME NEW c \in Dests, Pending(u, up, c)
               PROVE  /\ Waits(u, c, 0)
                      /\ \A e \in Dests : \A n \in DOMAIN u.routes[e] :
                            ~u.routes[e][n].removed /\ u.routes[e][n].type # "connect" =>
                               \E q \in 1..4 : Waits(u, e, q)
    BY Zenon DEF Gates
  <2>1. PICK n \in DOMAIN u.routes[c] : u.routes[c][n].type = "connect"
    BY Zenon DEF Pending, HasConn, WantConn
  <2>2. Waits(u, c, 0)
    BY <2>1, FlaggedAll, Zenon
  <2>3. ASSUME NEW e \in Dests, NEW m \in DOMAIN u.routes[e],
               ~u.routes[e][m].removed, u.routes[e][m].type # "connect"
        PROVE  \E q \in 1..4 : Waits(u, e, q)
    BY <2>3, FlaggedAll, Zenon
  <2> QED BY <2>2, <2>3, Zenon
<1>3. Settles(u, up)
  <2> SUFFICES ASSUME NEW d \in Dests, ~Queued(u, d) PROVE Decided(u, up, d, u.routes[d])
    BY Zenon DEF Settles
  <2>1. DOMAIN u.routes[d] = {}
    BY FlaggedAll, Zenon
  <2> QED BY <2>1, Zenon DEF Decided
<1> QED BY <1>1, <1>2, <1>3, Zenon DEF Queues

\* The table after the head of sub-queue q was processed, with entries ks.
Popped(t, q, ks) ==
    LET d  == Head(t.subq[q])
        sq == [t.subq EXCEPT ![q] = Tail(@)]
    IN  [routes |-> [t.routes EXCEPT ![d] = ks],
         flags  |-> [t.flags EXCEPT ![d] = IF ks = <<>> THEN {} ELSE @ \ {q}],
         subq   |-> sq,
         ribq   |-> \E p \in SubQueues : sq[p] # <<>>]

\* The queues after the head of a sub-queue has been processed.
LEMMA PoppedIs ==
  ASSUME NEW t \in Sound, NEW q \in SubQueues, t.subq[q] # <<>>, NEW ks \in Seq(Rib)
  PROVE  LET d == Head(t.subq[q])
             u == Popped(t, q, ks)
         IN  /\ d \in Dests
             /\ Waits(t, d, q)
             /\ u \in Sound
             /\ u.routes[d] = ks
             /\ \A e \in Dests : e # d => u.routes[e] = t.routes[e]
             /\ \A e \in Dests, p \in SubQueues :
                   e # d \/ p # q => (Waits(u, e, p) <=> Waits(t, e, p))
<1> DEFINE d  == Head(t.subq[q])
           sq == [t.subq EXCEPT ![q] = Tail(@)]
           u  == Popped(t, q, ks)
<1>1. /\ t \in Tables /\ FlagsOK(t) /\ RibqOK(t)
      /\ t.subq \in [SubQueues -> Seq(Dests)] /\ t.routes \in [Dests -> Seq(Rib)]
      /\ t.flags \in [Dests -> SUBSET SubQueues]
  BY TableParts, Zenon DEF Sound
<1>2. t.subq[q] \in Seq(Dests) /\ Len(t.subq[q]) \in Nat /\ Len(t.subq[q]) > 0
  BY <1>1
<1>3. d \in Dests /\ d = t.subq[q][1] /\ 1 \in 1..Len(t.subq[q])
  BY <1>2
<1>4. Waits(t, d, q)
  BY <1>1, <1>3, WaitsDef, Zenon
<1>5. /\ Tail(t.subq[q]) \in Seq(Dests)
      /\ Len(Tail(t.subq[q])) = Len(t.subq[q]) - 1
      /\ \A n \in 1..(Len(t.subq[q]) - 1) : Tail(t.subq[q])[n] = t.subq[q][n + 1]
  BY <1>2
<1>6. /\ sq \in [SubQueues -> Seq(Dests)] /\ sq[q] = Tail(t.subq[q])
      /\ \A p \in SubQueues : p # q => sq[p] = t.subq[p]
  BY <1>1, <1>5, Zenon
<1> DEFINE fl == [t.flags EXCEPT ![d] = IF ks = <<>> THEN {} ELSE @ \ {q}]
           ro == [t.routes EXCEPT ![d] = ks]
           rq == \E p \in SubQueues : sq[p] # <<>>
<1>7. u = [routes |-> ro, flags |-> fl, subq |-> sq, ribq |-> rq]
  BY Zenon DEF Popped
<1>8. /\ fl \in [Dests -> SUBSET SubQueues]
      /\ fl[d] \subseteq t.flags[d] \ {q}
      /\ \A e \in Dests : e # d => fl[e] = t.flags[e]
  BY <1>1, <1>3, Zenon
<1>9. /\ ro \in [Dests -> Seq(Rib)] /\ ro[d] = ks
      /\ \A e \in Dests : e # d => ro[e] = t.routes[e]
  BY <1>1, <1>3, Zenon
<1>10. rq \in BOOLEAN /\ (rq <=> \E p \in SubQueues : sq[p] # <<>>)
  BY Zenon
<1> HIDE DEF u, sq, fl, ro, rq, d
<1>11. u.routes = ro /\ u.flags = fl /\ u.subq = sq /\ u.ribq = rq
  BY <1>7, Zenon
<1>12. u \in Tables
  BY <1>6, <1>7, <1>8, <1>9, <1>10, Zenon DEF Tables
<1>13. ASSUME NEW e \in Dests, NEW p \in SubQueues, e # d \/ p # q
       PROVE  Waits(u, e, p) <=> Waits(t, e, p)
  <2>1. CASE p # q
    BY <1>6, <1>11, <2>1, Zenon DEF Waits
  <2>2. CASE p = q /\ e # d
    <3>1. ASSUME Waits(t, e, p) PROVE Waits(u, e, p)
      <4>1. PICK n \in 1..Len(t.subq[q]) : t.subq[q][n] = e
        BY <1>1, <2>2, <3>1, WaitsDef, Zenon
      <4>2. n # 1
        BY <1>3, <2>2, <4>1, Zenon
      <4>3. n - 1 \in 1..(Len(t.subq[q]) - 1) /\ (n - 1) + 1 = n
        BY <1>2, <4>1, <4>2
      <4>4. n - 1 \in 1..Len(u.subq[q]) /\ u.subq[q][n - 1] = e
        BY <1>5, <1>6, <1>11, <4>1, <4>3, Zenon
      <4> QED BY <1>12, <2>2, <4>4, WaitsDef, Zenon
    <3>2. ASSUME Waits(u, e, p) PROVE Waits(t, e, p)
      <4>1. PICK n \in 1..Len(u.subq[q]) : u.subq[q][n] = e
        BY <1>12, <2>2, <3>2, WaitsDef, Zenon
      <4>2. n \in 1..(Len(t.subq[q]) - 1) /\ n + 1 \in 1..Len(t.subq[q])
        BY <1>2, <1>5, <1>6, <1>11, <4>1
      <4>3. t.subq[q][n + 1] = e
        BY <1>5, <1>6, <1>11, <4>1, <4>2, Zenon
      <4> QED BY <1>1, <2>2, <4>2, <4>3, WaitsDef, Zenon
    <3> QED BY <3>1, <3>2, Zenon
  <2> QED BY <1>13, <2>1, <2>2, Zenon
<1>14. FlagsOK(u)
  <2> SUFFICES ASSUME NEW e \in Dests, NEW p \in u.flags[e] PROVE Waits(u, e, p)
    BY Zenon DEF FlagsOK
  <2>1. p \in SubQueues
    BY <1>8, <1>11, Zenon
  <2>2. p \in t.flags[e] /\ (e # d \/ p # q)
    BY <1>8, <1>11, Zenon
  <2>3. Waits(t, e, p)
    BY <1>1, <2>2, Zenon DEF FlagsOK
  <2> QED BY <1>13, <2>1, <2>2, <2>3, Zenon
<1>15. RibqOK(u)
  BY <1>10, <1>11, Zenon DEF RibqOK
<1>16. u \in Sound
  BY <1>12, <1>14, <1>15, Zenon DEF Sound
<1> QED BY <1>3, <1>4, <1>9, <1>11, <1>13, <1>16 DEF u, d

\* q is the first sub-queue with an entry.
FirstQueue(t, q) ==
    /\ q \in SubQueues
    /\ t.subq[q] # <<>>
    /\ \A p \in SubQueues : p < q => t.subq[p] = <<>>

\* The invariant of the queues over the processing of a destination.  When its
\* connected entry is selected or unselected, whatever depends on it still waits
\* in a later sub-queue.
LEMMA PoppedQueues ==
  ASSUME NEW t, NEW up, Queues(t, up), NEW q, FirstQueue(t, q), NEW ks,
         Unlinked(t, up, Head(t.subq[q]), ks)
  PROVE  Queues(Popped(t, q, ks), up)
<1> DEFINE u == Popped(t, q, ks)
           d == Head(t.subq[q])
<1>1. t \in Sound /\ RemovedOK(t) /\ Gates(t, up) /\ Settles(t, up)
  BY Zenon DEF Queues
<1>20. q \in SubQueues /\ t.subq[q] # <<>> /\ ks \in Seq(Rib)
  BY ZenonT(30) DEF FirstQueue, Unlinked
<1>2. /\ d \in Dests /\ Waits(t, d, q) /\ u \in Sound /\ u.routes[d] = ks
      /\ \A e \in Dests : e # d => u.routes[e] = t.routes[e]
      /\ \A e \in Dests, p \in SubQueues : e # d \/ p # q => (Waits(u, e, p) <=> Waits(t, e, p))
  BY <1>1, <1>20, PoppedIs
<1>21. Unlinked(t, up, d, ks)
  BY Zenon
<1> HIDE DEF u, d
<1>3. \A e \in Dests : e # d => (Queued(u, e) <=> Queued(t, e))
  BY <1>2, Zenon DEF Queued
<1>4. RemovedOK(u)
  BY <1>1, <1>2, <1>3, <1>21, Zenon DEF RemovedOK, Unlinked
<1>5. ~Pending(u, up, d)
  BY <1>2, <1>21, Zenon DEF Pending, Unlinked
<1>6. \A c \in Dests : Pending(u, up, c) => c # d /\ Pending(t, up, c)
  BY <1>2, <1>5, Zenon DEF Pending
<1>7. Gates(u, up)
  <2> SUFFICES ASSUME NEW c \in Dests, Pending(u, up, c)
               PROVE  /\ Waits(u, c, 0)
                      /\ \A e \in Dests : \A n \in DOMAIN u.routes[e] :
                            ~u.routes[e][n].removed /\ u.routes[e][n].type # "connect" =>
                               \E p \in 1..4 : Waits(u, e, p)
    BY Zenon DEF Gates
  <2>1. c # d /\ Pending(t, up, c)
    BY <1>6, Zenon
  <2>2. /\ Waits(t, c, 0)
        /\ \A e \in Dests : \A n \in DOMAIN t.routes[e] :
              ~t.routes[e][n].removed /\ t.routes[e][n].type # "connect" =>
                 \E p \in 1..4 : Waits(t, e, p)
    BY <1>1, <2>1, Zenon DEF Gates
  <2>3. 0 \in SubQueues /\ 1..4 \subseteq SubQueues
    BY SMTT(30) DEF SubQueues
  <2>4. t.subq[0] # <<>>
    BY <2>2 DEF Waits
  <2>5. q = 0
    BY <2>3, <2>4 DEF SubQueues, FirstQueue
  <2>6. Waits(u, c, 0)
    BY <1>2, <2>1, <2>2, <2>3, Zenon
  <2>7. ASSUME NEW e \in Dests, NEW n \in DOMAIN u.routes[e],
               ~u.routes[e][n].removed, u.routes[e][n].type # "connect"
        PROVE  \E p \in 1..4 : Waits(u, e, p)
    <3>1. \E m \in DOMAIN t.routes[e] : ~t.routes[e][m].removed /\ t.routes[e][m].type # "connect"
      <4>1. CASE e = d
        BY <1>2, <1>21, <2>7, <4>1, Zenon DEF Unlinked
      <4>2. CASE e # d
        BY <1>2, <2>7, <4>2, Zenon
      <4> QED BY <4>1, <4>2, Zenon
    <3>2. PICK p \in 1..4 : Waits(t, e, p)
      BY <2>2, <3>1, Zenon
    <3>3. p # q /\ p \in SubQueues
      BY <2>3, <2>5
    <3>4. Waits(u, e, p)
      BY <1>2, <3>2, <3>3, Zenon
    <3> QED BY <3>4, ZenonT(30)
  <2> QED BY <2>6, <2>7, Zenon
<1>8. Settles(u, up)
  <2> SUFFICES ASSUME NEW e \in Dests, ~Queued(u, e) PROVE Decided(u, up, e, u.routes[e])
    BY Zenon DEF Settles
  <2>1. CASE e = d
    <3>1. \A c \in Dests : c # e => (HasConn(u.routes[c]) <=> HasConn(t.routes[c]))
      BY <1>2, <2>1, Zenon
    <3>2. Decided(u, up, e, ks)
      BY <1>20, <1>21, <2>1, <3>1, DecidedSame, Zenon DEF Unlinked
    <3> QED BY <1>2, <2>1, <3>2, Zenon
  <2>2. CASE e # d
    <3>1. ~Queued(t, e) /\ u.routes[e] = t.routes[e]
      BY <1>2, <1>3, <2>2, Zenon
    <3>2. Decided(t, up, e, t.routes[e])
      BY <1>1, <3>1, Zenon DEF Settles
    <3>3. t.routes[e] \in Seq(Rib)
      BY <1>1, TableParts, Zenon DEF Sound
    <3>4. CASE HasConn(ks) <=> HasConn(t.routes[d])
      <4>1. \A c \in Dests : c # e => (HasConn(u.routes[c]) <=> HasConn(t.routes[c]))
        BY <1>2, <3>4, Zenon
      <4>2. Decided(u, up, e, t.routes[e])
        BY <3>2, <3>3, <4>1, DecidedSame, Zenon
      <4> QED BY <3>1, <4>2, Zenon
    <3>5. CASE ~(HasConn(ks) <=> HasConn(t.routes[d]))
      <4>1. Pending(t, up, d)
        BY <1>21, <3>5, ZenonT(30) DEF Pending, Unlinked
      <4>2. \A n \in DOMAIN t.routes[e] : t.routes[e][n].removed \/ t.routes[e][n].type = "connect"
        <5>1. 1..4 \subseteq SubQueues
          BY DEF SubQueues
        <5>2. ~(\E p \in 1..4 : Waits(t, e, p))
          BY <3>1, <5>1, ZenonT(30) DEF Queued
        <5> QED BY <1>1, <1>2, <4>1, <5>2, ZenonT(30) DEF Gates
      <4>3. Decided(u, up, e, t.routes[e])
        BY <3>2, <3>3, <4>2, DecidedSame
      <4> QED BY <3>1, <4>3, Zenon
    <3> QED BY <3>4, <3>5, Zenon
  <2> QED BY <2>1, <2>2, Zenon
<1>9. Queues(u, up)
  BY <1>2, <1>4, <1>7, <1>8, Zenon DEF Queues
<1> QED BY <1>9, Zenon DEF u

-----------------------------------------------------------------------------
(* The invariant, and how it is kept.                                      *)

\* The entries rs of a destination, the kernel's routes of it and what the
\* client has been told of it belong together.
RowOK(rs, ks, ts, asked) ==
    One(rs) /\ NoKernel(rs) /\ KernOK(rs, ks) /\ ts = SelTypes(rs) \cap asked

RowsOK == \A d \in Dests : RowOK(table.routes[d], kernel[d], told[d], redist)

LinesOK == \A s \in statics : HasLine(table.routes[s.dest], s.nh)

IInv == TypeOK /\ Queues(table, ifup) /\ RowsOK /\ LinesOK

\* u is t with changes to entries of the type, and these are queued.
Evolves(t, u, type) ==
    /\ u \in Sound
    /\ Grows(t, u)
    /\ \A d \in Dests :
          /\ \E k : Shifted(t.routes[d], u.routes[d], k, type)
          /\ u.routes[d] = t.routes[d] \/ Flagged(u, d)

\* No change is a shift by none.
LEMMA SelfShifted ==
  ASSUME NEW rs \in Seq(Rib), NEW type
  PROVE  Shifted(rs, rs, 0, type)
BY DEF Shifted

\* Replacing the entries of one destination is a change of its type.
LEMMA RequeuedEvolves ==
  ASSUME NEW t \in Sound, NEW d \in Dests, NEW rs, NEW k, NEW type,
         Shifted(t.routes[d], rs, k, type)
  PROVE  /\ Evolves(t, Requeued(t, d, rs), type)
         /\ Requeued(t, d, rs).routes = [t.routes EXCEPT ![d] = rs]
<1> DEFINE u == Requeued(t, d, rs)
<1>1. rs \in Seq(Rib) /\ t \in Tables
  BY Zenon DEF Shifted, Sound
<1>2. t.routes \in [Dests -> Seq(Rib)]
  BY <1>1, TableParts, Zenon
<1>3. Changes(t, d, rs, u)
  BY <1>1, Change, Zenon
<1> HIDE DEF u
<1>4. /\ u \in Sound /\ u.routes = [t.routes EXCEPT ![d] = rs] /\ Grows(t, u) /\ Flagged(u, d)
  BY <1>3, Zenon DEF Changes
<1>5. ASSUME NEW e \in Dests
      PROVE  /\ \E j : Shifted(t.routes[e], u.routes[e], j, type)
             /\ u.routes[e] = t.routes[e] \/ Flagged(u, e)
  <2>1. CASE e = d
    BY <1>2, <1>4, <2>1, Zenon
  <2>2. CASE e # d
    <3>1. u.routes[e] = t.routes[e] /\ t.routes[e] \in Seq(Rib)
      BY <1>2, <1>4, <2>2, Zenon
    <3> QED BY <3>1, SelfShifted, Zenon
  <2> QED BY <2>1, <2>2, Zenon
<1>6. Evolves(t, u, type)
  BY <1>4, <1>5, Zenon DEF Evolves
<1> QED BY <1>4, <1>6, Zenon DEF u

\* A change to entries of another type leaves the connected ones alone.
LEMMA EvolvesQuiet ==
  ASSUME NEW t \in Sound, NEW u, NEW type, type # "connect", type # "kernel",
         Evolves(t, u, type), \A d \in Dests : NoKernel(t.routes[d])
  PROVE  Quiet(t, u)
<1>1. u \in Sound /\ Grows(t, u)
  BY Zenon DEF Evolves
<1>2. ASSUME NEW d \in Dests, u.routes[d] # t.routes[d]
      PROVE  /\ Flagged(u, d)
             /\ u.routes[d] = <<>> => t.routes[d] = <<>>
             /\ NoKernel(u.routes[d])
             /\ HasConn(u.routes[d]) <=> HasConn(t.routes[d])
             /\ \A up : WantConn(u.routes[d], up) <=> WantConn(t.routes[d], up)
  <2>1. PICK k : Shifted(t.routes[d], u.routes[d], k, type)
    BY Zenon DEF Evolves
  <2>2. Flagged(u, d)
    BY <1>2, Zenon DEF Evolves
  <2>3. t.routes[d] \in Seq(Rib)
    BY TableParts, Zenon DEF Sound
  <2>4. NoKernel(u.routes[d])
    BY <2>1, <2>3, ShiftedKernel, Zenon
  <2>5. HasConn(u.routes[d]) <=> HasConn(t.routes[d])
    BY <2>1, <2>3, ShiftedConn, Zenon
  <2>6. \A up : WantConn(u.routes[d], up) <=> WantConn(t.routes[d], up)
    BY <2>1, <2>3, ShiftedConn, Zenon
  <2>7. u.routes[d] = <<>> => t.routes[d] = <<>>
    <3>1. k \in {0, 1} /\ Len(u.routes[d]) = Len(t.routes[d]) + k
      BY <2>1, Zenon DEF Shifted
    <3> QED BY <2>3, <3>1
  <2> QED BY <2>2, <2>4, <2>5, <2>6, <2>7, Zenon
<1> QED BY <1>1, <1>2, Zenon DEF Quiet

\* A change that shifts the entries keeps a destination in order.
LEMMA ShiftedRow ==
  ASSUME NEW old \in Seq(Rib), NEW rs, NEW k, NEW type, type # "kernel",
         Shifted(old, rs, k, type), NEW ks, NEW ts, NEW asked, RowOK(old, ks, ts, asked)
  PROVE  RowOK(rs, ks, ts, asked)
<1>1. One(old) /\ NoKernel(old) /\ KernOK(old, ks) /\ ts = SelTypes(old) \cap asked
  BY Zenon DEF RowOK
<1>2. One(rs) /\ SelTypes(rs) = SelTypes(old) /\ KernOK(rs, ks)
  BY <1>1, ShiftedKeeps, Zenon
<1>3. NoKernel(rs)
  BY <1>1, ShiftedKernel, Zenon
<1> QED BY <1>1, <1>2, <1>3, Zenon DEF RowOK

\* An ordinary change keeps all of the invariant but the static lines.
LEMMA EvolvesKeeps ==
  ASSUME IInv, NEW type, type # "connect", type # "kernel", Evolves(table, table', type),
         ifup' = ifup, kernel' = kernel, redist' = redist, told' = told
  PROVE  /\ table' \in Tables
         /\ Queues(table', ifup')
         /\ RowsOK'
<1>1. Queues(table, ifup) /\ RowsOK
  BY Zenon DEF IInv
<1>2. table \in Sound
  BY <1>1, Zenon DEF Queues
<1>3. \A d \in Dests : table.routes[d] \in Seq(Rib)
  BY <1>2, TableParts, Zenon DEF Sound
<1>4. \A d \in Dests : NoKernel(table.routes[d])
  BY <1>1, Zenon DEF RowsOK, RowOK
<1>5. Quiet(table, table')
  BY <1>2, <1>4, EvolvesQuiet, Zenon
<1>6. Queues(table', ifup)
  BY <1>1, <1>5, QuietQueues, Zenon
<1>7. table' \in Tables
  BY <1>6, Zenon DEF Queues, Sound
<1>8. ASSUME NEW d \in Dests PROVE RowOK(table'.routes[d], kernel[d], told[d], redist)
  <2>1. PICK k : Shifted(table.routes[d], table'.routes[d], k, type)
    BY Zenon DEF Evolves
  <2>2. RowOK(table.routes[d], kernel[d], told[d], redist)
    BY <1>1, Zenon DEF RowsOK
  <2> QED BY <1>3, <2>1, <2>2, ShiftedRow, Zenon
<1> QED BY <1>6, <1>7, <1>8, Zenon DEF RowsOK

\* ... and these too, unless the entries are static ones.
LEMMA EvolvesLines ==
  ASSUME IInv, NEW type, type # "static", Evolves(table, table', type), statics' = statics
  PROVE  LinesOK'
<1>1. table \in Sound /\ statics \subseteq StaticRoutes /\ LinesOK
  BY Zenon DEF IInv, Queues, TypeOK
<1>2. ASSUME NEW s \in statics PROVE HasLine(table'.routes[s.dest], s.nh)
  <2>1. s.dest \in Dests
    BY <1>1, ZebraAssumption, Zenon
  <2>2. table.routes[s.dest] \in Seq(Rib)
    BY <1>1, <2>1, TableParts DEF Sound
  <2>3. PICK k : Shifted(table.routes[s.dest], table'.routes[s.dest], k, type)
    BY <2>1, Zenon DEF Evolves
  <2>4. HasLine(table.routes[s.dest], s.nh)
    BY <1>1, Zenon DEF LinesOK
  <2> QED BY <2>2, <2>3, <2>4, ShiftedLine, Zenon
<1> QED BY <1>2, Zenon DEF LinesOK

\* The type invariant is about the rest.
LEMMA TypeIs ==
  ASSUME table' \in Tables, ifup' \subseteq Ifs, statics' \subseteq StaticRoutes,
         kernel' \in [Dests -> SUBSET (SUBSET Ifs)], redist' \subseteq RouteTypes,
         told' \in [Dests -> SUBSET RouteTypes]
  PROVE  TypeOK'
BY Zenon DEF TypeOK, Tables

\* A change to the entries of a daemon keeps the invariant.
LEMMA EvolvesInvariant ==
  ASSUME IInv, NEW type, type # "connect", type # "kernel", type # "static",
         Evolves(table, table', type), UNCHANGED <<ifup, statics, kernel, redist, told>>
  PROVE  IInv'
<1>1. /\ ifup' = ifup /\ statics' = statics /\ kernel' = kernel /\ redist' = redist /\ told' = told
  BY Zenon
<1>2. table' \in Tables /\ Queues(table', ifup') /\ RowsOK'
  BY <1>1, EvolvesKeeps, Zenon
<1>3. LinesOK'
  BY <1>1, EvolvesLines, Zenon
<1>4. TypeOK'
  BY <1>1, <1>2, TypeIs, Zenon DEF IInv, TypeOK
<1> QED BY <1>2, <1>3, <1>4, Zenon DEF IInv

-----------------------------------------------------------------------------
(* The actions.                                                            *)

\* meta_queue_process keeps the invariant.
LEMMA StepProcess ==
  ASSUME Counting, IInv, Process
  PROVE  IInv'
<1>1. TypeOK /\ Queues(table, ifup) /\ RowsOK /\ LinesOK
  BY Zenon DEF IInv
<1>2. PICK q \in SubQueues, ok \in BOOLEAN :
         /\ table.subq[q] # <<>>
         /\ \A p \in SubQueues : p < q => table.subq[p] = <<>>
         /\ LET d == Head(table.subq[q])
                x == rib_process(table, d, ok)
            IN  /\ table' = Popped(table, q, Kept(x.routes))
                /\ kernel' = [kernel EXCEPT ![d] = x.kernel]
                /\ told' = [told EXCEPT ![d] = x.told]
  BY Zenon DEF Process, Popped
<1>3. ifup' = ifup /\ statics' = statics /\ redist' = redist
  BY Zenon DEF Process
<1> DEFINE d == Head(table.subq[q])
           x == rib_process(table, d, ok)
           ks == Kept(x.routes)
           old == table.routes[d]
<1>4. FirstQueue(table, q)
  BY <1>2, Zenon DEF FirstQueue
<1>5. table' = Popped(table, q, ks) /\ kernel' = [kernel EXCEPT ![d] = x.kernel]
      /\ told' = [told EXCEPT ![d] = x.told]
  BY <1>2, Zenon
<1>6. /\ table \in Sound /\ table \in Tables
      /\ kernel \in [Dests -> SUBSET (SUBSET Ifs)] /\ told \in [Dests -> SUBSET RouteTypes]
  BY <1>1, Zenon DEF Queues, Sound, TypeOK
<1>7. d \in Dests
  <2>1. table.subq[q] \in Seq(Dests) /\ table.subq[q] # <<>>
    BY <1>2, <1>6, TableParts
  <2> QED BY <2>1
<1>8. RowOK(old, kernel[d], told[d], redist)
  BY <1>1, <1>7, Zenon DEF RowsOK
<1>9. /\ One(old) /\ NoKernel(old) /\ KernOK(old, kernel[d])
      /\ told[d] = SelTypes(old) \cap redist
  BY <1>8, ZenonT(30) DEF RowOK
<1>10. /\ ks \in Seq(Rib)
       /\ One(ks) /\ NoKernel(ks)
       /\ KernOK(ks, x.kernel)
       /\ x.told = SelTypes(ks) \cap redist
       /\ Decided(table, ifup, d, ks)
       /\ HasConn(ks) <=> WantConn(ks, ifup)
       /\ WantConn(ks, ifup) <=> WantConn(old, ifup)
       /\ \A nh : HasLine(old, nh) => HasLine(ks, nh)
       /\ \A n \in DOMAIN ks :
             /\ ~ks[n].removed
             /\ \E m \in DOMAIN old : ~old[m].removed /\ old[m].type = ks[n].type
  <2> HIDE DEF d
  <2>1. Processed(table, d, x)
    BY <1>6, <1>7, <1>9, ProcessedList, Zenon
  <2> QED BY <2>1, Zenon DEF Processed, Unlinked
<1>11. Unlinked(table, ifup, d, ks)
  BY <1>10, Zenon DEF Unlinked
<1>12. Queues(table', ifup')
  <2> HIDE DEF ks
  <2> QED BY <1>1, <1>3, <1>4, <1>5, <1>11, PoppedQueues, Zenon
<1>13. /\ table'.routes[d] = ks
       /\ \A e \in Dests : e # d => table'.routes[e] = table.routes[e]
  <2> DEFINE u == Popped(table, q, ks)
  <2>1. table.subq[q] # <<>> /\ ks \in Seq(Rib)
    BY <1>4, <1>10, Zenon DEF FirstQueue
  <2>2. /\ u.routes[Head(table.subq[q])] = ks
        /\ \A e \in Dests : e # Head(table.subq[q]) => u.routes[e] = table.routes[e]
    <3> HIDE DEF ks
    <3> QED BY <1>6, <2>1, PoppedIs, ZenonT(30)
  <2>3. table' = u
    BY <1>5, Zenon
  <2> HIDE DEF u, ks
  <2> QED BY <2>2, <2>3, Zenon
<1> HIDE DEF ks, x, d, old
<1>14. ASSUME NEW e \in Dests PROVE RowOK(table'.routes[e], kernel'[e], told'[e], redist')
  <2>1. CASE e = d
    <3>1. table'.routes[e] = ks /\ kernel'[e] = x.kernel /\ told'[e] = x.told
      BY <1>5, <1>6, <1>7, <1>13, <2>1, Zenon
    <3> QED BY <1>3, <1>10, <3>1 DEF RowOK
  <2>2. CASE e # d
    <3>1. table'.routes[e] = table.routes[e] /\ kernel'[e] = kernel[e] /\ told'[e] = told[e]
      BY <1>5, <1>6, <1>13, <2>2, Zenon
    <3> QED BY <1>1, <1>3, <3>1, Zenon DEF RowsOK
  <2> QED BY <2>1, <2>2, Zenon
<1>15. ASSUME NEW s \in statics PROVE HasLine(table'.routes[s.dest], s.nh)
  <2>1. s.dest \in Dests
    BY <1>1, ZebraAssumption DEF TypeOK
  <2>2. HasLine(table.routes[s.dest], s.nh)
    BY <1>1, Zenon DEF LinesOK
  <2>3. CASE s.dest = d
    BY <1>10, <1>13, <2>2, <2>3, Zenon DEF old
  <2>4. CASE s.dest # d
    BY <1>13, <2>1, <2>2, <2>4, ZenonT(30)
  <2> QED BY <2>3, <2>4, Zenon
<1>16. TypeOK'
  <2>1. table' \in Tables
    BY <1>12, ZenonT(30) DEF Queues, Sound
  <2>2. x.kernel \in SUBSET (SUBSET Ifs)
    <3>1. \A n \in DOMAIN ks : ks[n] \in Rib
      BY <1>10
    <3>2. \A n \in DOMAIN ks : ks[n].fib \in SUBSET Ifs
      BY <3>1, Zenon DEF Rib
    <3> HIDE DEF ks, x
    <3> QED BY <1>10, <3>2, SMTT(30) DEF KernOK, Selected
  <2>3. x.told \in SUBSET RouteTypes
    <3>1. redist \subseteq RouteTypes
      BY <1>1, Zenon DEF TypeOK
    <3> QED BY <1>10, <3>1, Zenon
  <2>4. kernel' \in [Dests -> SUBSET (SUBSET Ifs)] /\ told' \in [Dests -> SUBSET RouteTypes]
    BY <1>5, <1>6, <2>2, <2>3, Zenon
  <2> QED BY <1>1, <1>3, <2>1, <2>4, TypeIs DEF TypeOK
<1>17. RowsOK' /\ LinesOK'
  BY <1>3, <1>14, <1>15, Zenon DEF RowsOK, LinesOK
<1> QED BY <1>12, <1>16, <1>17, Zenon DEF IInv

\* zread_ipv4_add keeps the invariant.
LEMMA StepClientAdd ==
  ASSUME IInv, NEW c \in ClientRoutes, ClientAdd(c)
  PROVE  IInv'
<1>1. /\ c.type \in RouteTypes /\ c.type # "connect" /\ c.type # "kernel" /\ c.type # "static"
      /\ c.dest \in Dests /\ c.nhs \in SUBSET Ifs
  BY ZebraAssumption, Zenon DEF RouteTypes
<1>2. table \in Sound
  BY Zenon DEF IInv, Queues
<1>3. /\ table' = rib_add_ipv4(table, c.dest, NewRib(c.type, c.nhs))
      /\ UNCHANGED <<ifup, statics, kernel, redist, told>>
  BY Zenon DEF ClientAdd
<1>4. PICK rs : /\ table' = Requeued(table, c.dest, rs)
                /\ Shifted(table.routes[c.dest], rs, 1, c.type)
  BY <1>1, <1>2, <1>3, AddShifted, Zenon
<1>5. Evolves(table, table', c.type)
  BY <1>1, <1>2, <1>4, RequeuedEvolves, Zenon
<1> QED BY <1>1, <1>3, <1>5, EvolvesInvariant, Zenon

\* rib_delnode of entries of a type.
LEMMA DelnodeEvolves ==
  ASSUME NEW t \in Sound, NEW d \in Dests, NEW N, NEW type,
         \A n \in N : n \in DOMAIN t.routes[d] /\ t.routes[d][n].type = type
  PROVE  /\ Evolves(t, rib_delnode(t, d, N), type)
         /\ rib_delnode(t, d, N).routes = [t.routes EXCEPT ![d] = Marked(t.routes[d], N)]
<1> DEFINE u == rib_delnode(t, d, N)
           rs == Marked(t.routes[d], N)
<1>1. /\ Shifted(t.routes[d], rs, 0, type) /\ u \in Sound
      /\ u.routes = [t.routes EXCEPT ![d] = rs] /\ Grows(t, u) /\ (u = t \/ Flagged(u, d))
  <2> HIDE DEF u, rs
  <2>1. PICK v, ms : v = u /\ ms = rs
    BY ZenonT(30)
  <2>2. /\ Shifted(t.routes[d], ms, 0, type) /\ v \in Sound
        /\ v.routes = [t.routes EXCEPT ![d] = ms] /\ Grows(t, v) /\ (v = t \/ Flagged(v, d))
    BY <2>1, Delnode DEF u, rs
  <2> QED BY <2>1, <2>2, Zenon
<1>2. t.routes \in [Dests -> Seq(Rib)]
  BY TableParts, Zenon DEF Sound
<1> HIDE DEF u, rs
<1>3. ASSUME NEW e \in Dests
      PROVE  /\ \E j : Shifted(t.routes[e], u.routes[e], j, type)
             /\ u.routes[e] = t.routes[e] \/ Flagged(u, e)
  <2>1. CASE e = d
    BY <1>1, <1>2, <2>1, Zenon
  <2>2. CASE e # d
    <3>1. u.routes[e] = t.routes[e] /\ t.routes[e] \in Seq(Rib)
      BY <1>1, <1>2, <2>2, Zenon
    <3> QED BY <3>1, SelfShifted, Zenon
  <2> QED BY <2>1, <2>2, Zenon
<1>4. Evolves(t, u, type)
  BY <1>1, <1>3, Zenon DEF Evolves
<1> QED BY <1>1, <1>4, Zenon DEF u, rs

\* zread_ipv4_delete keeps the invariant.
LEMMA StepClientDelete ==
  ASSUME IInv, NEW c \in ClientRoutes, ClientDelete(c)
  PROVE  IInv'
<1>1. /\ c.type # "connect" /\ c.type # "kernel" /\ c.type # "static" /\ c.dest \in Dests
  BY ZebraAssumption, Zenon
<1>2. table \in Sound
  BY Zenon DEF IInv, Queues
<1>3. PICK n \in Live(table, c.dest, c.type) : table' = rib_delnode(table, c.dest, {n})
  BY Zenon DEF ClientDelete
<1>4. \A m \in {n} : m \in DOMAIN table.routes[c.dest] /\ table.routes[c.dest][m].type = c.type
  BY Zenon DEF Live
<1>5. Evolves(table, table', c.type)
  BY <1>1, <1>2, <1>3, <1>4, DelnodeEvolves, Zenon
<1>6. UNCHANGED <<ifup, statics, kernel, redist, told>>
  BY Zenon DEF ClientDelete
<1> QED BY <1>1, <1>5, <1>6, EvolvesInvariant, Zenon

\* zebra_client_close keeps the invariant.
LEMMA StepClientClose ==
  ASSUME Counting, IInv, NEW type \in ClientTypes, ClientClose(type)
  PROVE  IInv'
<1>1. type # "connect" /\ type # "kernel" /\ type # "static"
  BY ZebraAssumption, Zenon
<1>2. table \in Sound
  BY Zenon DEF IInv, Queues
<1>3. table' = rib_score_proto(table, type) /\ UNCHANGED <<ifup, statics, kernel, redist, told>>
  BY Zenon DEF ClientClose
<1>4. /\ table' \in Sound /\ Grows(table, table')
      /\ \A d \in Dests : /\ Shifted(table.routes[d], table'.routes[d], 0, type)
                          /\ table'.routes[d] = table.routes[d] \/ Flagged(table', d)
  BY <1>2, <1>3, Score, Zenon
<1>5. Evolves(table, table', type)
  BY <1>4, Zenon DEF Evolves
<1> QED BY <1>1, <1>3, <1>5, EvolvesInvariant, Zenon

\* The table stays as it is.
LEMMA StepRedistribute ==
  ASSUME IInv, NEW type \in RedistTypes, RedistributeAdd(type) \/ RedistributeDelete(type)
  PROVE  IInv'
<1>1. /\ table' = table /\ ifup' = ifup /\ statics' = statics /\ kernel' = kernel
  BY Zenon DEF RedistributeAdd, RedistributeDelete
<1>2. TypeOK /\ Queues(table, ifup) /\ RowsOK /\ LinesOK
  BY Zenon DEF IInv
<1>3. type \in RouteTypes
  BY ZebraAssumption, Zenon
<1>4. redist' \subseteq RouteTypes /\ told' \in [Dests -> SUBSET RouteTypes]
  <2>1. redist \subseteq RouteTypes /\ told \in [Dests -> SUBSET RouteTypes]
    BY <1>2, Zenon DEF TypeOK
  <2>2. CASE RedistributeAdd(type)
    BY <1>3, <2>1, <2>2, Zenon DEF RedistributeAdd
  <2>3. CASE RedistributeDelete(type)
    BY <1>3, <2>1, <2>3, Zenon DEF RedistributeDelete
  <2> QED BY <2>2, <2>3, Zenon
<1>5. ASSUME NEW d \in Dests PROVE told'[d] = SelTypes(table.routes[d]) \cap redist'
  <2>1. told[d] = SelTypes(table.routes[d]) \cap redist
    BY <1>2, Zenon DEF RowsOK, RowOK
  <2>2. CASE RedistributeAdd(type)
    <3>1. redist' = redist \cup {type} /\ type \notin redist
      BY <2>2, Zenon DEF RedistributeAdd
    <3>2. told'[d] = IF \E n \in Selected(table.routes[d]) : table.routes[d][n].type = type
                     THEN told[d] \cup {type} ELSE told[d]
      BY <2>2, Zenon DEF RedistributeAdd
    <3>3. (\E n \in Selected(table.routes[d]) : table.routes[d][n].type = type)
             <=> type \in SelTypes(table.routes[d])
      BY Zenon DEF SelTypes
    <3> QED BY <2>1, <3>1, <3>2, <3>3, Zenon
  <2>3. CASE RedistributeDelete(type)
    <3>1. redist' = redist \ {type} /\ told'[d] = told[d] \ {type}
      BY <2>3, Zenon DEF RedistributeDelete
    <3> QED BY <2>1, <3>1, Zenon
  <2> QED BY <2>2, <2>3, Zenon
<1>6. RowsOK'
  BY <1>1, <1>2, <1>5, Zenon DEF RowsOK, RowOK
<1>7. LinesOK' /\ Queues(table', ifup')
  BY <1>1, <1>2, Zenon DEF LinesOK
<1>8. TypeOK'
  BY <1>1, <1>2, <1>4, Zenon DEF TypeOK
<1> QED BY <1>6, <1>7, <1>8, Zenon DEF IInv

\* Interfaces: a connected entry comes or goes, and everything is queued.
LEMMA ConnectKeeps ==
  ASSUME Counting, IInv, NEW w, NEW type, type = "connect", Evolves(table, w, type),
         table' = rib_update(w), ifup' \subseteq Ifs, statics' = statics, redist' = redist,
         told' = told, kernel' \in [Dests -> SUBSET (SUBSET Ifs)],
         \A d \in Dests : kernel'[d] \subseteq kernel[d]
  PROVE  IInv'
<1>1. TypeOK /\ Queues(table, ifup) /\ RowsOK /\ LinesOK
  BY Zenon DEF IInv
<1>2. table \in Sound /\ statics \subseteq StaticRoutes
  BY <1>1, Zenon DEF Queues, TypeOK
<1>3. \A d \in Dests : table.routes[d] \in Seq(Rib)
  BY <1>2, TableParts, Zenon DEF Sound
<1>4. w \in Sound /\ \A d \in Dests : \E k : Shifted(table.routes[d], w.routes[d], k, type)
  BY Zenon DEF Evolves
<1>5. table' \in Sound /\ table'.routes = w.routes /\ \A d \in Dests : Flagged(table', d)
  BY <1>4, Update, Zenon
<1>6. ASSUME NEW d \in Dests PROVE RowOK(table'.routes[d], kernel'[d], told'[d], redist')
  <2>1. PICK k : Shifted(table.routes[d], w.routes[d], k, type)
    BY <1>4, Zenon
  <2>2. RowOK(table.routes[d], kernel[d], told[d], redist)
    BY <1>1, Zenon DEF RowsOK
  <2>3. RowOK(w.routes[d], kernel[d], told[d], redist)
    BY <1>3, <2>1, <2>2, ShiftedRow, Zenon
  <2>4. RowOK(w.routes[d], kernel'[d], told[d], redist)
    BY <2>3, Zenon DEF RowOK, KernOK
  <2> QED BY <1>5, <2>4, Zenon
<1>7. ASSUME NEW s \in statics PROVE HasLine(table'.routes[s.dest], s.nh)
  <2>1. s.dest \in Dests
    BY <1>2, ZebraAssumption, Zenon
  <2>2. PICK k : Shifted(table.routes[s.dest], w.routes[s.dest], k, type)
    BY <1>4, <2>1, Zenon
  <2>3. HasLine(table.routes[s.dest], s.nh)
    BY <1>1, Zenon DEF LinesOK
  <2>4. HasLine(w.routes[s.dest], s.nh)
    BY <1>3, <2>1, <2>2, <2>3, ShiftedLine, Zenon
  <2> QED BY <1>5, <2>4, Zenon
<1>8. Queues(table', ifup')
  <2>1. \A d \in Dests : NoKernel(table'.routes[d])
    BY <1>6, Zenon DEF RowOK
  <2> QED BY <1>5, <2>1, FlaggedQueues, Zenon
<1>9. TypeOK'
  <2>1. table' \in Tables
    BY <1>5, Zenon DEF Sound
  <2> QED BY <1>1, <2>1, TypeIs, Zenon DEF TypeOK
<1>10. RowsOK' /\ LinesOK'
  BY <1>6, <1>7, Zenon DEF RowsOK, LinesOK
<1> QED BY <1>8, <1>9, <1>10, Zenon DEF IInv

\* if_up keeps the invariant.
LEMMA StepInterfaceUp ==
  ASSUME Counting, IInv, NEW i \in Ifs, InterfaceUp(i)
  PROVE  IInv'
<1> DEFINE w == rib_add_ipv4(table, ConnOf[i], NewRib("connect", {i}))
<1>1. /\ ifup' = ifup \cup {i} /\ table' = rib_update(w)
      /\ statics' = statics /\ kernel' = kernel /\ redist' = redist /\ told' = told
  BY Zenon DEF InterfaceUp
<1>2. TypeOK /\ table \in Sound
  BY Zenon DEF IInv, Queues
<1>3. ConnOf[i] \in Dests /\ {i} \in SUBSET Ifs /\ "connect" \in RouteTypes
  BY ZebraAssumption, Zenon DEF RouteTypes
<1>4. PICK type \in RouteTypes : type = "connect"
  BY <1>3, Zenon
<1>5. PICK rs : /\ w = Requeued(table, ConnOf[i], rs)
                /\ Shifted(table.routes[ConnOf[i]], rs, 1, type)
  BY <1>2, <1>3, <1>4, AddShifted, Zenon
<1> HIDE DEF w
<1>6. Evolves(table, w, type)
  BY <1>2, <1>3, <1>5, RequeuedEvolves, Zenon
<1>7. ifup' \subseteq Ifs /\ kernel' \in [Dests -> SUBSET (SUBSET Ifs)]
  BY <1>1, <1>2, Zenon DEF TypeOK
<1>8. \A d \in Dests : kernel'[d] \subseteq kernel[d]
  BY <1>1, Zenon
<1> QED BY <1>1, <1>4, <1>6, <1>7, <1>8, ConnectKeeps

\* if_down keeps the invariant.
LEMMA StepInterfaceDown ==
  ASSUME Counting, IInv, NEW i \in Ifs, InterfaceDown(i)
  PROVE  IInv'
<1> DEFINE c == ConnOf[i]
           N == {n \in Live(table, c, "connect") : table.routes[c][n].nhs = {i}}
           w == rib_delnode(table, c, N)
<1>1. /\ ifup' = ifup \ {i} /\ table' = rib_update(w)
      /\ kernel' = [d \in Dests |-> {ks \in kernel[d] : ks \cap (ifup \ {i}) # {}}]
      /\ statics' = statics /\ redist' = redist /\ told' = told
  BY Zenon DEF InterfaceDown
<1>2. TypeOK /\ table \in Sound
  BY Zenon DEF IInv, Queues
<1>3. c \in Dests
  BY ZebraAssumption, Zenon
<1>4. PICK type : type = "connect"
  BY Zenon
<1>5. \A n \in N : n \in DOMAIN table.routes[c] /\ table.routes[c][n].type = type
  BY <1>4, Zenon DEF Live
<1>6. Evolves(table, w, type)
  <2> HIDE DEF N, c
  <2> QED BY <1>2, <1>3, <1>5, DelnodeEvolves, Zenon
<1> HIDE DEF w
<1>7. ifup' \subseteq Ifs /\ kernel \in [Dests -> SUBSET (SUBSET Ifs)]
  BY <1>1, <1>2, Zenon DEF TypeOK
<1>8. kernel' \in [Dests -> SUBSET (SUBSET Ifs)] /\ \A d \in Dests : kernel'[d] \subseteq kernel[d]
  BY <1>1, <1>7, Zenon
<1> QED BY <1>1, <1>4, <1>6, <1>7, <1>8, ConnectKeeps

\* static_add_ipv4_safi keeps the invariant.
LEMMA StepStaticAdd ==
  ASSUME IInv, NEW s \in StaticRoutes, StaticAdd(s)
  PROVE  IInv'
<1>1. /\ statics' = statics \cup {s} /\ table' = static_install_ipv4(table, s)
      /\ ifup' = ifup /\ kernel' = kernel /\ redist' = redist /\ told' = told
  BY Zenon DEF StaticAdd
<1>2. TypeOK /\ table \in Sound /\ LinesOK /\ statics \subseteq StaticRoutes
  BY Zenon DEF IInv, Queues, TypeOK
<1>3. s.dest \in Dests /\ \A r \in statics : r.dest \in Dests
  BY <1>2, ZebraAssumption, Zenon
<1>4. PICK rs, k : /\ Shifted(table.routes[s.dest], rs, k, "static")
                   /\ table' = Requeued(table, s.dest, rs)
                   /\ HasLine(rs, s.nh)
                   /\ \A nh : HasLine(table.routes[s.dest], nh) => HasLine(rs, nh)
  BY <1>1, <1>2, StaticInstall, Zenon
<1>5. PICK type : type = "static"
  BY Zenon
<1>6. Shifted(table.routes[s.dest], rs, k, type)
  BY <1>4, <1>5, ZenonT(30)
<1>7. Evolves(table, table', type) /\ table'.routes = [table.routes EXCEPT ![s.dest] = rs]
  BY <1>2, <1>3, <1>4, <1>6, RequeuedEvolves
<1>8. table' \in Tables /\ Queues(table', ifup') /\ RowsOK'
  BY <1>1, <1>5, <1>7, EvolvesKeeps, Zenon
<1>9. table.routes \in [Dests -> Seq(Rib)]
  BY <1>2, TableParts, Zenon DEF Sound
<1>10. ASSUME NEW r \in statics' PROVE HasLine(table'.routes[r.dest], r.nh)
  <2>1. table'.routes[s.dest] = rs
    BY <1>3, <1>7, <1>9, Zenon
  <2>2. CASE r = s
    BY <1>4, <2>1, <2>2, Zenon
  <2>3. CASE r # s
    <3>1. r \in statics /\ r.dest \in Dests
      BY <1>1, <1>3, <2>3, Zenon
    <3>2. HasLine(table.routes[r.dest], r.nh)
      BY <1>2, <3>1, Zenon DEF LinesOK
    <3>3. CASE r.dest = s.dest
      BY <1>4, <2>1, <3>2, <3>3, Zenon
    <3>4. CASE r.dest # s.dest
      BY <1>7, <1>9, <3>1, <3>2, <3>4
    <3> QED BY <3>3, <3>4, Zenon
  <2> QED BY <2>2, <2>3, Zenon
<1>11. LinesOK'
  BY <1>10, ZenonT(30) DEF LinesOK
<1>12. TypeOK'
  BY <1>1, <1>2, <1>8, TypeIs, ZenonT(30) DEF TypeOK
<1> QED BY <1>8, <1>11, <1>12, Zenon DEF IInv

\* static_uninstall_ipv4 on an entry that keeps other next hops: left is the
\* entry without nh, and is unselected if it loses its place in the kernel.
LeftOf(r, nh, left) ==
    /\ r \in Rib /\ r.type = "static" /\ ~r.removed
    /\ left \in Rib /\ left.type = "static" /\ ~left.removed
    /\ left.nhs = r.nhs \ {nh}
    /\ left.selected => r.selected /\ left.fib = r.fib

\* A next hop goes, and the entry stays.
Leaves(s, n, left, rs) ==
    LET r == table.routes[s.dest][n]
    IN  /\ s \in statics
        /\ n \in Live(table, s.dest, "static")
        /\ LeftOf(r, s.nh, left)
        /\ rs = [table.routes[s.dest] EXCEPT ![n] = left]
        /\ statics' = statics \ {s} /\ ifup' = ifup /\ redist' = redist
        /\ table' = Requeued(table, s.dest, rs)
        /\ IF left.selected = r.selected
           THEN kernel' = kernel /\ told' = told
           ELSE /\ kernel' = [kernel EXCEPT ![s.dest] = KernelWithout(kernel[s.dest], r)]
                /\ told' = [told EXCEPT ![s.dest] = Withdrawn(told[s.dest], r)]

\* static_delete_ipv4_safi keeps the invariant.
LEMMA StepStaticDelete ==
  \A s \in StaticRoutes :
     /\ IInv
     /\ StaticDelete(s)
     =>
         IInv'
\* A static entry with a next hop less keeps the list.
<1>LeftList. ASSUME NEW old \in Seq(Rib), NEW n \in DOMAIN old, NEW left \in Rib
             PROVE  /\ [old EXCEPT ![n] = left] \in Seq(Rib)
                    /\ DOMAIN [old EXCEPT ![n] = left] = DOMAIN old
                    /\ [old EXCEPT ![n] = left][n] = left
                    /\ \A m \in DOMAIN old : m # n => [old EXCEPT ![n] = left][m] = old[m]
  OBVIOUS
\* The other lines of the entry stay.
<1>LeftKeeps. ASSUME NEW old \in Seq(Rib), NEW n \in DOMAIN old, NEW nh, NEW left,
                     LeftOf(old[n], nh, left), NEW rs, rs = [old EXCEPT ![n] = left]
              PROVE  /\ rs \in Seq(Rib) /\ rs # <<>>
                     /\ One(old) => One(rs)
                     /\ NoKernel(old) => NoKernel(rs)
                     /\ HasConn(rs) <=> HasConn(old)
                     /\ \A up : WantConn(rs, up) <=> WantConn(old, up)
                     /\ \A x : x # nh /\ HasLine(old, x) => HasLine(rs, x)
  <2> USE <1>LeftKeeps
  <2>1. /\ left \in Rib /\ left.type = "static" /\ ~left.removed /\ left.nhs = old[n].nhs \ {nh}
        /\ old[n].type = "static" /\ ~old[n].removed /\ (left.selected => old[n].selected)
    BY Zenon DEF LeftOf
  <2>2. /\ rs \in Seq(Rib) /\ DOMAIN rs = DOMAIN old /\ rs[n] = left
        /\ \A m \in DOMAIN old : m # n => rs[m] = old[m]
    BY <2>1, <1>LeftList, Zenon
  <2>3. rs # <<>>
    BY <2>2
  <2>4. One(old) => One(rs)
    BY <2>1, <2>2 DEF One, Selected
  <2>5. NoKernel(old) => NoKernel(rs)
    BY <2>1, <2>2, Zenon DEF NoKernel
  <2>6. \A m \in DOMAIN old : rs[m].type = "connect" \/ old[m].type = "connect" => m # n /\ rs[m] = old[m]
    BY <2>1, <2>2, Zenon
  <2>7. HasConn(rs) <=> HasConn(old)
    BY <2>2, <2>6, Zenon DEF HasConn
  <2>8. ASSUME NEW up PROVE WantConn(rs, up) <=> WantConn(old, up)
    BY <2>2, <2>6, Zenon DEF WantConn
  <2>9. LiveAt(rs, "static") = LiveAt(old, "static")
    BY <2>1, <2>2, Zenon DEF LiveAt
  <2>10. ASSUME NEW x, x # nh, HasLine(old, x) PROVE HasLine(rs, x)
    <3>1. LiveAt(old, "static") # {} /\ \A m \in LiveAt(old, "static") : x \in old[m].nhs
      BY <2>10, Zenon DEF HasLine
    <3>2. \A m \in LiveAt(old, "static") : m \in DOMAIN old
      BY Zenon DEF LiveAt
    <3>3. \A m \in LiveAt(rs, "static") : x \in rs[m].nhs
      BY <2>1, <2>2, <2>9, <2>10, <3>1, <3>2
    <3> QED BY <2>9, <3>1, <3>3, Zenon DEF HasLine
  <2> QED BY <2>2, <2>3, <2>4, <2>5, <2>7, <2>8, <2>10, Zenon
\* What rib_uninstall does to the kernel and the client fits the entry.
<1>LeftRow. ASSUME NEW old \in Seq(Rib), NEW n \in DOMAIN old, NEW nh, NEW left,
                   LeftOf(old[n], nh, left), NEW rs, rs = [old EXCEPT ![n] = left],
                   NEW ks, NEW ts, RowOK(old, ks, ts, redist)
            PROVE  IF left.selected = old[n].selected THEN RowOK(rs, ks, ts, redist)
                   ELSE RowOK(rs, KernelWithout(ks, old[n]), Withdrawn(ts, old[n]), redist)
  <2> USE <1>LeftRow
  <2>1. /\ left \in Rib /\ left.type = "static" /\ old[n].type = "static" /\ ~SystemRoute(old[n])
        /\ (left.selected => old[n].selected /\ left.fib = old[n].fib)
    BY Zenon DEF LeftOf, SystemRoute
  <2>2. /\ rs \in Seq(Rib) /\ DOMAIN rs = DOMAIN old /\ rs[n] = left
        /\ \A m \in DOMAIN old : m # n => rs[m] = old[m]
    BY <2>1, <1>LeftList, Zenon
  <2>3. One(old) /\ NoKernel(old) /\ KernOK(old, ks) /\ ts = SelTypes(old) \cap redist
    BY Zenon DEF RowOK
  <2>4. One(rs) /\ NoKernel(rs)
    BY <2>3, <1>LeftKeeps, Zenon
  <2>5. left.selected \in BOOLEAN /\ old[n].selected \in BOOLEAN
    <3>1. old[n] \in Rib
      OBVIOUS
    <3> QED BY <2>1, <3>1, Zenon DEF Rib
  <2>6. CASE left.selected = old[n].selected
    <3>1. Selected(rs) = Selected(old)
      BY <2>2, <2>6, Zenon DEF Selected
    <3>2. \A m \in Selected(old) : rs[m].type = old[m].type /\ rs[m].fib = old[m].fib
      BY <2>1, <2>2, <2>6, Zenon DEF Selected
    <3>3. SelTypes(rs) = SelTypes(old)
      BY <3>1, <3>2 DEF SelTypes
    <3>4. KernOK(rs, ks)
      BY <2>3, <3>1, <3>2 DEF KernOK, SystemRoute
    <3>5. RowOK(rs, ks, ts, redist)
      BY <2>3, <2>4, <3>3, <3>4, Zenon DEF RowOK
    <3> QED BY <2>6, <3>5, Zenon
  <2>7. CASE left.selected # old[n].selected
    <3>1. old[n].selected /\ ~left.selected
      BY <2>1, <2>5, <2>7, Zenon
    <3>2. Selected(old) = {n}
      BY <2>3, <3>1, Zenon DEF One, Selected
    <3>3. Selected(rs) = {}
      <4>1. \A m \in DOMAIN old : m # n => ~old[m].selected
        BY <3>2, Zenon DEF Selected
      <4> QED BY <2>2, <3>1, <4>1, Zenon DEF Selected
    <3>4. SelTypes(rs) = {} /\ SelTypes(old) = {"static"}
      BY <2>1, <3>2, <3>3, Zenon DEF SelTypes
    <3>5. Withdrawn(ts, old[n]) = {}
      BY <2>1, <2>3, <3>4, Zenon DEF Withdrawn
    <3>6. KernelWithout(ks, old[n]) = {}
      BY <2>1, <2>3, <3>2, Zenon DEF KernOK, KernelWithout
    <3>7. KernOK(rs, {})
      BY Zenon DEF KernOK
    <3>8. RowOK(rs, KernelWithout(ks, old[n]), Withdrawn(ts, old[n]), redist)
      BY <2>4, <3>4, <3>5, <3>6, <3>7, Zenon DEF RowOK
    <3> QED BY <2>7, <3>8, Zenon
  <2> QED BY <2>6, <2>7, Zenon
\* The last next hop goes, and the entry with it.
<1>StepStaticLast. ASSUME IInv, NEW s \in statics, NEW n \in Live(table, s.dest, "static"),
                          table.routes[s.dest][n].nhs = {s.nh},
                          statics' = statics \ {s}, table' = rib_delnode(table, s.dest, {n}),
                          kernel' = kernel, told' = told, ifup' = ifup, redist' = redist
                   PROVE  IInv'
  <2> USE <1>StepStaticLast
  <2>1. TypeOK /\ table \in Sound /\ LinesOK /\ statics \subseteq StaticRoutes
    BY Zenon DEF IInv, Queues, TypeOK
  <2>2. /\ s.dest \in Dests /\ \A r \in statics : r.dest \in Dests
        /\ \A r \in statics : r.dest = s.dest /\ r.nh = s.nh => r = s
    BY <2>1, ZebraAssumption
  <2>3. PICK type : type = "static"
    BY Zenon
  <2>4. \A m \in {n} : m \in DOMAIN table.routes[s.dest] /\ table.routes[s.dest][m].type = type
    BY <2>3, ZenonT(30) DEF Live
  <2>5. /\ Evolves(table, table', type)
        /\ table'.routes = [table.routes EXCEPT ![s.dest] = Marked(table.routes[s.dest], {n})]
    <3>1. PICK N : N = {n}
      BY Zenon
    <3>2. PICK d \in Dests : d = s.dest
      BY <2>2, Zenon
    <3>3. \A m \in N : m \in DOMAIN table.routes[d] /\ table.routes[d][m].type = type
      BY <2>4, <3>1, <3>2, Zenon
    <3>4. table \in Sound
      BY <2>1, Zenon
    <3>5. /\ Evolves(table, rib_delnode(table, d, N), type)
          /\ rib_delnode(table, d, N).routes = [table.routes EXCEPT ![d] = Marked(table.routes[d], N)]
      BY ONLY <3>3, <3>4, DelnodeEvolves, SMTT(30)
    <3> QED BY <3>1, <3>2, <3>5, Zenon
  <2>6. table' \in Tables /\ Queues(table', ifup') /\ RowsOK'
    BY <2>3, <2>5, EvolvesKeeps, Zenon
  <2>7. ASSUME NEW r \in statics, r # s PROVE HasLine(table'.routes[r.dest], r.nh)
    <3>1. HasLine(table.routes[r.dest], r.nh)
      BY <2>1, Zenon DEF LinesOK
    <3>2. r.dest # s.dest
      <4>1. ASSUME r.dest = s.dest PROVE FALSE
        <5>1. n \in LiveAt(table.routes[s.dest], "static")
          BY LiveIs, Zenon
        <5>2. r.nh \in {s.nh}
          BY <3>1, <4>1, <5>1, Zenon DEF HasLine
        <5> QED BY <2>2, <2>7, <4>1, <5>2, Zenon
      <4> QED BY <4>1, Zenon
    <3>3. table'.routes[r.dest] = table.routes[r.dest]
      <4>1. table.routes \in [Dests -> Seq(Rib)]
        BY <2>1, TableParts, Zenon DEF Sound
      <4> QED BY <2>2, <2>5, <3>2, <4>1, Zenon
    <3> QED BY <3>1, <3>3, Zenon
  <2>8. LinesOK'
    BY <2>7, Zenon DEF LinesOK
  <2>9. TypeOK'
    BY <2>1, <2>6, TypeIs, Zenon DEF TypeOK
  <2> QED BY <2>6, <2>8, <2>9 DEF IInv
\* static_uninstall_ipv4 of one of several next hops keeps the invariant.
<1>StepStaticLeft. ASSUME IInv, NEW s, NEW n, NEW left, NEW rs, Leaves(s, n, left, rs)
                   PROVE  IInv'
  <2> USE <1>StepStaticLeft
  <2> DEFINE d == s.dest
             old == table.routes[d]
             K == KernelWithout(kernel[d], old[n])
             T == Withdrawn(told[d], old[n])
             same == left.selected = old[n].selected
  <2>1. s \in statics /\ statics' = statics \ {s} /\ ifup' = ifup /\ redist' = redist
    BY Zenon DEF Leaves
  <2>2. LeftOf(old[n], s.nh, left) /\ rs = [old EXCEPT ![n] = left] /\ table' = Requeued(table, d, rs)
    BY Zenon DEF Leaves
  <2>3. /\ same => kernel' = kernel /\ told' = told
        /\ ~same => kernel' = [kernel EXCEPT ![d] = K] /\ told' = [told EXCEPT ![d] = T]
    BY Zenon DEF Leaves
  <2>4. TypeOK /\ Queues(table, ifup) /\ RowsOK /\ LinesOK
    BY Zenon DEF IInv
  <2>5. table \in Sound /\ statics \subseteq StaticRoutes
    BY <2>4, Zenon DEF Queues, TypeOK
  <2>6. /\ d \in Dests /\ \A r \in statics : r.dest \in Dests
        /\ \A r \in statics : r.dest = d /\ r.nh = s.nh => r = s
    BY <2>1, <2>5, ZebraAssumption
  <2>7. table.routes \in [Dests -> Seq(Rib)] /\ old \in Seq(Rib)
    BY <2>5, <2>6, TableParts, Zenon DEF Sound
  <2>8. n \in DOMAIN old
    BY Zenon DEF Live, Leaves
  <2>9. RowOK(old, kernel[d], told[d], redist) /\ NoKernel(old)
    BY <2>4, <2>6, Zenon DEF RowsOK, RowOK
  <2>10. IF same THEN RowOK(rs, kernel[d], told[d], redist) ELSE RowOK(rs, K, T, redist)
    <3> HIDE DEF old, d
    <3> QED BY <2>2, <2>7, <2>8, <2>9, <1>LeftRow, Zenon
  <2>11. K \subseteq kernel[d] /\ T \subseteq told[d]
    BY Zenon DEF KernelWithout, Withdrawn
  <2> HIDE DEF d, old, K, T, same
  <2>12. /\ rs \in Seq(Rib) /\ rs # <<>>
         /\ NoKernel(old) => NoKernel(rs)
         /\ HasConn(rs) <=> HasConn(old)
         /\ \A up : WantConn(rs, up) <=> WantConn(old, up)
         /\ \A x : x # s.nh /\ HasLine(old, x) => HasLine(rs, x)
    BY <2>2, <2>7, <2>8, <1>LeftKeeps, Zenon
  <2>13. Changes(table, d, rs, table')
    BY <2>2, <2>5, <2>6, <2>12, Change, Zenon
  <2>14. /\ table' \in Sound /\ table'.routes = [table.routes EXCEPT ![d] = rs]
         /\ Grows(table, table') /\ Flagged(table', d)
    BY <2>13, ZenonT(30) DEF Changes
  <2>15. table'.routes[d] = rs /\ \A e \in Dests : e # d => table'.routes[e] = table.routes[e]
    BY <2>6, <2>7, <2>14
  <2>16. Queues(table', ifup')
    <3>1. ASSUME NEW e \in Dests, table'.routes[e] # table.routes[e]
          PROVE  /\ Flagged(table', e)
                 /\ table'.routes[e] = <<>> => table.routes[e] = <<>>
                 /\ NoKernel(table'.routes[e])
                 /\ HasConn(table'.routes[e]) <=> HasConn(table.routes[e])
                 /\ \A up : WantConn(table'.routes[e], up) <=> WantConn(table.routes[e], up)
      <4>1. e = d
        BY <2>15, <3>1, Zenon
      <4>2. table'.routes[e] = rs /\ table.routes[e] = old
        BY <2>15, <4>1, ZenonT(30) DEF old
      <4>3. Flagged(table', e) /\ NoKernel(rs)
        BY <2>9, <2>12, <2>14, <4>1, SMTT(30)
      <4> QED BY <2>12, <4>2, <4>3
    <3>2. Quiet(table, table')
      BY <2>14, <3>1 DEF Quiet
    <3> QED BY <2>1, <2>4, <3>2, QuietQueues, ZenonT(30)
  <2>17. kernel \in [Dests -> SUBSET (SUBSET Ifs)] /\ told \in [Dests -> SUBSET RouteTypes]
    BY <2>4, Zenon DEF TypeOK
  <2>18. kernel' \in [Dests -> SUBSET (SUBSET Ifs)] /\ told' \in [Dests -> SUBSET RouteTypes]
    <3>1. K \in SUBSET (SUBSET Ifs) /\ T \in SUBSET RouteTypes
      BY <2>6, <2>11, <2>17, Zenon
    <3> QED BY <2>3, <2>17, <3>1, Zenon
  <2>19. ASSUME NEW e \in Dests PROVE RowOK(table'.routes[e], kernel'[e], told'[e], redist')
    <3>1. CASE e = d
      <4>1. CASE same
        BY <2>1, <2>3, <2>10, <2>15, <3>1, <4>1, SMTT(30)
      <4>2. CASE ~same
        <5>1. kernel'[d] = K /\ told'[d] = T
          BY <2>3, <2>6, <2>17, <4>2
        <5> QED BY <2>1, <2>10, <2>15, <3>1, <4>2, <5>1, SMTT(30)
      <4> QED BY <4>1, <4>2, ZenonT(30)
    <3>2. CASE e # d
      <4>1. kernel'[e] = kernel[e] /\ told'[e] = told[e]
        BY <2>3, <2>17, <3>2, Zenon
      <4>2. table'.routes[e] = table.routes[e] /\ redist' = redist
        BY <2>1, <2>15, <3>2, Zenon
      <4> QED BY <2>4, <4>1, <4>2, Zenon DEF RowsOK
    <3> QED BY <3>1, <3>2, Zenon
  <2>20. ASSUME NEW r \in statics, r # s PROVE HasLine(table'.routes[r.dest], r.nh)
    <3>1. HasLine(table.routes[r.dest], r.nh) /\ r.dest \in Dests
      BY <2>4, <2>6, Zenon DEF LinesOK
    <3>2. CASE r.dest = d
      <4>1. r.nh # s.nh /\ HasLine(old, r.nh)
        BY <2>6, <2>20, <3>1, <3>2, Zenon DEF old
      <4> QED BY <2>12, <2>15, <3>2, <4>1, Zenon
    <3>3. CASE r.dest # d
      BY <2>15, <3>1, <3>3, Zenon
    <3> QED BY <3>2, <3>3, Zenon
  <2>21. RowsOK' /\ LinesOK'
    BY <2>1, <2>19, <2>20, ZenonT(30) DEF RowsOK, LinesOK
  <2>22. TypeOK'
    <3>1. table' \in Tables
      BY <2>14, Zenon DEF Sound
    <3> QED BY <2>1, <2>4, <2>18, <3>1, TypeIs DEF TypeOK
  <2> QED BY <2>16, <2>21, <2>22, Zenon DEF IInv
<1>Main. ASSUME IInv, NEW s \in StaticRoutes, StaticDelete(s)
         PROVE  IInv'
  <2> USE <1>Main
  <2>1. /\ s \in statics /\ statics' = statics \ {s} /\ ifup' = ifup /\ redist' = redist
    BY Zenon DEF StaticDelete
  <2> DEFINE R(n) == table.routes[s.dest][n]
             purge(n) == s.nh \in R(n).fib /\ R(n).selected
             left(n) == [R(n) EXCEPT !.nhs = @ \ {s.nh}, !.active = @ \ {s.nh},
                                     !.fib = IF purge(n) THEN {} ELSE @ \ {s.nh},
                                     !.selected = @ /\ ~purge(n)]
  <2>2. PICK n \in Live(table, s.dest, "static") :
           IF R(n).nhs = {s.nh}
           THEN /\ table' = rib_delnode(table, s.dest, {n})
                /\ UNCHANGED <<kernel, told>>
           ELSE /\ table' = rib_queue_add([table EXCEPT !.routes[s.dest][n] = left(n)], s.dest)
                /\ kernel' = IF purge(n)
                             THEN [kernel EXCEPT ![s.dest] = KernelWithout(@, R(n))] ELSE kernel
                /\ told' = IF purge(n)
                           THEN [told EXCEPT ![s.dest] = Withdrawn(@, R(n))] ELSE told
    BY Zenon DEF StaticDelete
  <2>3. CASE R(n).nhs = {s.nh}
    <3>1. table' = rib_delnode(table, s.dest, {n}) /\ kernel' = kernel /\ told' = told
      BY <2>2, <2>3, Zenon
    <3> QED BY <2>1, <2>3, <3>1, <1>StepStaticLast, Zenon
  <2>4. CASE R(n).nhs # {s.nh}
    <3> DEFINE r == R(n)
               pu == purge(n)
               le == left(n)
               rs == [table.routes[s.dest] EXCEPT ![n] = le]
    <3>1. r \in Rib /\ r.type = "static" /\ ~r.removed
      <4>1. table \in Sound /\ statics \subseteq StaticRoutes
        BY Zenon DEF IInv, Queues, TypeOK
      <4>2. s.dest \in Dests
        BY ZebraAssumption, Zenon
      <4>3. table.routes[s.dest] \in Seq(Rib)
        BY <4>1, <4>2, TableParts, Zenon DEF Sound
      <4>4. n \in DOMAIN table.routes[s.dest] /\ r.type = "static" /\ ~r.removed
        BY Zenon DEF Live
      <4> QED BY <4>3, <4>4
    <3>2. /\ le \in Rib /\ le.type = "static" /\ ~le.removed /\ le.nhs = r.nhs \ {s.nh}
          /\ le.selected = (r.selected /\ ~pu)
          /\ le.fib = IF pu THEN {} ELSE r.fib \ {s.nh}
      <4> HIDE DEF r, pu
      <4>1. le = [r EXCEPT !.nhs = @ \ {s.nh}, !.active = @ \ {s.nh},
                           !.fib = IF pu THEN {} ELSE @ \ {s.nh}, !.selected = @ /\ ~pu]
        BY Zenon DEF r, pu
      <4> HIDE DEF le
      <4> QED BY <3>1, <4>1, Zenon DEF Rib
    <3>3. /\ le.selected => r.selected /\ le.fib = r.fib
          /\ (le.selected = r.selected) <=> ~pu
      <4>1. pu <=> s.nh \in r.fib /\ r.selected
        BY Zenon
      <4>2. r.selected \in BOOLEAN
        BY <3>1, Zenon DEF Rib
      <4> HIDE DEF r, pu, le
      <4> QED BY <3>2, <4>1, <4>2, Zenon
    <3>4. LeftOf(r, s.nh, le)
      <4> HIDE DEF r, le
      <4> QED BY <3>1, <3>2, <3>3, Zenon DEF LeftOf
    <3>5. table' = Requeued(table, s.dest, rs)
      <4>1. table' = rib_queue_add([table EXCEPT !.routes[s.dest][n] = le], s.dest)
        BY <2>2, <2>4, Zenon
      <4> HIDE DEF le
      <4> QED BY <4>1, Zenon DEF Requeued, With
    <3>6. IF le.selected = r.selected
          THEN kernel' = kernel /\ told' = told
          ELSE /\ kernel' = [kernel EXCEPT ![s.dest] = KernelWithout(kernel[s.dest], r)]
               /\ told' = [told EXCEPT ![s.dest] = Withdrawn(told[s.dest], r)]
      <4> HIDE DEF le
      <4> QED BY <2>2, <2>4, <3>3, Zenon
    <3> HIDE DEF le
    <3>7. Leaves(s, n, le, rs)
      BY <2>1, <3>4, <3>5, <3>6, Zenon DEF Leaves
    <3> QED BY <3>7, <1>StepStaticLeft, Zenon
  <2> QED BY <2>3, <2>4, Zenon
<1> QED BY <1>Main, Zenon

\* Entries of which none is selected: nothing is in the kernel, nothing told.
LEMMA FreshRow ==
  ASSUME NEW rs, Selected(rs) = {}, NoKernel(rs)
  PROVE  RowOK(rs, {}, {}, {})
BY Zenon DEF RowOK, One, KernOK, SelTypes

\* After a restart everything waits to be processed, the configured lines are
\* there, and the routes of the earlier zebra are gone or about to go.
LEMMA StepRestart ==
  \A inOrder \in BOOLEAN :
     /\ Counting
     /\ Orders
     /\ IInv
     /\ IsFiniteSet(ifup)
     /\ IsFiniteSet(statics)
     /\ Restart(inOrder)
     =>
         IInv'
\* The route that is read last is one of those left; there is one at most, and
\* the kernel has none of zebra's own once it has been taken over.
<1>TakenOver. ASSUME RowsOK, kernel \in [Dests -> SUBSET (SUBSET Ifs)], table \in Tables,
                     NEW left \in [Dests -> SUBSET (SUBSET Ifs)], \A d \in Dests : left[d] \subseteq kernel[d],
                     NEW d \in Dests
              PROVE  left[d] \ {LastRead(left, d)} = {}
  <2> USE <1>TakenOver
  <2> DEFINE rs == table.routes[d]
             k == LastRead(left, d)
  <2>1. RowOK(rs, kernel[d], told[d], redist)
    BY Zenon DEF RowsOK
  <2>2. One(rs) /\ KernOK(rs, kernel[d]) /\ rs \in Seq(Rib)
    BY <2>1, TableParts, ZenonT(30) DEF RowOK
  <2>3. \A x \in kernel[d] : x = rs[FibOf(rs)].fib
    <3> HIDE DEF rs
    <3> QED BY <2>2, FibIs
  <2>4. \E x \in SUBSET Ifs : left[d] # {} => x \in left[d]
    <3>1. left[d] \in SUBSET (SUBSET Ifs)
      BY Zenon
    <3>2. CASE left[d] = {}
      <4>1. {} \in SUBSET Ifs
        BY Zenon
      <4> QED BY <3>2, <4>1, Zenon
    <3>3. CASE left[d] # {}
      BY <3>1, <3>3, Zenon
    <3> QED BY <3>2, <3>3, Zenon
  <2>5. left[d] # {} => k \in left[d]
    BY <2>4, Zenon DEF LastRead
  <2> HIDE DEF rs, k
  <2>6. left[d] \ {k} = {}
    BY <2>3, <2>5, Zenon
  <2> QED BY <2>6, Zenon DEF k
<1>Main. ASSUME Counting, Orders, IInv, IsFiniteSet(ifup), IsFiniteSet(statics),
                NEW inOrder \in BOOLEAN, Restart(inOrder)
         PROVE  IInv'
  <2> USE <1>Main
  <2>1. /\ table \in Tables /\ ifup \in SUBSET Ifs /\ statics \in SUBSET StaticRoutes
        /\ kernel \in [Dests -> SUBSET (SUBSET Ifs)] /\ RowsOK
    BY Zenon DEF IInv, TypeOK, Tables
  <2> DEFINE left == LeftInKernel(inOrder)
             u == rib_sweep_table(vty_read_config(netlink_route_read(interface_lookup(ifup), left),
                                                  statics))
  <2>2. /\ table' = u /\ kernel' = [d \in Dests |-> left[d] \ {LastRead(left, d)}]
        /\ redist' = {} /\ told' = [d \in Dests |-> {}] /\ ifup' = ifup /\ statics' = statics
    BY Zenon DEF Restart
  <2>3. left \in [Dests -> SUBSET (SUBSET Ifs)] /\ \A d \in Dests : left[d] \subseteq kernel[d]
    <3> DEFINE D(d) == IF ~inOrder THEN {}
                       ELSE {table.routes[d][n].fib :
                               n \in {m \in Selected(table.routes[d]) : ~SystemRoute(table.routes[d][m])}}
    <3>1. \A d \in Dests : (IF ~inOrder THEN kernel[d] ELSE kernel[d] \ D(d)) = kernel[d] \ D(d)
      BY Zenon
    <3>2. left = [d \in Dests |-> IF ~inOrder THEN kernel[d] ELSE kernel[d] \ D(d)]
      BY Zenon DEF LeftInKernel
    <3> HIDE DEF D
    <3> HIDE DEF left
    <3> QED BY <2>1, <3>1, <3>2, Zenon
  <2> HIDE DEF left
  <2>4. /\ u \in Fresh
        /\ \A d \in Dests : NoKernel(u.routes[d])
        /\ \A s \in statics : HasLine(u.routes[s.dest], s.nh)
    BY <2>1, <2>3, MainFresh, Zenon
  <2> HIDE DEF u
  <2>5. \A d \in Dests : left[d] \ {LastRead(left, d)} = {}
    BY <2>1, <2>3, <1>TakenOver, Zenon
  <2>6. kernel' = [d \in Dests |-> {}]
    BY <2>2, <2>5, Zenon
  <2>7. u \in Sound /\ u \in Tables /\ \A d \in Dests : Flagged(u, d) /\ Selected(u.routes[d]) = {}
    BY <2>4, Zenon DEF Fresh, Sound
  <2>8. Queues(table', ifup')
    BY <2>2, <2>4, <2>7, FlaggedQueues, Zenon
  <2>9. RowsOK'
    <3>1. \A d \in Dests : RowOK(u.routes[d], {}, {}, {})
      BY <2>4, <2>7, FreshRow, Zenon
    <3>2. \A d \in Dests : kernel'[d] = {} /\ told'[d] = {} /\ redist' = {} /\ table' = u
      BY <2>2, <2>6, Zenon
    <3> QED BY <3>1, <3>2, Zenon DEF RowsOK
  <2>10. LinesOK'
    BY <2>2, <2>4, Zenon DEF LinesOK
  <2>11. TypeOK'
    <3>1. kernel' \in [Dests -> SUBSET (SUBSET Ifs)] /\ told' \in [Dests -> SUBSET RouteTypes]
      BY <2>2, <2>6, Zenon
    <3> QED BY <2>1, <2>2, <2>7, <3>1, TypeIs, Zenon
  <2> QED BY <2>8, <2>9, <2>10, <2>11 DEF IInv
<1> QED BY <1>Main, Zenon

\* Zebra starts with an empty table.
LEMMA InitInv ==
  ASSUME Init
  PROVE  IInv
<1>1. /\ table = EmptyTable /\ ifup = {} /\ statics = {} /\ redist = {}
      /\ kernel = [d \in Dests |-> {}] /\ told = [d \in Dests |-> {}]
  BY Zenon DEF Init
<1>2. table \in Fresh
  BY <1>1, EmptyFresh, Zenon
<1>3. table.routes = [d \in Dests |-> <<>>]
  BY <1>1, Zenon DEF EmptyTable
<1>4. \A d \in Dests : NoKernel(table.routes[d])
  BY <1>3 DEF NoKernel
<1>5. /\ table \in Sound /\ table \in Tables
      /\ \A d \in Dests : Flagged(table, d) /\ Selected(table.routes[d]) = {}
  BY <1>2, Zenon DEF Fresh, Sound
<1>6. Queues(table, ifup)
  BY <1>4, <1>5, FlaggedQueues, Zenon
<1>7. RowsOK
  <2>1. \A d \in Dests : RowOK(table.routes[d], {}, {}, {})
    BY <1>4, <1>5, FreshRow, Zenon
  <2> QED BY <1>1, <2>1, Zenon DEF RowsOK
<1>8. LinesOK
  BY <1>1, Zenon DEF LinesOK
<1>9. TypeOK
  BY <1>1, <1>5, Zenon DEF TypeOK, Tables
<1> QED BY <1>6, <1>7, <1>8, <1>9, Zenon DEF IInv

-----------------------------------------------------------------------------
(* What the invariant says.                                                *)

\* A destination that does not wait is decided.
LEMMA InvSettled ==
  ASSUME IInv
  PROVE  Settled
<1>1. RemovedOK(table) /\ Settles(table, ifup)
  BY Zenon DEF IInv, Queues
<1> SUFFICES ASSUME NEW d \in Dests, ~Queued(table, d), NEW n \in DOMAIN table.routes[d]
             PROVE  /\ table.routes[d][n].selected <=> Best(table.routes[d], n)
                    /\ Current(table, ifup, d, table.routes[d][n])
  BY Zenon DEF Settled
<1>2. Decided(table, ifup, d, table.routes[d])
  BY <1>1, Zenon DEF Settles
<1>3. ~table.routes[d][n].removed
  BY <1>1, Zenon DEF RemovedOK
<1> QED BY <1>2, <1>3, Zenon DEF Decided

\* Removed entries, flags, the meta queue and the configured lines.
LEMMA InvNothingIsLost ==
  ASSUME IInv
  PROVE  NothingIsLost
<1>1. table \in Sound /\ RemovedOK(table) /\ LinesOK
  BY Zenon DEF IInv, Queues
<1>2. FlagsOK(table) /\ RibqOK(table)
  BY <1>1, Zenon DEF Sound
<1>3. ASSUME NEW s \in statics
      PROVE  \E n \in Live(table, s.dest, "static") : s.nh \in table.routes[s.dest][n].nhs
  <2>1. HasLine(table.routes[s.dest], s.nh)
    BY <1>1, Zenon DEF LinesOK
  <2>2. Live(table, s.dest, "static") = LiveAt(table.routes[s.dest], "static")
    BY Zenon DEF Live, LiveAt
  <2> QED BY <2>1, <2>2, Zenon DEF HasLine
<1>4. table.ribq <=> \E q \in SubQueues : table.subq[q] # <<>>
  BY <1>2, Zenon DEF RibqOK
<1>5. \A d \in Dests :
          /\ \A n \in DOMAIN table.routes[d] : table.routes[d][n].removed => Queued(table, d)
          /\ \A q \in table.flags[d] : Waits(table, d, q)
  BY <1>1, <1>2, Zenon DEF RemovedOK, FlagsOK
<1> QED BY <1>3, <1>4, <1>5, Zenon DEF NothingIsLost

\* The client has been told what is selected.
LEMMA InvClientIsTold ==
  ASSUME IInv
  PROVE  ClientIsTold
BY Zenon DEF IInv, RowsOK, RowOK, ClientIsTold, SelTypes

\* The kernel has what is selected.
LEMMA InvKernelIsSelected ==
  ASSUME IInv
  PROVE  KernelIsSelected
BY Zenon DEF IInv, RowsOK, RowOK, KernOK, KernelIsSelected

\* The interfaces that are operative and the configured lines are finitely many.
Finite == IsFiniteSet(ifup) /\ IsFiniteSet(statics)

\* One element more or less keeps a set finite; proved at the end.
Changing ==
    \A S, x : IsFiniteSet(S) => IsFiniteSet(S \cup {x}) /\ IsFiniteSet(S \ {x})

\* One step of anything keeps the invariant.
LEMMA InvStep ==
  ASSUME Counting, Orders, Changing, IInv, Finite, [Next]_vars
  PROVE  IInv' /\ Finite'
<1>1. \A S, x : IsFiniteSet(S) => IsFiniteSet(S \cup {x}) /\ IsFiniteSet(S \ {x})
  BY Zenon DEF Changing
<1>2. IsFiniteSet(ifup) /\ IsFiniteSet(statics)
  BY Zenon DEF Finite
<1>3. CASE Process
  <2>1. ifup' = ifup /\ statics' = statics
    BY <1>3, Zenon DEF Process
  <2> QED BY <1>2, <1>3, <2>1, StepProcess, Zenon DEF Finite
<1>4. CASE \E c \in ClientRoutes : ClientAdd(c) \/ ClientDelete(c)
  <2>1. ifup' = ifup /\ statics' = statics
    BY <1>4, Zenon DEF ClientAdd, ClientDelete
  <2> QED BY <1>2, <1>4, <2>1, StepClientAdd, StepClientDelete, Zenon DEF Finite
<1>5. CASE \E type \in ClientTypes : ClientClose(type)
  <2>1. ifup' = ifup /\ statics' = statics
    BY <1>5, Zenon DEF ClientClose
  <2> QED BY <1>2, <1>5, <2>1, StepClientClose, Zenon DEF Finite
<1>6. CASE \E type \in RedistTypes : RedistributeAdd(type) \/ RedistributeDelete(type)
  <2>1. ifup' = ifup /\ statics' = statics
    BY <1>6, Zenon DEF RedistributeAdd, RedistributeDelete
  <2> QED BY <1>2, <1>6, <2>1, StepRedistribute, Zenon DEF Finite
<1>7. CASE \E i \in Ifs : InterfaceUp(i) \/ InterfaceDown(i)
  <2>1. PICK i \in Ifs : InterfaceUp(i) \/ InterfaceDown(i)
    BY <1>7, Zenon
  <2>2. statics' = statics /\ (ifup' = ifup \cup {i} \/ ifup' = ifup \ {i})
    BY <2>1, Zenon DEF InterfaceUp, InterfaceDown
  <2>3. IsFiniteSet(ifup')
    BY <1>1, <1>2, <2>2, ZenonT(30)
  <2> QED BY <1>2, <2>1, <2>2, <2>3, StepInterfaceUp, StepInterfaceDown, Zenon DEF Finite
<1>8. CASE \E s \in StaticRoutes : StaticAdd(s) \/ StaticDelete(s)
  <2>1. PICK s \in StaticRoutes : StaticAdd(s) \/ StaticDelete(s)
    BY <1>8, Zenon
  <2>2. ifup' = ifup /\ (statics' = statics \cup {s} \/ statics' = statics \ {s})
    BY <2>1, Zenon DEF StaticAdd, StaticDelete
  <2>3. IsFiniteSet(statics')
    BY <1>1, <1>2, <2>2, Zenon
  <2> QED BY <1>2, <2>1, <2>2, <2>3, StepStaticAdd, StepStaticDelete, Zenon DEF Finite
<1>9. CASE \E inOrder \in BOOLEAN : Restart(inOrder)
  <2>1. ifup' = ifup /\ statics' = statics
    BY <1>9, Zenon DEF Restart
  <2> QED BY <1>2, <1>9, <2>1, StepRestart, Zenon DEF Finite
<1>10. CASE UNCHANGED vars
  <2>1. /\ table' = table /\ ifup' = ifup /\ statics' = statics /\ kernel' = kernel
        /\ redist' = redist /\ told' = told
    BY <1>10, Zenon DEF vars
  <2>2. TypeOK' /\ RowsOK' /\ LinesOK'
    BY <2>1, Zenon DEF IInv, TypeOK, RowsOK, LinesOK
  <2> QED BY <1>2, <2>1, <2>2, Zenon DEF IInv, Finite
<1> QED
  BY <1>3, <1>4, <1>5, <1>6, <1>7, <1>8, <1>9, <1>10, Zenon DEF Next

-----------------------------------------------------------------------------
(* Numbers and finite sets.                                                *)

F == INSTANCE FiniteSetTheorems

\* A set of natural numbers has a least element.
LEMMA LeastNumber ==
  ASSUME NEW T, T \subseteq Nat, T # {}
  PROVE  \E x \in T : \A y \in T : x <= y
<1>1. PICK x \in T : \A y \in T : <<y, x>> \notin F!OpToRel(<, Nat)
  BY F!NatLessThanWellFounded, F!WFMin, Zenon
<1>2. \A y \in T : x \in Nat /\ y \in Nat /\ ~(y < x)
  BY <1>1, Zenon DEF F!OpToRel
<1> QED BY <1>2

\* A set of numbers that holds 0 and the successor of each of its members up
\* to n holds them all: the least that it lacks would have a predecessor.
LEMMA CountingHolds == Counting
<1> SUFFICES ASSUME NEW n \in Nat, NEW K \in SUBSET (0..n), 0 \in K,
                    \A i \in 1..n : i - 1 \in K => i \in K,
                    NEW j \in 0..n, j \notin K
             PROVE  FALSE
  BY Zenon DEF Counting
<1> DEFINE T == (0..n) \ K
<1>1. T \subseteq Nat /\ T # {}
  OBVIOUS
<1>2. PICK x \in T : \A y \in T : x <= y
  <2> HIDE DEF T
  <2> QED BY <1>1, LeastNumber, Zenon
<1>3. x \in 1..n /\ x - 1 \in 0..n /\ ~(x <= x - 1)
  BY <1>2
<1>4. x - 1 \in K
  BY <1>2, <1>3, Zenon
<1> QED BY <1>2, <1>3, <1>4

\* The finite sets of the library are those of the model.
LEMMA SameSets ==
  ASSUME NEW S
  PROVE  /\ F!IsFiniteSet(S) <=> IsFiniteSet(S)
         /\ F!Cardinality(S) = Cardinality(S)
<1>1. F!IsFiniteSet(S) <=> IsFiniteSet(S)
  BY Zenon DEF F!IsFiniteSet, IsFiniteSet
<1>2. F!Cardinality(S) = Cardinality(S)
  BY Zenon DEF F!Cardinality, Cardinality
<1> QED BY <1>1, <1>2, Zenon

\* Order lists the whole of a finite set: it is an injection of as many numbers
\* as the set has elements.
LEMMA OrdersHold == Orders
<1> SUFFICES ASSUME NEW S, IsFiniteSet(S)
             PROVE  /\ Cardinality(S) \in Nat
                    /\ Order(S) \in [1..Cardinality(S) -> S]
                    /\ \A s \in S : \E n \in 1..Cardinality(S) : Order(S)[n] = s
  BY Zenon DEF Orders
<1> DEFINE c == Cardinality(S)
           N == 1..c
           Inj(f) == \A a, b \in DOMAIN f : f[a] = f[b] => a = b
<1>1. F!IsFiniteSet(S) /\ F!Cardinality(S) = c
  BY SameSets, Zenon
<1>2. c \in Nat /\ F!ExistsBijection(N, S)
  BY <1>1, F!FS_CardinalityType, Zenon
<1>3. PICK g : g \in F!Bijection(N, S)
  BY <1>2, Zenon DEF F!ExistsBijection
<1>4. g \in [N -> S] /\ \A a, b \in N : g[a] = g[b] => a = b
  BY <1>3, Zenon DEF F!Bijection, F!Injection, F!IsInjective
<1> DEFINE o == Order(S)
<1>5. o \in [N -> S] /\ Inj(o)
  <2>1. Inj(g)
    <3> HIDE DEF N
    <3> QED BY <1>4, Zenon
  <2> HIDE DEF Inj
  <2>2. \E f \in [N -> S] : Inj(f)
    BY <1>4, <2>1, Zenon
  <2>3. o = CHOOSE f \in [N -> S] : Inj(f)
    BY Zenon DEF Order, Inj
  <2> QED BY <2>2, <2>3, Zenon
<1> HIDE DEF o, c
<1>6. o \in F!Injection(N, S)
  <2> HIDE DEF N
  <2> QED BY <1>5, Zenon DEF F!Injection, F!IsInjective
<1>7. F!IsFiniteSet(N) /\ F!Cardinality(N) = c
  <2>1. PICK a \in Nat : a = 1
    BY Zenon
  <2>2. F!IsFiniteSet(a..c) /\ F!Cardinality(a..c) = IF a > c THEN 0 ELSE c - a + 1
    BY <1>2, F!FS_Interval
  <2> QED BY <1>2, <2>1, <2>2
<1> HIDE DEF N
<1>8. o \in F!Surjection(N, S)
  BY <1>1, <1>6, <1>7, F!FS_Injection, SMTT(30)
<1>9. \A s \in S : \E n \in N : o[n] = s
  BY <1>8, Zenon DEF F!Surjection
<1> QED BY <1>2, <1>5, <1>9, Zenon DEF o, c, N

\* One element more or less keeps a set finite.
LEMMA FiniteChange == Changing
<1> SUFFICES ASSUME NEW S, IsFiniteSet(S), NEW x
             PROVE  IsFiniteSet(S \cup {x}) /\ IsFiniteSet(S \ {x})
  BY Zenon DEF Changing
<1>1. F!IsFiniteSet(S)
  BY SameSets, Zenon
<1>2. F!IsFiniteSet(S \cup {x})
  BY <1>1, F!FS_AddElement, Zenon
<1>3. F!IsFiniteSet(S \ {x})
  BY <1>1, F!FS_RemoveElement, Zenon
<1> QED BY <1>2, <1>3, SameSets, ZenonT(30)

\* At most one entry is selected, as a number.
LEMMA OneIsOne ==
  ASSUME NEW S, \A m, n \in S : m = n
  PROVE  Cardinality(S) <= 1
<1>1. CASE S = {}
  <2>1. F!Cardinality(S) = 0
    BY <1>1, F!FS_EmptySet, Zenon
  <2> QED BY <2>1, SameSets
<1>2. CASE S # {}
  <2>1. PICK x \in S : S = {x}
    <3>1. PICK x : x \in S
      BY <1>2, Zenon
    <3>2. S = {x}
      BY <3>1, Zenon
    <3> QED BY <3>1, <3>2, Zenon
  <2>2. F!Cardinality(S) = 1
    BY <2>1, F!FS_Singleton, Zenon
  <2> QED BY <2>2, SameSets
<1> QED BY <1>1, <1>2, Zenon

-----------------------------------------------------------------------------
(* The theorems.                                                           *)

\* The invariant holds of every behaviour.
THEOREM Invariance == Spec => [](IInv /\ Finite)
<1>1. Init => IInv /\ Finite
  <2>1. ASSUME Init PROVE Finite
    <3>1. ifup = {} /\ statics = {}
      BY <2>1, Zenon DEF Init
    <3>2. IsFiniteSet({})
      BY F!FS_EmptySet, SameSets, Zenon
    <3> QED BY <3>1, <3>2, Zenon DEF Finite
  <2> QED BY <2>1, InitInv, Zenon
<1>2. IInv /\ Finite /\ [Next]_vars => (IInv /\ Finite)'
  BY InvStep, CountingHolds, OrdersHold, FiniteChange, SMTT(30)
<1> QED BY <1>1, <1>2, PTL DEF Spec

\* The table, its queues, the kernel's routes and what the client has been told
\* keep their types through rib_process, the clients' requests, interface and
\* configuration changes and restarts.
THEOREM TypeCorrect == Spec => []TypeOK
<1>1. IInv => TypeOK
  BY SMTT(30) DEF IInv
<1> QED BY <1>1, Invariance, PTL

\* rib_process's assertion: at most one entry of a destination is selected.
THEOREM AtMostOneSelected == Spec => []OneSelected
<1>1. IInv => OneSelected
  BY OneIsOne, SMTT(30) DEF IInv, RowsOK, RowOK, One, OneSelected
<1> QED BY <1>1, Invariance, PTL

\* No removed entry is forgotten, no flag outlives its place in a sub-queue, no
\* work waits without the meta queue, and no configured line loses its entry.
THEOREM NoWorkIsLost == Spec => []NothingIsLost
<1>1. IInv => NothingIsLost
  BY InvNothingIsLost, SMTT(30)
<1> QED BY <1>1, Invariance, PTL

\* A destination that does not wait has its best usable entry selected, by ACTIVE
\* flags that follow the connected routes of the interfaces, although rib_process
\* never looks at the destinations that depend on the one it processes.
THEOREM UnqueuedIsSettled == Spec => []Settled
<1>1. IInv => Settled
  BY InvSettled, SMTT(30)
<1> QED BY <1>1, Invariance, PTL

\* redistribute_add and redistribute_delete are paired.
THEOREM RedistributionIsExact == Spec => []ClientIsTold
<1>1. IInv => ClientIsTold
  BY InvClientIsTold, ZenonT(30)
<1> QED BY <1>1, Invariance, PTL

\* What zebra has in the kernel is the selected entry with its FIB next hops,
\* over replacements, interface failures, crashes and restarts.
THEOREM NothingStaleInKernel == Spec => []KernelIsSelected
<1>1. IInv => KernelIsSelected
  BY InvKernelIsSelected, Zenon
<1> QED BY <1>1, Invariance, PTL

=============================================================================
