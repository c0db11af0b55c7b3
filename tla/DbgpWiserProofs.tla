--------------------------- MODULE DbgpWiserProofs ---------------------------
(***************************************************************************)
(* Proofs about DbgpWiser for any network: any number of ASes and          *)
(* prefixes, any links with positive costs, any mix of Wiser and plain     *)
(* ASes.                                                                   *)
(*                                                                         *)
(* Inv says what the store, the counters, the tables, the channels and a   *)
(* router's unfinished work hold.  The assertions of the control           *)
(* information code hold because whatever carries a key carries one that   *)
(* was SET before, because what is SET has a positive cost and an owner,   *)
(* and because a counter to which such costs are added is never 0.  None   *)
(* of this is inductive by itself: a key travels from the work of one      *)
(* router through sent and a channel into the tables of another, so Inv    *)
(* bounds the keys in all of them by the number of keys that were SET.     *)
(* Keyed says that a Wiser router has control information for every path   *)
(* but its own: only then are its paths ordered and one of them the best.  *)
(***************************************************************************)
EXTENDS DbgpWiser, TLAPS, WellFoundedInduction

\* A counter of the lookup service is absent or positive.
Counters == (Nat \ {0}) \cup {Absent}

\* What is stored under a key: a positive cost and the AS that stored it.
Infos == [cost : Nat \ {0}, last : AS]

\* Routes whose key is among the first n that were SET.
RoutesTo(n) == [key : 0..n, path : Seq(AS \cup {NoAS})]

\* The tables and the channels, with routes in R.
Tables(R) ==
  /\ chan \in [AS -> [AS -> Seq([dest : SUBSET Prefixes, route : R])]]
  /\ rib \in [AS -> [Prefixes -> [AS -> R]]]
  /\ adjin \in [AS -> [Prefixes -> [AS -> R]]]
  /\ sent \in [AS -> [Prefixes -> [route : R, from : AS \cup {NoAS}]]]

\* The record of a router's work.
HasFields(w) ==
  w \in [phase : {"idle", "lookup", "increment", "retrieve", "normalize", "set"},
         from : AS \cup {NoAS}, input : {w.input}, prefix : {w.prefix},
         info : [cost : Nat \cup {Absent}, last : AS \cup {Absent}], mine : Counters]

\* What router a is in the middle of: the control info it works on has been
\* stored by an AS, and the prefix it works on is one of the input.
IsWork(a, w, R) ==
  /\ HasFields(w)
  /\ DOMAIN w.input \subseteq Prefixes
  /\ \A p \in DOMAIN w.input : w.input[p] \in R
  /\ w.phase # "idle" => w.from \in Neighbours(a)
  /\ w.phase \in {"increment", "retrieve", "normalize"} => w.info \in Infos
  /\ w.phase \in {"increment", "retrieve", "normalize", "set"} => w.prefix \in DOMAIN w.input

Works(R) == work = [a \in AS |-> work[a]] /\ \A a \in AS : IsWork(a, work[a], R)

\* A Wiser router has stored control info for every path it was sent.
Keyed ==
  \A a \in Wiser : \A p \in Prefixes : \A b \in AS \ {a} :
    rib[a][p][b] = NoRoute \/ rib[a][p][b].key # NoKey

\* The inductive invariant.
Inv ==
  /\ store \in Seq(Infos)
  /\ received \in [AS -> [AS -> Counters]]
  /\ scheduled \in [AS -> SUBSET Prefixes]
  /\ Tables(RoutesTo(Len(store)))
  /\ Works(RoutesTo(Len(store)))
  /\ Keyed
  /\ NoAssertionFails

(***************************************************************************)
(* There is a best path.                                                   *)
(***************************************************************************)

\* A set of natural numbers has a least element.
LEMMA LeastNat ==
  ASSUME NEW T, T \subseteq Nat, T # {}
  PROVE  \E x \in T : \A y \in T : x <= y
<1>1. PICK x \in T : \A y \in T : ~(<<y, x>> \in OpToRel(<, Nat))
  BY NatLessThanWellFounded, WFMin, Zenon
<1>2. ASSUME NEW y \in T PROVE x <= y
  <2>1. x \in Nat /\ y \in Nat /\ ~(y < x)
    BY <1>1, Zenon DEF OpToRel
  <2> QED BY <2>1
<1> QED BY <1>2

\* A function into the natural numbers has a minimum.
LEMMA Minimum ==
  ASSUME NEW T, T # {}, NEW f \in [T -> Nat]
  PROVE  \E x \in T : \A y \in T : f[x] <= f[y]
<1>1. PICK m \in {f[x] : x \in T} : \A n \in {f[x] : x \in T} : m <= n
  <2>1. {f[x] : x \in T} \subseteq Nat /\ {f[x] : x \in T} # {}
    OBVIOUS
  <2> QED BY <2>1, LeastNat, Zenon
<1> QED BY <1>1

\* The order of two paths with the costs, the lengths of the AS paths and the
\* flags f, g and h.
Before(f, g, h, x, y) ==
  \/ f[x] < f[y]
  \/ f[x] = f[y] /\ g[x] < g[y]
  \/ f[x] = f[y] /\ g[x] = g[y] /\ h[x] < h[y]
  \/ f[x] = f[y] /\ g[x] = g[y] /\ h[x] = h[y] /\ x < y

\* A set of paths has a first one.
LEMMA First ==
  ASSUME NEW T, T \subseteq Nat, T # {},
         NEW f \in [T -> Nat], NEW g \in [T -> Nat], NEW h \in [T -> Nat]
  PROVE  \E x \in T : \A y \in T \ {x} : Before(f, g, h, x, y)
<1>1. PICK u \in T : \A y \in T : f[u] <= f[y]
  BY Minimum, Zenon
<1> DEFINE U == {x \in T : f[x] = f[u]}
<1>2. PICK v \in U : \A y \in U : g[v] <= g[y]
  <2>1. U # {} /\ [x \in U |-> g[x]] \in [U -> Nat]
    BY Zenon
  <2>2. \E x \in U : \A y \in U : [z \in U |-> g[z]][x] <= [z \in U |-> g[z]][y]
    BY <2>1, Minimum, Zenon
  <2> QED BY <2>2
<1> DEFINE V == {x \in U : g[x] = g[v]}
<1>3. PICK w \in V : \A y \in V : h[w] <= h[y]
  <2>1. V # {} /\ [x \in V |-> h[x]] \in [V -> Nat]
    BY Zenon
  <2>2. \E x \in V : \A y \in V : [z \in V |-> h[z]][x] <= [z \in V |-> h[z]][y]
    BY <2>1, Minimum, ZenonT(60)
  <2> QED BY <2>2
<1> DEFINE W == {x \in V : h[x] = h[w]}
<1>4. PICK x \in W : \A y \in W : x <= y
  <2>1. W # {} /\ W \subseteq Nat
    BY Zenon
  <2> QED BY <2>1, LeastNat, Zenon
<1>5. ASSUME NEW y \in T \ {x} PROVE Before(f, g, h, x, y)
  <2>1. x \in T /\ f[x] = f[u] /\ g[x] = g[v] /\ h[x] = h[w]
    BY <1>4
  <2>2. f[x] <= f[y] /\ (f[x] = f[y] => g[x] <= g[y])
    BY <1>1, <1>2, <2>1
  <2>3. f[x] = f[y] /\ g[x] = g[y] => h[x] <= h[y]
    BY <1>3, <2>1
  <2>4. f[x] = f[y] /\ g[x] = g[y] /\ h[x] = h[y] => x <= y
    BY <1>4, <2>1
  <2>5. /\ f[x] \in Nat /\ f[y] \in Nat /\ g[x] \in Nat /\ g[y] \in Nat
        /\ h[x] \in Nat /\ h[y] \in Nat /\ x \in Nat /\ y \in Nat /\ x # y
    BY <2>1
  <2> HIDE DEF U, V, W
  <2> QED BY <2>2, <2>3, <2>4, <2>5 DEF Before
<1>6. x \in T
  BY <1>4
<1> HIDE DEF U, V, W
<1> QED BY <1>5, <1>6

\* How Preferred compares ranks.
RankLess(r, s) ==
  LET first == CHOOSE i \in 1..4 : /\ r[i] # s[i]
                                   /\ \A j \in 1..(i - 1) : r[j] = s[j]
  IN  r[first] < s[first]

\* Ranks that differ are compared by the first component in which they do.
LEMMA FirstDifference ==
  ASSUME NEW r1 \in Nat, NEW r2 \in Nat, NEW r3 \in Nat, NEW r4 \in Nat,
         NEW s1 \in Nat, NEW s2 \in Nat, NEW s3 \in Nat, NEW s4 \in Nat,
         \/ r1 < s1
         \/ r1 = s1 /\ r2 < s2
         \/ r1 = s1 /\ r2 = s2 /\ r3 < s3
         \/ r1 = s1 /\ r2 = s2 /\ r3 = s3 /\ r4 < s4
  PROVE  RankLess(<<r1, r2, r3, r4>>, <<s1, s2, s3, s4>>)
<1> DEFINE r == <<r1, r2, r3, r4>>
           s == <<s1, s2, s3, s4>>
           D(i) == r[i] # s[i] /\ \A j \in 1..(i - 1) : r[j] = s[j]
           first == CHOOSE i \in 1..4 : D(i)
<1>1. \E i \in 1..4 : D(i)
  <2>1. r1 < s1 => D(1)
    OBVIOUS
  <2>2. r1 = s1 /\ r2 < s2 => D(2)
    OBVIOUS
  <2>3. r1 = s1 /\ r2 = s2 /\ r3 < s3 => D(3)
    OBVIOUS
  <2>4. r1 = s1 /\ r2 = s2 /\ r3 = s3 /\ r4 < s4 => D(4)
    OBVIOUS
  <2> HIDE DEF D
  <2> QED BY <2>1, <2>2, <2>3, <2>4
<1>2. first \in 1..4 /\ D(first)
  <2> HIDE DEF D
  <2> QED BY <1>1
<1>3. ASSUME NEW i \in 1..4, D(i) PROVE r[i] < s[i]
  <2>1. i = 1 \/ i = 2 \/ i = 3 \/ i = 4
    OBVIOUS
  <2>2. /\ i > 1 => r[1] = s[1]
        /\ i > 2 => r[2] = s[2]
        /\ i > 3 => r[3] = s[3]
        /\ r[i] # s[i]
    BY <1>3
  <2>3. r[1] = r1 /\ r[2] = r2 /\ r[3] = r3 /\ r[4] = r4 /\ s[1] = s1 /\ s[2] = s2 /\ s[3] = s3 /\ s[4] = s4
    OBVIOUS
  <2> HIDE DEF r, s, D
  <2> QED BY <2>1, <2>2, <2>3
<1>4. r[first] < s[first]
  <2> HIDE DEF r, s, D, first
  <2> QED BY <1>2, <1>3
<1> QED BY <1>4, Zenon DEF RankLess

\* The paths among which bgp_best_selection chooses.
Paths(a, p) == {b \in AS : rib[a][p][b] # NoRoute}

\* A path that comes before another one is preferred to it: in a Wiser router
\* all paths that are not its own have a cost.
LEMMA BeforeIsPreferred ==
  ASSUME Inv, NEW a \in AS, NEW p \in Prefixes, NEW b \in Paths(a, p), NEW c \in Paths(a, p),
         NEW f, NEW g, NEW h, b # a, c # a,
         f = [x \in Paths(a, p) |-> IF a \in Wiser THEN PathCost(a, p, x) ELSE 0],
         g = [x \in Paths(a, p) |-> Len(rib[a][p][x].path)],
         h = [x \in Paths(a, p) |-> IF sent[a][p].from = x THEN 0 ELSE 1],
         f[b] \in Nat, f[c] \in Nat, g[b] \in Nat, g[c] \in Nat,
         Before(f, g, h, b, c)
  PROVE  Preferred(a, p, b, c)
<1> DEFINE cost(x) == IF a \in Wiser /\ HasKey(a, p, b) /\ HasKey(a, p, c)
                      THEN PathCost(a, p, x) ELSE 0
           flag(x) == IF sent[a][p].from = x THEN 0 ELSE 1
<1>1. cost(b) = f[b] /\ cost(c) = f[c]
  <2>1. a \in Wiser => HasKey(a, p, b) /\ HasKey(a, p, c)
    BY DEF Inv, Keyed, Paths, HasKey
  <2> QED BY <2>1, SMTT(60)
<1>2. Len(rib[a][p][b].path) = g[b] /\ Len(rib[a][p][c].path) = g[c] /\ flag(b) = h[b] /\ flag(c) = h[c]
  BY SMTT(60)
<1>3. b \in Nat /\ c \in Nat /\ h[b] \in Nat /\ h[c] \in Nat
  BY <1>2, WiserAssumption, Zenon DEF Paths
<1>4. \/ f[b] < f[c]
      \/ f[b] = f[c] /\ g[b] < g[c]
      \/ f[b] = f[c] /\ g[b] = g[c] /\ h[b] < h[c]
      \/ f[b] = f[c] /\ g[b] = g[c] /\ h[b] = h[c] /\ b < c
  BY DEF Before
<1>5. RankLess(<<f[b], g[b], h[b], b>>, <<f[c], g[c], h[c], c>>)
  BY ONLY f[b] \in Nat, f[c] \in Nat, g[b] \in Nat, g[c] \in Nat, <1>3, <1>4, FirstDifference, Zenon
<1>6. /\ <<cost(b), Len(rib[a][p][b].path), flag(b), b>> = <<f[b], g[b], h[b], b>>
      /\ <<cost(c), Len(rib[a][p][c].path), flag(c), c>> = <<f[c], g[c], h[c], c>>
  BY <1>1, <1>2
<1>7. RankLess(<<cost(b), Len(rib[a][p][b].path), flag(b), b>>,
               <<cost(c), Len(rib[a][p][c].path), flag(c), c>>)
  <2> HIDE DEF cost, flag
  <2> QED BY <1>5, <1>6
<1> QED BY <1>7, Zenon DEF Preferred, RankLess

\* A router without a path of its own has a best one, because its paths are in
\* a total order.
LEMMA BestOfOthers ==
  ASSUME Inv, NEW a \in AS, NEW p \in Prefixes, Paths(a, p) # {}, a \notin Paths(a, p)
  PROVE  \E b \in Paths(a, p) : \A c \in Paths(a, p) \ {b} : Preferred(a, p, b, c)
<1> DEFINE T == Paths(a, p)
           F == [x \in T |-> IF a \in Wiser THEN PathCost(a, p, x) ELSE 0]
           G == [x \in T |-> Len(rib[a][p][x].path)]
           H == [x \in T |-> IF sent[a][p].from = x THEN 0 ELSE 1]
<1>1. ASSUME NEW x \in T
      PROVE  /\ x \in AS /\ x # a /\ rib[a][p][x] \in RoutesTo(Len(store))
             /\ a \in Wiser => rib[a][p][x].key # NoKey
  BY <1>1 DEF Inv, Tables, Keyed, Paths
<1>2. F \in [T -> Nat]
  <2>1. ASSUME NEW x \in T, a \in Wiser PROVE PathCost(a, p, x) \in Nat
    <3>1. rib[a][p][x].key \in 1..Len(store)
      <4>1. Len(store) \in Nat
        BY DEF Inv
      <4> QED BY <1>1, <2>1, <4>1 DEF RoutesTo, NoKey
    <3>2. store[rib[a][p][x].key] \in Infos
      BY <3>1 DEF Inv
    <3> QED BY <3>2 DEF PathCost, Infos
  <2> QED BY <2>1, SMTT(60)
<1>3. G \in [T -> Nat]
  <2>1. ASSUME NEW x \in T PROVE Len(rib[a][p][x].path) \in Nat
    <3>1. rib[a][p][x] \in RoutesTo(Len(store))
      BY <1>1
    <3> QED BY ONLY <3>1 DEF RoutesTo
  <2> HIDE DEF T
  <2> QED BY <2>1
<1>4. H \in [T -> Nat] /\ T \subseteq Nat /\ T # {}
  BY WiserAssumption, Zenon DEF Paths
<1>5. PICK f, g, h : f = F /\ g = G /\ h = H
  BY Zenon
<1>6. PICK b \in T : \A c \in T \ {b} : Before(f, g, h, b, c)
  <2>1. f \in [T -> Nat] /\ g \in [T -> Nat] /\ h \in [T -> Nat]
    BY <1>2, <1>3, <1>4, <1>5
  <2> HIDE DEF T, F, G, H
  <2> QED BY <1>4, <2>1, First, Zenon
<1>7. ASSUME NEW c \in T \ {b} PROVE Preferred(a, p, b, c)
  <2>1. f[b] \in Nat /\ f[c] \in Nat /\ g[b] \in Nat /\ g[c] \in Nat /\ Before(f, g, h, b, c)
    BY <1>2, <1>3, <1>5, <1>6, Zenon
  <2>2. b # a /\ c # a /\ b \in Paths(a, p) /\ c \in Paths(a, p)
    BY <1>1
  <2> QED BY <1>5, <2>1, <2>2, BeforeIsPreferred
<1> QED BY <1>6, <1>7

\* bgp_best_selection finds a path if there is one.
LEMMA BestIsPath ==
  ASSUME Inv, NEW a \in AS, NEW p \in Prefixes, Best(a, p) # NoAS
  PROVE  Best(a, p) \in Paths(a, p)
<1>1. Paths(a, p) # {} /\ Best(a, p) = CHOOSE b \in Paths(a, p) :
                            \A c \in Paths(a, p) \ {b} : Preferred(a, p, b, c)
  BY Zenon DEF Best, Paths
<1>2. \E b \in Paths(a, p) : \A c \in Paths(a, p) \ {b} : Preferred(a, p, b, c)
  <2>1. CASE a \in Paths(a, p)
    <3>1. \A c \in Paths(a, p) \ {a} : Preferred(a, p, a, c)
      BY Zenon DEF Preferred
    <3> QED BY <2>1, <3>1
  <2> QED BY <1>1, <2>1, BestOfOthers
<1> QED BY <1>1, <1>2

\* What is announced of p: nothing, or one of the paths.
LEMMA SelectionIsPath ==
  ASSUME Inv, NEW a \in AS, NEW p \in Prefixes
  PROVE  \/ Selection(a, p) = NotSent
         \/ \E b \in Paths(a, p) : Selection(a, p) = [route |-> rib[a][p][b], from |-> b]
<1>1. CASE Best(a, p) = NoAS
  BY <1>1 DEF Selection
<1>2. CASE Best(a, p) # NoAS
  BY <1>2, BestIsPath DEF Selection
<1> QED BY <1>1, <1>2

(***************************************************************************)
(* Receiving announcements.                                                *)
(***************************************************************************)

\* The key of no route, and of an own one, is no key.
LEMMA NoKeyRoutes ==
  ASSUME NEW n \in Nat
  PROVE  NoRoute \in RoutesTo(n) /\ Own \in RoutesTo(n)
BY DEF NoRoute, Own, RoutesTo, NoKey

\* The first UPDATE on the way from b to a.
LEMMA HeadUpdate ==
  ASSUME Inv, NEW a \in AS, NEW b \in Neighbours(a), chan[b][a] # <<>>
  PROVE  /\ b \in AS /\ Len(store) \in Nat
         /\ Head(chan[b][a]).dest \subseteq Prefixes
         /\ Head(chan[b][a]).route \in RoutesTo(Len(store))
         /\ Tail(chan[b][a]) \in Seq([dest : SUBSET Prefixes, route : RoutesTo(Len(store))])
<1>1. b \in AS /\ Len(store) \in Nat
  BY DEF Inv, Neighbours
<1>2. PICK M : M = [dest : SUBSET Prefixes, route : RoutesTo(Len(store))]
  BY Zenon
<1>3. chan[b][a] \in Seq(M)
  BY <1>1, <1>2, Zenon DEF Inv, Tables
<1>4. Head(chan[b][a]) \in M /\ Tail(chan[b][a]) \in Seq(M)
  BY <1>3
<1> QED BY <1>1, <1>2, <1>4

\* One UPDATE is taken from a channel.
LEMMA TakeUpdate ==
  ASSUME Inv, NEW a \in AS, NEW b \in Neighbours(a), chan[b][a] # <<>>,
         chan' = [chan EXCEPT ![b][a] = Tail(@)]
  PROVE  chan' \in [AS -> [AS -> Seq([dest : SUBSET Prefixes, route : RoutesTo(Len(store))])]]
<1>1. PICK M : M = [dest : SUBSET Prefixes, route : RoutesTo(Len(store))]
  BY Zenon
<1>2. Tail(chan[b][a]) \in Seq(M) /\ b \in AS
  BY <1>1, HeadUpdate, Zenon
<1>3. PICK S : S = Seq(M)
  OBVIOUS
<1>4. chan \in [AS -> [AS -> S]] /\ Tail(chan[b][a]) \in S
  BY <1>1, <1>2, <1>3, SMTT(60) DEF Inv, Tables
<1>5. chan' \in [AS -> [AS -> S]]
  BY <1>2, <1>4
<1> QED BY <1>1, <1>3, <1>5, Zenon

\* A path that a Wiser router enters has a key.
LEMMA KeyedKept ==
  ASSUME Inv, \A c \in AS : \A p \in Prefixes : \A d \in AS :
                \/ rib'[c][p][d] = rib[c][p][d]
                \/ rib'[c][p][d] = NoRoute
                \/ rib'[c][p][d].key # NoKey
                \/ c \notin Wiser
  PROVE  Keyed'
<1> SUFFICES ASSUME NEW c \in Wiser, NEW p \in Prefixes, NEW d \in AS \ {c}
             PROVE  rib'[c][p][d] = NoRoute \/ rib'[c][p][d].key # NoKey
  BY DEF Keyed
<1>1. c \in AS /\ (rib[c][p][d] = NoRoute \/ rib[c][p][d].key # NoKey)
  BY WiserAssumption DEF Inv, Keyed
<1> QED BY <1>1

\* A path that is not usable.
LEMMA UnusableInv ==
  ASSUME Inv, NEW a \in AS, NEW b \in Neighbours(a), ReceiveUnusable(a, b)
  PROVE  Inv'
<1> DEFINE m == Head(chan[b][a])
<1>1. /\ chan[b][a] # <<>>
      /\ Removed(a, b, m.dest)
      /\ adjin' = AdjIn(a, b, m.dest, m.route)
      /\ chan' = [chan EXCEPT ![b][a] = Tail(@)]
      /\ UNCHANGED <<store, received, sent, changed, work, commands, aborted>>
  BY Zenon DEF ReceiveUnusable
<1>2. PICK R : R = RoutesTo(Len(store))
  OBVIOUS
<1>3. b \in AS /\ m.dest \subseteq Prefixes /\ m.route \in R /\ NoRoute \in R
  BY <1>1, <1>2, HeadUpdate, NoKeyRoutes
<1>4. PICK D, r : D = m.dest /\ r = m.route
  BY Zenon
<1>5. rib \in [AS -> [Prefixes -> [AS -> R]]] /\ adjin \in [AS -> [Prefixes -> [AS -> R]]]
  BY <1>2 DEF Inv, Tables
<1> HIDE DEF m
<1>6. rib' \in [AS -> [Prefixes -> [AS -> R]]]
  BY <1>1, <1>3, <1>5 DEF Removed
<1>7. adjin' \in [AS -> [Prefixes -> [AS -> R]]]
  BY <1>1, <1>3, <1>5 DEF AdjIn
<1>8. Tables(R)'
  BY <1>1, <1>2, <1>6, <1>7, TakeUpdate, Zenon DEF Inv, Tables
<1>9. scheduled' \in [AS -> SUBSET Prefixes]
  BY <1>1, <1>3 DEF Inv, Removed
<1>10. Keyed'
  <2>1. ASSUME NEW c \in AS, NEW p \in Prefixes, NEW d \in AS
        PROVE  rib'[c][p][d] = rib[c][p][d] \/ rib'[c][p][d] = NoRoute
    BY <1>1, <1>3, <1>5 DEF Removed
  <2> QED BY <2>1, KeyedKept
<1>11. Works(R)'
  BY <1>1, <1>2 DEF Inv, Works
<1> QED BY <1>1, <1>2, <1>8, <1>9, <1>10, <1>11 DEF Inv, NoAssertionFails

\* A baseline AS takes a path as it comes.
LEMMA BaselineInv ==
  ASSUME Inv, NEW a \in AS, NEW b \in Neighbours(a), ReceiveBaseline(a, b)
  PROVE  Inv'
<1> DEFINE m == Head(chan[b][a])
           same == {p \in m.dest : rib[a][p][b] = m.route}
<1>1. /\ chan[b][a] # <<>> /\ a \notin Wiser
      /\ rib' = [rib EXCEPT ![a] = [p \in Prefixes |->
                    IF p \in m.dest THEN [@[p] EXCEPT ![b] = m.route] ELSE @[p]]]
      /\ adjin' = AdjIn(a, b, m.dest, m.route)
      /\ Entered(a, b, m.dest, same)
      /\ chan' = [chan EXCEPT ![b][a] = Tail(@)]
      /\ UNCHANGED <<store, received, sent, work, commands, aborted>>
  BY Zenon DEF ReceiveBaseline
<1>2. PICK R : R = RoutesTo(Len(store))
  OBVIOUS
<1>3. b \in AS /\ m.dest \subseteq Prefixes /\ m.route \in R
  BY <1>1, <1>2, HeadUpdate
<1>4. rib \in [AS -> [Prefixes -> [AS -> R]]] /\ adjin \in [AS -> [Prefixes -> [AS -> R]]]
  BY <1>2 DEF Inv, Tables
<1> HIDE DEF m
<1>5. rib' \in [AS -> [Prefixes -> [AS -> R]]]
  BY <1>1, <1>3, <1>4
<1>6. adjin' \in [AS -> [Prefixes -> [AS -> R]]]
  BY <1>1, <1>3, <1>4, SMTT(60) DEF AdjIn
<1>7. Tables(R)'
  BY <1>1, <1>2, <1>5, <1>6, TakeUpdate, Zenon DEF Inv, Tables
<1>8. scheduled' \in [AS -> SUBSET Prefixes]
  <2> HIDE DEF same
  <2> QED BY <1>1, <1>3 DEF Inv, Entered
<1>9. Keyed'
  <2>1. ASSUME NEW c \in AS, NEW p \in Prefixes, NEW d \in AS
        PROVE  rib'[c][p][d] = rib[c][p][d] \/ c \notin Wiser
    BY <1>1, <1>4
  <2> QED BY <2>1, KeyedKept
<1>10. Works(R)'
  BY <1>1, <1>2 DEF Inv, Works
<1> QED BY <1>1, <1>2, <1>7, <1>8, <1>9, <1>10 DEF Inv, NoAssertionFails

(***************************************************************************)
(* The steps of a Wiser router on one announcement.                        *)
(***************************************************************************)

\* A step that changes nothing but a router's work and perhaps a counter.
LEMMA WorkStep ==
  ASSUME Inv, NEW a \in AS, NEW w, IsWork(a, w, RoutesTo(Len(store))),
         work' = [work EXCEPT ![a] = w],
         received' \in [AS -> [AS -> Counters]],
         Tables(RoutesTo(Len(store)))', UNCHANGED <<store, rib, scheduled, aborted>>
  PROVE  Inv'
<1>1. PICK R : R = RoutesTo(Len(store))
  OBVIOUS
<1>2. Works(R)'
  <2>1. work = [c \in AS |-> work[c]] /\ \A c \in AS : IsWork(c, work[c], R)
    BY <1>1 DEF Inv, Works
  <2>2. work' = [c \in AS |-> IF c = a THEN w ELSE work[c]]
    BY <2>1
  <2>3. \A c \in AS : IsWork(c, work'[c], R)
    BY <1>1, <2>1, <2>2
  <2>4. work' = [c \in AS |-> work'[c]]
    BY <2>2, Zenon
  <2> QED BY <2>3, <2>4, Zenon DEF Works, IsWork, Neighbours, Links
<1>3. Keyed'
  BY DEF Inv, Keyed
<1> QED BY <1>1, <1>2, <1>3 DEF Inv, NoAssertionFails

\* A router without work.
LEMMA IdleIsWork ==
  ASSUME NEW a \in AS, NEW R
  PROVE  IsWork(a, Idle, R)
<1>1. PICK q : q = CHOOSE p \in Prefixes : TRUE
  OBVIOUS
<1>2. Idle = [phase |-> "idle", from |-> NoAS, input |-> <<>>, prefix |-> q,
              info |-> NoInfo, mine |-> Absent]
  BY <1>1 DEF Idle
<1>3. DOMAIN Idle.input = {}
  BY <1>2
<1> QED BY <1>2, <1>3 DEF IsWork, HasFields, NoInfo, Counters, Absent

\* A router that is about to look up the first of some announcements.
Starting(b, input) == [Idle EXCEPT !.phase = "lookup", !.from = b, !.input = input]

\* It starts as it should.
LEMMA StartingIsWork ==
  ASSUME NEW a \in AS, NEW b \in Neighbours(a), NEW R, NEW input,
         DOMAIN input \subseteq Prefixes, \A p \in DOMAIN input : input[p] \in R
  PROVE  IsWork(a, Starting(b, input), R)
<1> DEFINE w == Starting(b, input)
<1>1. HasFields(Idle) /\ b \in AS
  BY IdleIsWork, Zenon DEF IsWork, Neighbours
<1>2. HasFields(w) /\ w.phase = "lookup" /\ w.from = b /\ w.input = input
  BY <1>1, Zenon DEF HasFields, Starting
<1> HIDE DEF w
<1>3. IsWork(a, w, R)
  BY <1>1, <1>2 DEF IsWork
<1> QED BY <1>3 DEF w

\* A Wiser router takes an UPDATE.
LEMMA WiserInv ==
  ASSUME Inv, NEW a \in AS, NEW b \in Neighbours(a), ReceiveWiser(a, b)
  PROVE  Inv'
<1> DEFINE m == Head(chan[b][a])
           input == [p \in m.dest |-> m.route]
<1>1. /\ chan[b][a] # <<>>
      /\ adjin' = AdjIn(a, b, m.dest, m.route)
      /\ work' = [work EXCEPT ![a] = Starting(b, input)]
      /\ chan' = [chan EXCEPT ![b][a] = Tail(@)]
      /\ UNCHANGED <<store, received, rib, sent, scheduled, changed, commands, aborted>>
  BY Zenon DEF ReceiveWiser, Starting
<1>2. PICK R : R = RoutesTo(Len(store))
  OBVIOUS
<1>3. b \in AS /\ m.dest \subseteq Prefixes /\ m.route \in R
  BY <1>1, <1>2, HeadUpdate
<1>4. DOMAIN input \subseteq Prefixes /\ \A p \in DOMAIN input : input[p] \in R
  BY <1>3
<1> HIDE DEF m, input
<1>5. IsWork(a, Starting(b, input), R)
  BY <1>4, StartingIsWork
<1>6. adjin \in [AS -> [Prefixes -> [AS -> R]]]
  BY <1>2 DEF Inv, Tables
<1>7. adjin' \in [AS -> [Prefixes -> [AS -> R]]]
  BY <1>1, <1>3, <1>6, SMTT(60) DEF AdjIn
<1>8. Tables(R)'
  BY <1>1, <1>2, <1>7, TakeUpdate, Zenon DEF Inv, Tables
<1>9. received' \in [AS -> [AS -> Counters]]
  BY <1>1 DEF Inv
<1> QED BY <1>1, <1>2, <1>5, <1>8, <1>9, WorkStep, Zenon

\* It takes what the Adj-RIB-In holds.
LEMMA ReconfigInv ==
  ASSUME Inv, NEW a \in AS, NEW b \in Neighbours(a), bgp_soft_reconfig_in(a, b)
  PROVE  Inv'
<1> DEFINE S == {p \in Prefixes : ~NotUsable(a, adjin[a][p][b])}
           input == [p \in S |-> adjin[a][p][b]]
<1>1. /\ work' = [work EXCEPT ![a] = Starting(b, input)]
      /\ UNCHANGED <<store, received, chan, rib, adjin, sent, scheduled, changed, aborted>>
  BY Zenon DEF bgp_soft_reconfig_in, Starting
<1>2. PICK R : R = RoutesTo(Len(store))
  OBVIOUS
<1>3. b \in AS /\ adjin \in [AS -> [Prefixes -> [AS -> R]]]
  BY <1>2 DEF Inv, Tables, Neighbours
<1>4. DOMAIN input \subseteq Prefixes /\ \A p \in DOMAIN input : input[p] \in R
  BY <1>3
<1> HIDE DEF S, input
<1>5. IsWork(a, Starting(b, input), R)
  BY <1>4, StartingIsWork
<1>6. Tables(R)' /\ received' \in [AS -> [AS -> Counters]]
  BY <1>1, <1>2, Zenon DEF Inv, Tables
<1> QED BY <1>1, <1>2, <1>5, <1>6, WorkStep, Zenon

\* The control info under a key that is held has been SET.
LEMMA LookupInv ==
  ASSUME Inv, NEW a \in AS, GetControlInformation(a)
  PROVE  Inv'
<1>1. PICK R : R = RoutesTo(Len(store))
  OBVIOUS
<1>2. IsWork(a, work[a], R) /\ Len(store) \in Nat /\ work = [c \in AS |-> work[c]]
  BY <1>1 DEF Inv, Works
<1>3. PICK p \in DOMAIN work[a].input :
        LET k == work[a].input[p].key
            info == IF k = NoKey THEN NoInfo ELSE store[k]
        IN  IF k # NoKey /\ k \notin DOMAIN store
            THEN Abort(a) /\ UNCHANGED work
            ELSE /\ work' = [work EXCEPT ![a].prefix = p, ![a].info = info,
                               ![a].phase = IF info.cost = Absent THEN "set" ELSE "increment"]
                 /\ UNCHANGED aborted
  BY Zenon DEF GetControlInformation
<1> DEFINE k == work[a].input[p].key
           info == IF k = NoKey THEN NoInfo ELSE store[k]
           next == IF info.cost = Absent THEN "set" ELSE "increment"
<1>4. k \in 0..Len(store)
  BY <1>1, <1>2 DEF IsWork, RoutesTo
<1>5. k # NoKey => k \in DOMAIN store /\ store[k] \in Infos
  <2>1. k # NoKey => k \in 1..Len(store)
    <3> HIDE DEF k
    <3> QED BY <1>2, <1>4 DEF NoKey
  <2> QED BY <2>1 DEF Inv
<1>6. /\ work' = [work EXCEPT ![a].prefix = p, ![a].info = info, ![a].phase = next]
      /\ UNCHANGED aborted
  BY <1>3, <1>5, Zenon
<1>7. /\ info \in [cost : Nat \cup {Absent}, last : AS \cup {Absent}]
      /\ next = "set" \/ (next = "increment" /\ info \in Infos)
  <2>1. CASE k = NoKey
    BY <2>1, SMTT(60) DEF NoInfo
  <2>2. CASE k # NoKey
    BY <1>5, <2>2 DEF Infos, Absent
  <2> QED BY <2>1, <2>2, Zenon
<1> HIDE DEF k, info, next
<1> DEFINE w == [work[a] EXCEPT !.prefix = p, !.info = info, !.phase = next]
<1>8. work' = [work EXCEPT ![a] = w]
  BY <1>2, <1>6, Zenon
<1>9. IsWork(a, w, R)
  <2>1. /\ HasFields(w) /\ w.phase = next /\ w.info = info /\ w.prefix = p
        /\ w.from = work[a].from /\ w.input = work[a].input
    BY <1>2, <1>7, Zenon DEF IsWork, HasFields
  <2>2. p \in DOMAIN work[a].input /\ work[a].phase = "lookup"
    BY <1>3, Zenon DEF GetControlInformation, At
  <2> QED BY <1>2, <1>7, <2>1, <2>2 DEF IsWork
<1>10. UNCHANGED <<store, received, chan, rib, adjin, sent, scheduled>>
  BY Zenon DEF GetControlInformation
<1>11. Tables(R)' /\ received' \in [AS -> [AS -> Counters]]
  BY <1>1, <1>10, Zenon DEF Inv, Tables
<1> QED BY <1>1, <1>6, <1>8, <1>9, <1>10, <1>11, WorkStep, Zenon

\* A counter grows by a positive cost.
LEMMA IncrementInv ==
  ASSUME Inv, NEW a \in AS, IncrementWiserCosts(a)
  PROVE  Inv'
<1> DEFINE w == work[a]
           b == w.info.last
           total == (IF received[a][b] = Absent THEN 0 ELSE received[a][b]) + w.info.cost
<1>1. /\ w.phase = "increment"
      /\ received' = [received EXCEPT ![a][b] = total]
      /\ work' = [work EXCEPT ![a].phase = "retrieve"]
      /\ UNCHANGED <<store, chan, rib, adjin, sent, scheduled, changed, commands, aborted>>
  BY Zenon DEF IncrementWiserCosts, At
<1>2. PICK R : R = RoutesTo(Len(store))
  OBVIOUS
<1>3. IsWork(a, w, R) /\ work = [c \in AS |-> work[c]]
  BY <1>2 DEF Inv, Works
<1>4. w.info \in Infos
  BY <1>1, <1>3 DEF IsWork
<1>5. b \in AS /\ total \in Nat \ {0} /\ received \in [AS -> [AS -> Counters]]
  <2>1. b \in AS /\ w.info.cost \in Nat \ {0}
    BY <1>4 DEF Infos
  <2>2. received \in [AS -> [AS -> Counters]] /\ received[a][b] \in Counters
    BY <2>1 DEF Inv
  <2> HIDE DEF w, b
  <2> QED BY <2>1, <2>2 DEF Counters, Absent
<1>6. received' \in [AS -> [AS -> Counters]]
  <2>1. total \in Counters
    BY <1>5 DEF Counters
  <2> HIDE DEF total, b
  <2> QED BY <1>1, <1>5, <2>1, SMTT(60)
<1>7. work' = [work EXCEPT ![a] = [w EXCEPT !.phase = "retrieve"]]
  BY <1>1, <1>3
<1>8. IsWork(a, [w EXCEPT !.phase = "retrieve"], R)
  BY <1>1, <1>3 DEF IsWork, HasFields
<1>9. Tables(R)'
  BY <1>1, <1>2, Zenon DEF Inv, Tables
<1> HIDE DEF w, b, total
<1> QED BY <1>1, <1>2, <1>6, <1>7, <1>8, <1>9, WorkStep, Zenon

\* The router's own counter is read.
LEMMA RetrieveInv ==
  ASSUME Inv, NEW a \in AS, RetrieveWiserCosts(a)
  PROVE  Inv'
<1> DEFINE w == work[a]
           mine == received[a][w.info.last]
<1>1. /\ w.phase = "retrieve"
      /\ work' = [work EXCEPT ![a].mine = mine, ![a].phase = "normalize"]
      /\ UNCHANGED <<store, received, chan, rib, adjin, sent, scheduled, aborted>>
  BY Zenon DEF RetrieveWiserCosts, At
<1>2. PICK R : R = RoutesTo(Len(store))
  OBVIOUS
<1>3. IsWork(a, w, R) /\ work = [c \in AS |-> work[c]]
  BY <1>2 DEF Inv, Works
<1>4. mine \in Counters
  BY <1>1, <1>3 DEF IsWork, Infos, Inv
<1> HIDE DEF mine
<1>5. work' = [work EXCEPT ![a] = [w EXCEPT !.mine = mine, !.phase = "normalize"]]
  BY <1>1, <1>3, Zenon
<1>6. IsWork(a, [w EXCEPT !.mine = mine, !.phase = "normalize"], R)
  BY <1>1, <1>3, <1>4 DEF IsWork, HasFields
<1>7. Tables(R)' /\ received' \in [AS -> [AS -> Counters]]
  BY <1>1, <1>2, Zenon DEF Inv, Tables
<1> HIDE DEF w
<1> QED BY <1>1, <1>2, <1>5, <1>6, <1>7, WorkStep, Zenon

\* The quotient of positive counters gives a cost.
LEMMA NormalizedNat ==
  ASSUME NEW cost \in Nat, NEW mine \in Counters, NEW theirs \in Counters
  PROVE  Normalized(cost, mine, theirs) \in Nat
<1>1. CASE mine = Absent \/ theirs = Absent
  BY <1>1 DEF Normalized
<1>2. CASE mine # Absent /\ theirs # Absent
  <2>1. mine \in Nat \ {0} /\ theirs \in Nat
    BY <1>2 DEF Counters
  <2>2. PICK prod : prod = cost * theirs
    OBVIOUS
  <2>3. prod \in Nat
    BY <2>1, <2>2
  <2>4. prod \div mine \in Nat
    BY <2>1, <2>3
  <2> QED BY <1>2, <2>2, <2>4 DEF Normalized
<1> QED BY <1>1, <1>2

\* Neither counter is zero, so no assertion fails.
LEMMA NormalizeInv ==
  ASSUME Inv, NEW a \in AS, ComputeNormalizationForAdvert(a)
  PROVE  Inv'
<1> DEFINE w == work[a]
           theirs == received[w.info.last][a]
           cost == Normalized(w.info.cost, w.mine, theirs)
           v == [w EXCEPT !.info.cost = cost, !.phase = "set"]
<1>1. PICK R : R = RoutesTo(Len(store))
  OBVIOUS
<1>2. IsWork(a, w, R) /\ work = [c \in AS |-> work[c]] /\ w.phase = "normalize"
  BY <1>1 DEF Inv, Works, ComputeNormalizationForAdvert, At
<1>3. w.info \in Infos /\ w.mine \in Counters /\ theirs \in Counters
  BY <1>2 DEF IsWork, HasFields, Inv, Infos
<1>4. w.mine # 0 /\ theirs # 0
  BY <1>3 DEF Counters, Absent
<1>5. /\ work' = [work EXCEPT ![a].info.cost = Normalized(@, w.mine, theirs), ![a].phase = "set"]
      /\ UNCHANGED <<store, received, chan, rib, adjin, sent, scheduled, aborted>>
  BY <1>4, Zenon DEF ComputeNormalizationForAdvert
<1>6. cost \in Nat
  BY <1>3, NormalizedNat DEF Infos
<1>7. work' = [work EXCEPT ![a] = v]
  BY <1>2, <1>5, Zenon
<1> HIDE DEF cost
<1>8. IsWork(a, v, R)
  <2>1. /\ HasFields(v) /\ v.phase = "set" /\ v.from = w.from /\ v.input = w.input
        /\ v.prefix = w.prefix
    BY <1>2, <1>3, <1>6, Zenon DEF IsWork, HasFields, Infos
  <2> HIDE DEF v
  <2> QED BY <1>2, <2>1 DEF IsWork
<1>9. Tables(R)' /\ received' \in [AS -> [AS -> Counters]]
  BY <1>1, <1>5, Zenon DEF Inv, Tables
<1> HIDE DEF w, v
<1> QED BY <1>1, <1>5, <1>7, <1>8, <1>9, WorkStep, Zenon

(***************************************************************************)
(* set_control_info.                                                       *)
(***************************************************************************)

\* The keys that have been SET stay so.
LEMMA RoutesGrow ==
  ASSUME NEW n \in Nat
  PROVE  /\ RoutesTo(n) \subseteq RoutesTo(n + 1)
         /\ \A r \in RoutesTo(n) : /\ [r EXCEPT !.key = n + 1] \in RoutesTo(n + 1)
                                   /\ [r EXCEPT !.key = n + 1].key = n + 1
                                   /\ [r EXCEPT !.key = n + 1].path = r.path
BY DEF RoutesTo

\* Writing the new key in place.
LEMMA RekeyedRoutes ==
  ASSUME NEW n \in Nat, NEW S, NEW routes, NEW k,
         DOMAIN routes = S, \A x \in S : routes[x] \in RoutesTo(n)
  PROVE  /\ Rekeyed(routes, k, n + 1) \in [S -> RoutesTo(n + 1)]
         /\ \A x \in S : \/ Rekeyed(routes, k, n + 1)[x] = routes[x]
                         \/ Rekeyed(routes, k, n + 1)[x].key = n + 1
<1>1. ASSUME NEW x \in S
      PROVE  /\ routes[x] \in RoutesTo(n + 1)
             /\ [routes[x] EXCEPT !.key = n + 1] \in RoutesTo(n + 1)
             /\ [routes[x] EXCEPT !.key = n + 1].key = n + 1
  BY RoutesGrow
<1> QED BY <1>1 DEF Rekeyed

\* Entering the path under it.
LEMMA PathsEntered ==
  ASSUME NEW n \in Nat, NEW S, NEW paths, NEW q, NEW w,
         DOMAIN paths = S, \A x \in S : paths[x] \in RoutesTo(n),
         w.from \in S, w.input[w.prefix] \in RoutesTo(n)
  PROVE  /\ PathsUnder(paths, q, w, n + 1) \in [S -> RoutesTo(n + 1)]
         /\ \A x \in S : PathsUnder(paths, q, w, n + 1)[x]
              = IF x = w.from /\ q = w.prefix THEN [w.input[w.prefix] EXCEPT !.key = n + 1]
                ELSE Rekeyed(paths, w.input[w.prefix].key, n + 1)[x]
<1> DEFINE k == w.input[w.prefix].key
           r == Rekeyed(paths, k, n + 1)
           new == [w.input[w.prefix] EXCEPT !.key = n + 1]
           f == w.from
           Q == RoutesTo(n + 1)
<1>1. r \in [S -> Q] /\ new \in Q /\ f \in S
  BY RekeyedRoutes, RoutesGrow
<1>2. PathsUnder(paths, q, w, n + 1) = [r EXCEPT ![f] = IF q = w.prefix THEN new ELSE @]
  BY Zenon DEF PathsUnder
<1> HIDE DEF k, r, new, f, Q
<1>3. /\ [r EXCEPT ![f] = IF q = w.prefix THEN new ELSE @] \in [S -> Q]
      /\ \A x \in S : [r EXCEPT ![f] = IF q = w.prefix THEN new ELSE @][x]
                        = IF x = f /\ q = w.prefix THEN new ELSE r[x]
  BY <1>1
<1>4. /\ PathsUnder(paths, q, w, n + 1) \in [S -> Q]
      /\ \A x \in S : PathsUnder(paths, q, w, n + 1)[x]
                        = IF x = f /\ q = w.prefix THEN new ELSE r[x]
  BY <1>2, <1>3, Zenon
<1> QED BY <1>4 DEF k, r, new, f, Q

\* Writing it into UPDATEs.
LEMMA RekeyedMessages ==
  ASSUME NEW n \in Nat, NEW k,
         NEW updates \in Seq([dest : SUBSET Prefixes, route : RoutesTo(n)])
  PROVE  /\ RekeyedUpdates(updates, k, n + 1)
              \in Seq([dest : SUBSET Prefixes, route : RoutesTo(n + 1)])
         /\ updates \in Seq([dest : SUBSET Prefixes, route : RoutesTo(n + 1)])
<1> DEFINE M == [dest : SUBSET Prefixes, route : RoutesTo(n + 1)]
           u(i) == IF k # NoKey /\ updates[i].route.key = k
                   THEN [updates[i] EXCEPT !.route.key = n + 1] ELSE updates[i]
<1>1. ASSUME NEW i \in 1..Len(updates) PROVE updates[i] \in M /\ u(i) \in M
  <2>1. PICK m : m = updates[i]
    OBVIOUS
  <2>2. m \in [dest : SUBSET Prefixes, route : RoutesTo(n)]
    <3>1. PICK X : X = [dest : SUBSET Prefixes, route : RoutesTo(n)]
      OBVIOUS
    <3>2. updates \in Seq(X)
      BY <3>1, Zenon
    <3>3. \A q \in Seq(X) : \A j \in 1..Len(q) : q[j] \in X
      OBVIOUS
    <3> QED BY <2>1, <3>1, <3>2, <3>3, Zenon
  <2>3. m.route \in RoutesTo(n + 1) /\ [m.route EXCEPT !.key = n + 1] \in RoutesTo(n + 1)
    BY <2>2, RoutesGrow
  <2>4. m \in M
    BY <2>2, <2>3
  <2>5. [m EXCEPT !.route.key = n + 1] \in M
    BY <2>2, <2>3
  <2> QED BY <2>1, <2>4, <2>5
<1>2. Len(updates) \in Nat /\ DOMAIN updates = 1..Len(updates)
  OBVIOUS
<1>3. RekeyedUpdates(updates, k, n + 1) = [i \in 1..Len(updates) |-> u(i)]
  BY <1>2, Zenon DEF RekeyedUpdates
<1>4. updates = [i \in 1..Len(updates) |-> updates[i]]
  OBVIOUS
<1>5. updates \in Seq(M)
  <2> HIDE DEF M, u
  <2>1. [i \in 1..Len(updates) |-> updates[i]] \in Seq(M)
    BY <1>1, <1>2
  <2> QED BY <1>4, <2>1
<1>6. [i \in 1..Len(updates) |-> u(i)] \in Seq(M)
  <2> HIDE DEF M, u
  <2> QED BY <1>1, <1>2, SMTT(60)
<1> QED BY <1>3, <1>5, <1>6, SMTT(60)

\* The stored cost is positive, because that of the link is.
LEMMA StoredInfo ==
  ASSUME Inv, NEW a \in AS, work[a].phase = "set"
  PROVE  SetWiserControlInfo(a, work[a]) \in Infos
<1>1. PICK w : w = work[a]
  OBVIOUS
<1>2. HasFields(w) /\ w.from \in Neighbours(a)
  BY <1>1 DEF Inv, Works, IsWork
<1>3. LinkCost[<<a, w.from>>] \in Nat \ {0}
  BY <1>2, WiserAssumption, Zenon DEF Neighbours
<1>4. w.info.cost \in Nat \cup {Absent}
  BY <1>2 DEF HasFields
<1>5. (IF w.info.cost = Absent THEN 0 ELSE w.info.cost) + LinkCost[<<a, w.from>>] \in Nat \ {0}
  BY <1>3, <1>4 DEF Absent
<1> QED BY <1>1, <1>5 DEF SetWiserControlInfo, Infos

\* The tables of a router that has SET a key.
LEMMA SetTables ==
  ASSUME Inv, NEW a \in AS, set_control_info(a), NEW Q, Q = RoutesTo(Len(store) + 1)
  PROVE  Tables(Q)' /\ Keyed'
<1> DEFINE w == work[a]
           p == w.prefix
           f == w.from
           old == w.input[p]
           k == old.key
           n == Len(store)
           new == [old EXCEPT !.key = n + 1]
           R == RoutesTo(n)
<1>1. /\ w.phase = "set"
      /\ rib' = [rib EXCEPT ![a] = [q \in Prefixes |-> PathsUnder(@[q], q, w, n + 1)]]
      /\ adjin' = [adjin EXCEPT ![a] = [q \in Prefixes |-> Rekeyed(@[q], k, n + 1)]]
      /\ \E late \in SUBSET Neighbours(a) :
           chan' = [chan EXCEPT ![a] = [b \in AS |->
                      IF b \in late THEN RekeyedUpdates(@[b], k, n + 1) ELSE @[b]]]
      /\ sent' = sent
  BY Zenon DEF set_control_info, At
<1>2. n \in Nat /\ IsWork(a, w, R)
  BY DEF Inv, Works
<1>4. Q = RoutesTo(n + 1)
  OBVIOUS
<1>3. old \in R /\ p \in Prefixes /\ f \in AS
  BY <1>1, <1>2 DEF IsWork, Neighbours
<1>5. new \in Q /\ new.key = n + 1 /\ R \subseteq Q
  BY <1>2, <1>3, RoutesGrow
<1>6. rib \in [AS -> [Prefixes -> [AS -> R]]] /\ adjin \in [AS -> [Prefixes -> [AS -> R]]]
  BY SMTT(60) DEF Inv, Tables
<1>7. ASSUME NEW q \in Prefixes
      PROVE  /\ Rekeyed(rib[a][q], k, n + 1) \in [AS -> Q]
             /\ \A x \in AS : \/ Rekeyed(rib[a][q], k, n + 1)[x] = rib[a][q][x]
                              \/ Rekeyed(rib[a][q], k, n + 1)[x].key = n + 1
             /\ Rekeyed(adjin[a][q], k, n + 1) \in [AS -> Q]
  <2>1. /\ DOMAIN rib[a][q] = AS /\ \A x \in AS : rib[a][q][x] \in RoutesTo(n)
        /\ DOMAIN adjin[a][q] = AS /\ \A x \in AS : adjin[a][q][x] \in RoutesTo(n)
    BY <1>6, SMTT(60)
  <2> HIDE DEF n, k
  <2> QED BY <1>2, <1>4, <2>1, RekeyedRoutes
<1>8. ASSUME NEW q \in Prefixes
      PROVE  /\ PathsUnder(rib[a][q], q, w, n + 1) \in [AS -> Q]
             /\ \A x \in AS : PathsUnder(rib[a][q], q, w, n + 1)[x]
                  = IF x = f /\ q = p THEN new ELSE Rekeyed(rib[a][q], k, n + 1)[x]
  <2>1. DOMAIN rib[a][q] = AS /\ \A x \in AS : rib[a][q][x] \in RoutesTo(n)
    BY <1>6
  <2> HIDE DEF n
  <2> QED BY <1>2, <1>3, <1>4, <2>1, PathsEntered
<1> HIDE DEF w, p, f, old, k, new, R, n
<1>12. rib' \in [AS -> [Prefixes -> [AS -> Q]]]
  <2>1. \A q \in Prefixes : PathsUnder(rib[a][q], q, w, n + 1) \in [AS -> Q]
    BY <1>8
  <2>2. rib \in [AS -> [Prefixes -> [AS -> Q]]]
    BY <1>5, <1>6, SMTT(60)
  <2> QED BY <1>1, <2>1, <2>2, SMTT(60)
<1>13. adjin' \in [AS -> [Prefixes -> [AS -> Q]]]
  <2>1. adjin \in [AS -> [Prefixes -> [AS -> Q]]]
    BY <1>5, <1>6
  <2> QED BY <1>1, <1>7, <2>1
<1>14. sent' \in [AS -> [Prefixes -> [route : Q, from : AS \cup {NoAS}]]]
  <2>1. sent \in [AS -> [Prefixes -> [route : R, from : AS \cup {NoAS}]]]
    BY DEF Inv, Tables, R, n
  <2>2. PICK X, Y : /\ X = [route : R, from : AS \cup {NoAS}]
                    /\ Y = [route : Q, from : AS \cup {NoAS}]
    BY Zenon
  <2>3. X \subseteq Y /\ sent \in [AS -> [Prefixes -> X]]
    BY <1>5, <2>1, <2>2
  <2>4. sent' \in [AS -> [Prefixes -> Y]]
    BY <1>1, <2>3
  <2> QED BY <2>2, <2>4
<1>15. chan' \in [AS -> [AS -> Seq([dest : SUBSET Prefixes, route : Q])]]
  <2>1. PICK S : S = Seq([dest : SUBSET Prefixes, route : Q])
    OBVIOUS
  <2>2. /\ DOMAIN chan = AS /\ \A b, c \in AS : chan[b][c] \in S
        /\ \A b \in AS : DOMAIN chan[b] = AS
        /\ \A c \in AS : RekeyedUpdates(chan[a][c], k, n + 1) \in S
    <3>1. \A b, c \in AS : chan[b][c] \in Seq([dest : SUBSET Prefixes, route : RoutesTo(n)])
      BY Zenon DEF Inv, Tables, n
    <3>2. \A b, c \in AS : chan[b][c] \in S /\ RekeyedUpdates(chan[b][c], k, n + 1) \in S
      BY <1>2, <2>1, <3>1, RekeyedMessages, Zenon DEF n
    <3> QED BY <3>2 DEF Inv, Tables
  <2>3. chan \in [AS -> [AS -> S]]
    BY <2>2 DEF Inv, Tables
  <2>4. chan' \in [AS -> [AS -> S]]
    BY <1>1, <2>2, <2>3
  <2> QED BY <2>1, <2>4, Zenon
<1>16. Tables(Q)'
  BY <1>12, <1>13, <1>14, <1>15, Zenon DEF Tables
<1>17. Keyed'
  <2>1. n + 1 # NoKey
    BY <1>2 DEF NoKey
  <2>2. ASSUME NEW c \in AS, NEW q \in Prefixes, NEW d \in AS
        PROVE  rib'[c][q][d] = rib[c][q][d] \/ rib'[c][q][d].key # NoKey
    <3>1. CASE c # a
      BY <1>1, <1>6, <3>1, SMTT(60)
    <3>2. CASE c = a
      <4>1. rib'[a][q] = PathsUnder(rib[a][q], q, w, n + 1)
        BY <1>1, <1>6, SMTT(60)
      <4>2. rib'[a][q][d] = Rekeyed(rib[a][q], k, n + 1)[d] \/ rib'[a][q][d] = new
        BY <1>8, <4>1
      <4> QED BY <1>5, <1>7, <2>1, <3>2, <4>2, SMTT(60)
    <3> QED BY <3>1, <3>2
  <2> QED BY <2>2, KeyedKept
<1> QED BY <1>16, <1>17

\* A router that has SET a key goes on with the next prefix.
LEMMA SetWorks ==
  ASSUME Inv, NEW a \in AS, set_control_info(a), NEW Q, Q = RoutesTo(Len(store) + 1)
  PROVE  Works(Q)'
<1> DEFINE w == work[a]
           p == w.prefix
           k == w.input[p].key
           n == Len(store)
           rest == [q \in DOMAIN w.input \ {p} |-> w.input[q]]
           v == IF rest = <<>> THEN Idle ELSE Starting(w.from, Rekeyed(rest, k, n + 1))
<1>1. w.phase = "set" /\ work' = [work EXCEPT ![a] = v]
  BY Zenon DEF set_control_info, At, Starting
<1>2. /\ n \in Nat /\ Q = RoutesTo(n + 1) /\ work = [c \in AS |-> work[c]]
      /\ \A c \in AS : IsWork(c, work[c], RoutesTo(n))
  BY SMTT(60) DEF Inv, Works
<1>3. w.from \in Neighbours(a) /\ DOMAIN w.input \subseteq Prefixes
      /\ \A q \in DOMAIN w.input : w.input[q] \in RoutesTo(n)
  BY <1>1, <1>2 DEF IsWork
<1>4. IsWork(a, v, Q)
  <2>1. /\ DOMAIN rest \subseteq Prefixes
        /\ \A q \in DOMAIN rest : rest[q] \in RoutesTo(n)
    BY <1>3
  <2> HIDE DEF rest, k, w, n
  <2>2. PICK S : S = DOMAIN rest
    OBVIOUS
  <2>3. Rekeyed(rest, k, n + 1) \in [S -> Q]
    BY <1>2, <2>1, <2>2, RekeyedRoutes, SMTT(60)
  <2>4. IsWork(a, Starting(w.from, Rekeyed(rest, k, n + 1)), Q)
    BY <1>3, <2>1, <2>2, <2>3, StartingIsWork, SMTT(60)
  <2> QED BY <2>4, IdleIsWork, SMTT(60)
<1>5. ASSUME NEW c \in AS PROVE IsWork(c, work[c], Q)
  <2>1. RoutesTo(n) \subseteq Q /\ IsWork(c, work[c], RoutesTo(n))
    BY <1>2, RoutesGrow
  <2> HIDE DEF n
  <2> QED BY <2>1 DEF IsWork
<1> HIDE DEF v
<1>6. work' = [c \in AS |-> IF c = a THEN v ELSE work[c]]
  BY <1>1, <1>2
<1>7. \A c \in AS : IsWork(c, work'[c], Q)
  BY <1>4, <1>5, <1>6
<1>8. work' = [c \in AS |-> work'[c]]
  BY <1>6, SMTT(60)
<1> QED BY <1>7, <1>8 DEF Works

\* The key is SET before anything holds it.
LEMMA SetInv ==
  ASSUME Inv, NEW a \in AS, set_control_info(a)
  PROVE  Inv'
<1> DEFINE w == work[a]
           info == SetWiserControlInfo(a, w)
           same == {q \in {w.prefix} : w.input[w.prefix].key # NoKey
                                         /\ rib[a][q][w.from] = w.input[w.prefix]}
<1>1. /\ w.phase = "set"
      /\ store' = Append(store, info)
      /\ Entered(a, w.from, {w.prefix}, same)
      /\ UNCHANGED <<received, sent, commands, aborted>>
  BY Zenon DEF set_control_info, At
<1>2. store \in Seq(Infos) /\ info \in Infos
  BY <1>1, StoredInfo, SMTT(60) DEF Inv
<1> HIDE DEF info, same
<1>3. store' \in Seq(Infos) /\ Len(store') = Len(store) + 1
  BY <1>1, <1>2
<1>4. PICK Q : Q = RoutesTo(Len(store) + 1)
  OBVIOUS
<1>5. Tables(Q)' /\ Works(Q)' /\ Keyed'
  BY <1>4, SetTables, SetWorks
<1>6. Q = RoutesTo(Len(store'))
  BY <1>3, <1>4, SMTT(60)
<1>7. scheduled' \in [AS -> SUBSET Prefixes]
  <2>1. w.prefix \in Prefixes
    BY <1>1 DEF Inv, Works, IsWork
  <2> HIDE DEF w
  <2> QED BY <1>1, <2>1, SMTT(60) DEF Inv, Entered
<1> QED BY <1>1, <1>3, <1>5, <1>6, <1>7 DEF Inv, NoAssertionFails

(***************************************************************************)
(* The decision process.                                                   *)
(***************************************************************************)

\* What is announced to a neighbour.
LEMMA AnnouncedUpdates ==
  ASSUME NEW a \in AS, NEW b, NEW S \in SUBSET Prefixes, NEW n \in Nat, NEW s,
         s.route \in RoutesTo(n)
  PROVE  Announced(a, b, S, s) \in Seq([dest : SUBSET Prefixes, route : RoutesTo(n)])
<1> DEFINE gone == {p \in S : sent[a][p] # NotSent /\ sent[a][p].from # b}
           r == [key |-> s.route.key, path |-> <<a>> \o s.route.path]
           M == [dest : SUBSET Prefixes, route : RoutesTo(n)]
<1>1. r \in RoutesTo(n)
  <2>1. s.route.path \in Seq(AS \cup {NoAS}) /\ <<a>> \in Seq(AS \cup {NoAS})
    BY DEF RoutesTo
  <2>2. <<a>> \o s.route.path \in Seq(AS \cup {NoAS})
    BY <2>1, SMTT(60)
  <2> QED BY <2>2 DEF RoutesTo
<1>2. [dest |-> S, route |-> r] \in M /\ [dest |-> gone, route |-> NoRoute] \in M
  BY <1>1, NoKeyRoutes
<1>3. \/ Announced(a, b, S, s) = <<[dest |-> S, route |-> r]>>
      \/ Announced(a, b, S, s) = <<[dest |-> gone, route |-> NoRoute]>>
      \/ Announced(a, b, S, s) = <<>>
  BY Zenon DEF Announced
<1> HIDE DEF r, gone, M
<1>4. Announced(a, b, S, s) \in Seq(M)
  <2>1. PICK u, v : u = [dest |-> S, route |-> r] /\ v = [dest |-> gone, route |-> NoRoute]
    BY Zenon
  <2>2. <<u>> \in Seq(M) /\ <<v>> \in Seq(M) /\ <<>> \in Seq(M)
    BY <1>2, <2>1
  <2> QED BY <1>3, <2>1, <2>2, Zenon
<1> QED BY <1>4 DEF M

\* Paths are selected and announced.
LEMMA ProcessInv ==
  ASSUME Inv, NEW a \in AS, bgp_process_main(a)
  PROVE  Inv'
<1> DEFINE Step(S, s) ==
             LET T == {p \in S : ~NothingToDo(a, p, s)}
             IN  /\ \A p \in S : Selection(a, p) = s
                 /\ sent' = [sent EXCEPT ![a] = [p \in Prefixes |-> IF p \in T THEN s ELSE @[p]]]
                 /\ chan' = [chan EXCEPT ![a] = [b \in AS |->
                                IF b \in Neighbours(a) /\ T # {}
                                THEN @[b] \o Announced(a, b, T, s) ELSE @[b]]]
                 /\ changed' = [changed EXCEPT ![a] = @ \ (T \X {s.from})]
                 /\ scheduled' = [scheduled EXCEPT ![a] = @ \ S]
<1>11. PICK S \in (SUBSET scheduled[a]) \ {{}} : \E s \in {Selection(a, p) : p \in S} : Step(S, s)
  BY Zenon DEF bgp_process_main
<1>1. PICK s \in {Selection(a, p) : p \in S} : Step(S, s)
  BY <1>11, Zenon
<1>2. UNCHANGED <<store, received, rib, adjin, work, commands, aborted>>
  BY Zenon DEF bgp_process_main
<1> DEFINE T == {p \in S : ~NothingToDo(a, p, s)}
           n == Len(store)
<1>3. T \in SUBSET Prefixes /\ S \subseteq Prefixes /\ n \in Nat
  BY DEF Inv
<1>4. s \in [route : RoutesTo(n), from : AS \cup {NoAS}]
  <2>1. PICK p \in S : s = Selection(a, p)
    BY <1>1
  <2>2. CASE s = NotSent
    BY <1>3, <2>2, NoKeyRoutes, SMTT(60) DEF NotSent
  <2>3. CASE \E b \in Paths(a, p) : s = [route |-> rib[a][p][b], from |-> b]
    <3>1. PICK b \in Paths(a, p) : s = [route |-> rib[a][p][b], from |-> b]
      BY <2>3, SMTT(60)
    <3>2. b \in AS /\ rib[a][p][b] \in RoutesTo(n)
      BY <1>3 DEF Inv, Tables, Paths
    <3> QED BY <3>1, <3>2, SMTT(60)
  <2> QED BY <1>3, <2>1, <2>2, <2>3, SelectionIsPath, SMTT(60)
<1>5. /\ sent' = [sent EXCEPT ![a] = [p \in Prefixes |-> IF p \in T THEN s ELSE @[p]]]
      /\ chan' = [chan EXCEPT ![a] = [b \in AS |->
                     IF b \in Neighbours(a) /\ T # {}
                     THEN @[b] \o Announced(a, b, T, s) ELSE @[b]]]
      /\ scheduled' = [scheduled EXCEPT ![a] = @ \ S]
  BY <1>1, Zenon
<1> HIDE DEF T, n
<1>6. sent' \in [AS -> [Prefixes -> [route : RoutesTo(n), from : AS \cup {NoAS}]]]
  <2>1. PICK X : X = [route : RoutesTo(n), from : AS \cup {NoAS}]
    BY Zenon
  <2>2. sent \in [AS -> [Prefixes -> X]] /\ s \in X
    BY <1>4, <2>1 DEF Inv, Tables, n
  <2>3. sent' \in [AS -> [Prefixes -> X]]
    BY <1>5, <2>2
  <2> QED BY <2>1, <2>3, SMTT(60)
<1>7. chan' \in [AS -> [AS -> Seq([dest : SUBSET Prefixes, route : RoutesTo(n)])]]
  <2>1. PICK M : M = [dest : SUBSET Prefixes, route : RoutesTo(n)]
    BY Zenon
  <2>2. chan \in [AS -> [AS -> Seq(M)]]
    BY <2>1, Zenon DEF Inv, Tables, n
  <2>3. \A b \in AS : Announced(a, b, T, s) \in Seq(M)
    BY <1>3, <1>4, <2>1, AnnouncedUpdates
  <2>4. ASSUME NEW b \in AS PROVE chan[a][b] \o Announced(a, b, T, s) \in Seq(M)
    <3>1. chan[a][b] \in Seq(M) /\ Announced(a, b, T, s) \in Seq(M)
      BY <2>2, <2>3
    <3> QED BY <3>1
  <2>5. PICK X : X = Seq(M)
    OBVIOUS
  <2>6. chan' \in [AS -> [AS -> X]]
    BY <1>5, <2>2, <2>4, <2>5, SMTT(60)
  <2> QED BY <2>1, <2>5, <2>6, Zenon
<1>8. scheduled' \in [AS -> SUBSET Prefixes]
  BY <1>5, SMTT(60) DEF Inv
<1>9. Tables(RoutesTo(Len(store)))'
  BY <1>2, <1>6, <1>7, Zenon DEF Inv, Tables, n
<1>10. Works(RoutesTo(Len(store)))' /\ Keyed'
  BY <1>2 DEF Inv, Works, Keyed
<1> QED BY <1>2, <1>8, <1>9, <1>10 DEF Inv, NoAssertionFails

(***************************************************************************)
(* The theorem.                                                            *)
(***************************************************************************)

\* Nothing has been SET, announced or received yet.
LEMMA InitInv == Init => Inv
<1> SUFFICES ASSUME Init PROVE Inv
  OBVIOUS
<1>1. store = <<>> /\ Len(store) = 0 /\ store \in Seq(Infos)
  BY DEF Init
<1>2. PICK R : R = RoutesTo(Len(store))
  OBVIOUS
<1>3. NoRoute \in R /\ Own \in R
  BY <1>1, <1>2, NoKeyRoutes, SMTT(60)
<1>4. rib \in [AS -> [Prefixes -> [AS -> R]]] /\ adjin \in [AS -> [Prefixes -> [AS -> R]]]
  BY <1>3, SMTT(60) DEF Init
<1>5. sent \in [AS -> [Prefixes -> [route : R, from : AS \cup {NoAS}]]]
  <2>1. NotSent \in [route : R, from : AS \cup {NoAS}]
    BY <1>3 DEF NotSent
  <2> QED BY <2>1 DEF Init
<1>6. chan \in [AS -> [AS -> Seq([dest : SUBSET Prefixes, route : R])]]
  BY DEF Init
<1>7. Works(R)
  <2>1. \A a \in AS : work[a] = Idle /\ IsWork(a, Idle, R)
    BY IdleIsWork, Zenon DEF Init
  <2>2. work = [a \in AS |-> work[a]]
    BY SMTT(60) DEF Init
  <2> QED BY <2>1, <2>2 DEF Works
<1>8. Keyed
  BY WiserAssumption DEF Init, Keyed
<1>9. received \in [AS -> [AS -> Counters]] /\ scheduled \in [AS -> SUBSET Prefixes]
  BY DEF Init, Counters
<1> QED BY <1>1, <1>2, <1>4, <1>5, <1>6, <1>7, <1>8, <1>9 DEF Inv, Tables, Init, NoAssertionFails

\* Every step keeps the invariant.
LEMMA NextInv == Inv /\ [Next]_vars => Inv'
<1> SUFFICES ASSUME Inv, [Next]_vars PROVE Inv'
  BY SMTT(60)
<1>1. CASE UNCHANGED vars
  BY <1>1, Zenon DEF vars, Inv, Tables, Works, Keyed, NoAssertionFails
<1>2. CASE Next
  <2>1. PICK a \in AS :
          \/ \E b \in Neighbours(a) :
               \/ ReceiveUnusable(a, b)
               \/ ReceiveBaseline(a, b)
               \/ ReceiveWiser(a, b)
               \/ bgp_soft_reconfig_in(a, b)
          \/ GetControlInformation(a)
          \/ IncrementWiserCosts(a)
          \/ RetrieveWiserCosts(a)
          \/ ComputeNormalizationForAdvert(a)
          \/ set_control_info(a)
          \/ bgp_process_main(a)
    BY <1>2 DEF Next
  <2> QED BY <2>1, UnusableInv, BaselineInv, WiserInv, ReconfigInv, LookupInv, IncrementInv,
             RetrieveInv, NormalizeInv, SetInv, ProcessInv
<1> QED BY <1>1, <1>2

\* In any network with positive link costs no assertion of the control-info code
\* fails (unpack_redis_reply, ComputeNormalizationForAdvert): whatever the order
\* in which the routers access the lookup service, a key that is looked up has
\* been SET and no counter that is read is zero.
THEOREM AssertionsTheorem == Spec => []NoAssertionFails
<1>1. Inv => NoAssertionFails
  BY DEF Inv
<1> QED BY <1>1, InitInv, NextInv, PTL DEF Spec

=============================================================================
