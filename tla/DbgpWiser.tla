----------------------------- MODULE DbgpWiser -----------------------------
(***************************************************************************)
(* Wiser over D-BGP: a network of autonomous systems, one router each, some*)
(* running Wiser and some plain BGP.  An announcement carries a key of the *)
(* lookup service (redis), under which the last Wiser router has stored the*)
(* path cost and its own AS number.  A Wiser router looks the key up, adds *)
(* the cost it received to a counter in the lookup service, scales it by   *)
(* the quotient of the two counters it shares with that AS, adds the cost  *)
(* of the link, stores the result under a new key and writes that key into *)
(* the attribute.  Every access to the lookup service is a step, between   *)
(* which the other routers take theirs; a router does nothing else         *)
(* meanwhile, because bgpd has one thread.                                 *)
(*                                                                         *)
(* Keys are rand() numbers; the model takes them to be different, and      *)
(* numbers them in the order of their SET.                                 *)
(***************************************************************************)
EXTENDS Integers, Sequences

CONSTANTS
  AS,            \* AS numbers, which also stand for router ids
  Wiser,         \* the ASes configured with dbgp_critical_wiser
  LinkCost,      \* LinkCost[<<a, b>>]: a's configured cost of its link to b
  Origin,        \* the AS that originates each prefix
  SoftReconfig,  \* the ASes with soft-reconfiguration inbound
  MaxKeys,       \* bound: how many keys are ever SET
  MaxCommands,   \* bound: how often "clear ip bgp ... soft in" is entered
  MaxTotal       \* bound: where the counters of received costs stop

Prefixes == DOMAIN Origin

Links == DOMAIN LinkCost

\* Link costs are positive: with a cost of zero the counters may stay at zero,
\* and their quotient is no number.
ASSUME WiserAssumption ==
  /\ AS \subseteq Nat \ {0}
  /\ Wiser \subseteq AS /\ SoftReconfig \subseteq AS
  /\ Links \subseteq {l \in AS \X AS : l[1] # l[2]}
  /\ \A l \in Links : <<l[2], l[1]>> \in Links /\ LinkCost[l] \in Nat \ {0}
  /\ Origin \in [Prefixes -> AS]
  /\ {MaxKeys, MaxCommands, MaxTotal} \subseteq Nat

VARIABLES
  store,      \* the lookup service: store[k] is the control info under key k
  received,   \* its counters: received[a][b] is the total cost a had from b
  chan,       \* chan[a][b]: the UPDATEs on the way from a to b
  rib,        \* rib[a][p][b]: a's path of p from b; from a itself: its own
  adjin,      \* adjin[a][p][b]: the Adj-RIB-In of a soft-reconfiguration peer
  sent,       \* sent[a][p]: what a last announced of p, and whose path it is
  scheduled,  \* scheduled[a]: the prefixes on a's process_main_queue
  changed,    \* changed[a]: the paths <<p, b>> of a with BGP_INFO_ATTR_CHANGED
  work,       \* work[a]: the announcements a is in the middle of
  commands,   \* how many commands have been entered
  aborted     \* the routers in which an assertion has failed

vars == <<store, received, chan, rib, adjin, sent, scheduled, changed, work,
          commands, aborted>>

NoKey == 0
NoAS == 0
Absent == -1

\* An attribute, as far as it matters here: lookup key and AS path.
NoRoute == [key |-> NoKey, path |-> <<NoAS>>]
Own == [key |-> NoKey, path |-> <<>>]

\* The Wiser part of an integrated advertisement: PathCost and LastWiserNode.
NoInfo == [cost |-> Absent, last |-> Absent]

Idle == [phase |-> "idle", from |-> NoAS, input |-> <<>>, prefix |-> CHOOSE p \in Prefixes : TRUE,
         info |-> NoInfo, mine |-> Absent]

Neighbours(a) == {b \in AS : <<a, b>> \in Links}

Contains(path, a) == \E i \in DOMAIN path : path[i] = a

Free(a) == a \notin aborted /\ work[a].phase = "idle"

At(a, phase) == a \notin aborted /\ work[a].phase = phase

(***************************************************************************)
(* Receiving announcements.                                                *)
(***************************************************************************)

\* bgp_update_main for a path with the router's own AS in it, and bgp_withdraw:
\* the path goes, and with it the process_main_queue gets the prefix.
Removed(a, b, S) ==
  /\ rib' = [rib EXCEPT ![a] = [p \in Prefixes |->
                 IF p \in S THEN [@[p] EXCEPT ![b] = NoRoute] ELSE @[p]]]
  /\ scheduled' = [scheduled EXCEPT ![a] = @ \cup {p \in S : rib[a][p][b] # NoRoute}]

\* bgp_adj_in_set and bgp_adj_in_unset.
AdjIn(a, b, S, route) ==
  [adjin EXCEPT ![a] = [p \in Prefixes |->
     IF p \in S /\ a \in SoftReconfig THEN [@[p] EXCEPT ![b] = route] ELSE @[p]]]

\* A withdrawal, or a path that contains the router's own AS.
NotUsable(a, route) == route = NoRoute \/ Contains(route.path, a)

ReceiveUnusable(a, b) ==
  LET m == Head(chan[b][a])
  IN  /\ Free(a) /\ chan[b][a] # <<>>
      /\ NotUsable(a, m.route)
      /\ Removed(a, b, m.dest)
      /\ adjin' = AdjIn(a, b, m.dest, m.route)
      /\ chan' = [chan EXCEPT ![b][a] = Tail(@)]
      /\ UNCHANGED <<store, received, sent, changed, work, commands, aborted>>

\* The end of bgp_update_main for the prefixes S: a path whose attribute is the
\* same as before loses its mark and is ignored, the others are marked and
\* scheduled.
Entered(a, b, S, same) ==
  /\ changed' = [changed EXCEPT ![a] = (@ \ (same \X {b})) \cup ((S \ same) \X {b})]
  /\ scheduled' = [scheduled EXCEPT ![a] = @ \cup (S \ same)]

\* dbgp_update_control_info returns at once in a baseline AS: the path is kept
\* as it came.
ReceiveBaseline(a, b) ==
  LET m == Head(chan[b][a])
      same == {p \in m.dest : rib[a][p][b] = m.route}
  IN  /\ Free(a) /\ chan[b][a] # <<>>
      /\ ~NotUsable(a, m.route)
      /\ a \notin Wiser
      /\ rib' = [rib EXCEPT ![a] = [p \in Prefixes |->
                    IF p \in m.dest THEN [@[p] EXCEPT ![b] = m.route] ELSE @[p]]]
      /\ adjin' = AdjIn(a, b, m.dest, m.route)
      /\ Entered(a, b, m.dest, same)
      /\ chan' = [chan EXCEPT ![b][a] = Tail(@)]
      /\ UNCHANGED <<store, received, sent, work, commands, aborted>>

\* bgp_nlri_parse in a Wiser AS: the prefixes of the UPDATE one after the other.
ReceiveWiser(a, b) ==
  LET m == Head(chan[b][a])
  IN  /\ Free(a) /\ chan[b][a] # <<>>
      /\ ~NotUsable(a, m.route)
      /\ a \in Wiser
      /\ adjin' = AdjIn(a, b, m.dest, m.route)
      /\ work' = [work EXCEPT ![a] = [Idle EXCEPT !.phase = "lookup", !.from = b,
                                        !.input = [p \in m.dest |-> m.route]]]
      /\ chan' = [chan EXCEPT ![b][a] = Tail(@)]
      /\ UNCHANGED <<store, received, rib, sent, scheduled, changed, commands, aborted>>

\* bgp_soft_reconfig_in: the recorded announcements of b are processed again.
bgp_soft_reconfig_in(a, b) ==
  LET S == {p \in Prefixes : ~NotUsable(a, adjin[a][p][b])}
  IN  /\ Free(a) /\ a \in SoftReconfig \cap Wiser
      /\ S # {}
      /\ commands < MaxCommands /\ commands' = commands + 1
      /\ work' = [work EXCEPT ![a] = [Idle EXCEPT !.phase = "lookup", !.from = b,
                                        !.input = [p \in S |-> adjin[a][p][b]]]]
      /\ UNCHANGED <<store, received, chan, rib, adjin, sent, scheduled, changed, aborted>>

(***************************************************************************)
(* dbgp_input_filter and dbgp_update_control_info for one prefix.          *)
(***************************************************************************)

Abort(a) == aborted' = aborted \cup {a}

\* GetControlInformation: the control info under the received key, or an empty
\* one.  unpack_redis_reply asserts that there is one under the key.
GetControlInformation(a) ==
  /\ At(a, "lookup")
  /\ \E p \in DOMAIN work[a].input :
       LET k == work[a].input[p].key
           info == IF k = NoKey THEN NoInfo ELSE store[k]
       IN  IF k # NoKey /\ k \notin DOMAIN store
           THEN Abort(a) /\ UNCHANGED work
           ELSE /\ work' = [work EXCEPT ![a].prefix = p, ![a].info = info,
                              ![a].phase = IF info.cost = Absent THEN "set" ELSE "increment"]
                /\ UNCHANGED aborted
  /\ UNCHANGED <<store, received, chan, rib, adjin, sent, scheduled, changed, commands>>

\* INCRBY on the counter of what this AS had from the last Wiser node.
IncrementWiserCosts(a) ==
  LET w == work[a]
      b == w.info.last
      total == (IF received[a][b] = Absent THEN 0 ELSE received[a][b]) + w.info.cost
  IN  /\ At(a, "increment")
      /\ total <= MaxTotal
      /\ received' = [received EXCEPT ![a][b] = total]
      /\ work' = [work EXCEPT ![a].phase = "retrieve"]
      /\ UNCHANGED <<store, chan, rib, adjin, sent, scheduled, changed, commands, aborted>>

\* RetrieveWiserCosts, first call: what this AS had from the neighbour.
RetrieveWiserCosts(a) ==
  /\ At(a, "retrieve")
  /\ work' = [work EXCEPT ![a].mine = received[a][work[a].info.last], ![a].phase = "normalize"]
  /\ UNCHANGED <<store, received, chan, rib, adjin, sent, scheduled, changed, commands, aborted>>

\* ComputeNormalizationForAdvert: the scaled cost, truncated as in
\* SetWiserControlInfo, where mine and theirs are the two counters.
Normalized(cost, mine, theirs) ==
  IF mine = Absent \/ theirs = Absent THEN cost ELSE (cost * theirs) \div mine

\* The second call of RetrieveWiserCosts, assert(normalization > 0) and the
\* scaling.  An infinite quotient, which passes the assertion and is no int,
\* counts as a failure too.
ComputeNormalizationForAdvert(a) ==
  LET w == work[a]
      theirs == received[w.info.last][a]
  IN  /\ At(a, "normalize")
      /\ IF w.mine # Absent /\ theirs # Absent /\ (w.mine = 0 \/ theirs = 0)
         THEN Abort(a) /\ UNCHANGED work
         ELSE /\ work' = [work EXCEPT ![a].info.cost = Normalized(@, w.mine, theirs),
                                      ![a].phase = "set"]
              /\ UNCHANGED aborted
      /\ UNCHANGED <<store, received, chan, rib, adjin, sent, scheduled, changed, commands>>

\* The same transit structure hangs off every attribute with key k, so that
\* writing the new key into it changes them all.
Rekeyed(routes, k, new) ==
  [x \in DOMAIN routes |->
     IF k # NoKey /\ routes[x].key = k THEN [routes[x] EXCEPT !.key = new] ELSE routes[x]]

RekeyedUpdates(updates, k, new) ==
  [i \in DOMAIN updates |->
     IF k # NoKey /\ updates[i].route.key = k THEN [updates[i] EXCEPT !.route.key = new]
     ELSE updates[i]]

\* Mutant: the cost of the link is not added.
LinkCostForgotten(a, w) == [cost |-> IF w.info.cost = Absent THEN 0 ELSE w.info.cost, last |-> a]

\* SetLastWiserNode and SetWiserControlInfo: what is stored for the path.
SetWiserControlInfo(a, w) ==
  [cost |-> (IF w.info.cost = Absent THEN 0 ELSE w.info.cost) + LinkCost[<<a, w.from>>],
   last |-> a]

\* The paths of prefix q when the new key is written into the transit structure
\* of the announcement w is about, and its path is entered.
PathsUnder(paths, q, w, new) ==
  LET old == w.input[w.prefix]
  IN  [Rekeyed(paths, old.key, new) EXCEPT
         ![w.from] = IF q = w.prefix THEN [old EXCEPT !.key = new] ELSE @]

\* Mutant: control info that came under a key is stored under it again.
KeyReused(a) ==
  LET w == work[a]
      old == w.input[w.prefix]
      new == IF old.key = NoKey THEN Len(store) + 1 ELSE old.key
      rest == [p \in DOMAIN w.input \ {w.prefix} |-> w.input[p]]
  IN  /\ At(a, "set")
      /\ new <= MaxKeys
      /\ store' = IF old.key = NoKey THEN Append(store, SetWiserControlInfo(a, w))
                  ELSE [store EXCEPT ![new] = SetWiserControlInfo(a, w)]
      /\ rib' = [rib EXCEPT ![a][w.prefix][w.from] = [old EXCEPT !.key = new]]
      /\ Entered(a, w.from, {w.prefix}, {})
      /\ work' = [work EXCEPT ![a] =
                    IF rest = <<>> THEN Idle
                    ELSE [Idle EXCEPT !.phase = "lookup", !.from = w.from, !.input = rest]]
      /\ UNCHANGED <<received, chan, adjin, sent, commands, aborted>>

\* set_control_info: SET under a new key, which is written into the transit
\* structure, and so also into the UPDATEs that are not yet written to the
\* neighbours in late; then bgp_update_main enters the path, and the next prefix
\* of the UPDATE follows.  The attribute of a path that is reprocessed from the
\* Adj-RIB-In holds the same transit structure and counts as the same.
set_control_info(a) ==
  LET w == work[a]
      p == w.prefix
      old == w.input[p]
      new == Len(store) + 1
      rest == [q \in DOMAIN w.input \ {p} |-> w.input[q]]
      same == {q \in {p} : old.key # NoKey /\ rib[a][q][w.from] = old}
  IN  /\ At(a, "set")
      /\ new <= MaxKeys
      /\ store' = Append(store, SetWiserControlInfo(a, w))
      /\ rib' = [rib EXCEPT ![a] = [q \in Prefixes |-> PathsUnder(@[q], q, w, new)]]
      /\ adjin' = [adjin EXCEPT ![a] = [q \in Prefixes |-> Rekeyed(@[q], old.key, new)]]
      /\ \E late \in SUBSET Neighbours(a) :
           chan' = [chan EXCEPT ![a] = [b \in AS |->
                      IF b \in late THEN RekeyedUpdates(@[b], old.key, new) ELSE @[b]]]
      /\ Entered(a, w.from, {p}, same)
      /\ work' = [work EXCEPT ![a] =
                    IF rest = <<>> THEN Idle
                    ELSE [Idle EXCEPT !.phase = "lookup", !.from = w.from,
                                      !.input = Rekeyed(rest, old.key, new)]]
      /\ UNCHANGED <<received, sent, commands, aborted>>

(***************************************************************************)
(* The decision process and the announcements.                             *)
(***************************************************************************)

\* retrieve_control_info and GetWiserPathCost in ComputeWiserDecision.
PathCost(a, p, b) == store[rib[a][p][b].key].cost

HasKey(a, p, b) == rib[a][p][b].key # NoKey

\* Mutant: a Wiser router decides by bgp_info_cmp.
PreferredShortest(a, p, b, c) ==
  LET rank(x) == <<Len(rib[a][p][x].path), IF sent[a][p].from = x THEN 0 ELSE 1, x>>
      first == CHOOSE i \in 1..3 : /\ rank(b)[i] # rank(c)[i]
                                   /\ \A j \in 1..(i - 1) : rank(b)[j] = rank(c)[j]
  IN  b = a \/ (c # a /\ rank(b)[first] < rank(c)[first])

\* wiser_info_cmp, and bgp_info_cmp in a baseline AS: a router's own path has
\* the weight of a local route; then the lower Wiser cost, if both paths have
\* one, the shorter AS path, the selected path, the lower router id.
Preferred(a, p, b, c) ==
  LET cost(x) == IF a \in Wiser /\ HasKey(a, p, b) /\ HasKey(a, p, c)
                 THEN PathCost(a, p, x) ELSE 0
      rank(x) == <<cost(x), Len(rib[a][p][x].path), IF sent[a][p].from = x THEN 0 ELSE 1, x>>
      first == CHOOSE i \in 1..4 : /\ rank(b)[i] # rank(c)[i]
                                   /\ \A j \in 1..(i - 1) : rank(b)[j] = rank(c)[j]
  IN  b = a \/ (c # a /\ rank(b)[first] < rank(c)[first])

\* bgp_best_selection: the neighbour whose path is selected, if there is one.
Best(a, p) ==
  LET Paths == {b \in AS : rib[a][p][b] # NoRoute}
  IN  IF Paths = {} THEN NoAS
      ELSE CHOOSE b \in Paths : \A c \in Paths \ {b} : Preferred(a, p, b, c)

NotSent == [route |-> NoRoute, from |-> NoAS]

Selection(a, p) ==
  LET b == Best(a, p)
  IN  IF b = NoAS THEN NotSent ELSE [route |-> rib[a][p][b], from |-> b]

\* Mutant: nothing goes to the neighbour whose path is now selected.
NoWithdrawal(a, b, S, s) ==
  IF s # NotSent /\ s.from # b
  THEN <<[dest |-> S, route |-> [key |-> s.route.key, path |-> <<a>> \o s.route.path]]>>
  ELSE <<>>

\* What goes to neighbour b when the prefixes S are now announced as s: an
\* UPDATE with the AS path prepended, or, where the path is b's own or gone, a
\* withdrawal of what b was sent before.
Announced(a, b, S, s) ==
  LET gone == {p \in S : sent[a][p] # NotSent /\ sent[a][p].from # b}
  IN  IF s # NotSent /\ s.from # b
      THEN <<[dest |-> S, route |-> [key |-> s.route.key, path |-> <<a>> \o s.route.path]]>>
      ELSE IF gone # {} THEN <<[dest |-> gone, route |-> NoRoute]>> ELSE <<>>

\* The selected path is the one selected before and not marked as changed.
NothingToDo(a, p, s) ==
  s # NotSent /\ s.from = sent[a][p].from /\ <<p, s.from>> \notin changed[a]

\* bgp_process_main for prefixes with the same result, and the UPDATEs, into
\* which bgp_update_packet puts prefixes that share their attribute.
bgp_process_main(a) ==
  /\ Free(a)
  /\ \E S \in (SUBSET scheduled[a]) \ {{}} : \E s \in {Selection(a, p) : p \in S} :
       LET T == {p \in S : ~NothingToDo(a, p, s)}
       IN  /\ \A p \in S : Selection(a, p) = s
           /\ sent' = [sent EXCEPT ![a] = [p \in Prefixes |-> IF p \in T THEN s ELSE @[p]]]
           /\ chan' = [chan EXCEPT ![a] = [b \in AS |->
                          IF b \in Neighbours(a) /\ T # {}
                          THEN @[b] \o Announced(a, b, T, s) ELSE @[b]]]
           /\ changed' = [changed EXCEPT ![a] = @ \ (T \X {s.from})]
           /\ scheduled' = [scheduled EXCEPT ![a] = @ \ S]
  /\ UNCHANGED <<store, received, rib, adjin, work, commands, aborted>>

Init ==
  /\ store = <<>>
  /\ received = [a \in AS |-> [b \in AS |-> Absent]]
  /\ chan = [a \in AS |-> [b \in AS |-> <<>>]]
  /\ rib = [a \in AS |-> [p \in Prefixes |-> [b \in AS |->
              IF a = b /\ Origin[p] = a THEN Own ELSE NoRoute]]]
  /\ adjin = [a \in AS |-> [p \in Prefixes |-> [b \in AS |-> NoRoute]]]
  /\ sent = [a \in AS |-> [p \in Prefixes |-> NotSent]]
  /\ scheduled = [a \in AS |-> {p \in Prefixes : Origin[p] = a}]
  /\ changed = [a \in AS |-> {}]
  /\ work = [a \in AS |-> Idle]
  /\ commands = 0
  /\ aborted = {}

Next ==
  \E a \in AS :
    \/ \E b \in Neighbours(a) :
         \/ ReceiveUnusable(a, b)
         \/ ReceiveBaseline(a, b)
         \/ ReceiveWiser(a, b)
         \/ bgp_soft_reconfig_in(a, b)
    \/ GetControlInformation(a)
    \/ IncrementWiserCosts(a)
    \/ RetrieveWiserCosts(a)
    \/ ComputeNormalizationForAdvert(a)
    \/ set_control_info(a)
    \/ bgp_process_main(a)

Spec == Init /\ [][Next]_vars

(***************************************************************************)
(* Properties.                                                             *)
(***************************************************************************)

Keys == 0..Len(store)

Routes == [key : Keys, path : Seq(AS \cup {NoAS})]

\* The types of the lookup service's, the tables' and the channels' contents;
\* a key that is held anywhere has been SET.
TypeOK ==
  /\ store \in Seq([cost : Nat, last : Wiser])
  /\ received \in [AS -> [AS -> Nat \cup {Absent}]]
  /\ \A a, b \in AS : \A i \in DOMAIN chan[a][b] :
       chan[a][b][i].dest \in SUBSET Prefixes /\ chan[a][b][i].route \in Routes
  /\ rib \in [AS -> [Prefixes -> [AS -> Routes]]]
  /\ adjin \in [AS -> [Prefixes -> [AS -> Routes]]]
  /\ sent \in [AS -> [Prefixes -> [route : Routes, from : AS \cup {NoAS}]]]
  /\ scheduled \in [AS -> SUBSET Prefixes]
  /\ changed \in [AS -> SUBSET (Prefixes \X AS)]
  /\ \A a \in AS : \A p \in DOMAIN work[a].input : work[a].input[p] \in Routes
  /\ commands \in 0..MaxCommands
  /\ aborted \subseteq AS

\* No assertion of the control-info code fails: every key that is received has
\* been SET (unpack_redis_reply), and the normalisation is greater than 0
\* (ComputeNormalizationForAdvert), in whatever order the routers access the
\* lookup service.
NoAssertionFails == aborted = {}

\* The paths of a Wiser router carry control info it has stored itself, and no
\* two of them share a key, so that writing a new key into one attribute in
\* place leaves the others alone (set_control_info, GetControlInformation).
KeysUnshared ==
  \A a \in Wiser : \A p, q \in Prefixes : \A b, c \in AS :
    HasKey(a, p, b) =>
      /\ store[rib[a][p][b].key].last = a
      /\ rib[a][q][c].key = rib[a][p][b].key => p = q /\ b = c

\* A router that has nothing left to process, and does not reprocess its
\* Adj-RIB-In, has announced the path with the lowest Wiser cost, under its
\* present key (wiser_info_cmp, bgp_process_main).
CheapestAnnounced ==
  \A a \in Wiser \ SoftReconfig : Free(a) => \A p \in Prefixes \ scheduled[a] : \A b \in AS :
    rib[a][p][b] # NoRoute =>
      LET s == sent[a][p]
      IN  /\ s # NotSent /\ s.route = rib[a][p][s.from]
          /\ HasKey(a, p, b) /\ HasKey(a, p, s.from) =>
               PathCost(a, p, s.from) <= PathCost(a, p, b)

\* The link from a to b has nothing under way.
Quiet(a, b) == Free(a) /\ Free(b) /\ chan[a][b] = <<>>

\* b's path from a is the one a announces (bgp_process_main,
\* bgp_update_receive): after withdrawals, loops and changes of the selected
\* path the two ends of a quiet link agree, and on the key unless one of them
\* writes keys of its own.
NeighboursAgree ==
  \A a \in AS : \A b \in Neighbours(a) : \A p \in Prefixes :
    LET s == sent[a][p]
        r == rib[b][p][a]
    IN  Quiet(a, b) /\ p \notin scheduled[a] =>
          IF s = NotSent \/ s.from = b \/ Contains(s.route.path, b) THEN r = NoRoute
          ELSE /\ r.path = <<a>> \o s.route.path
               /\ a \notin SoftReconfig /\ b \notin Wiser => r.key = s.route.key

\* "Record input packet in Adj-RIBs-In" (bgp_update_main): with nothing under
\* way, the key in the Adj-RIB-In is the one the neighbour announced.
AdjInRecordsInput ==
  \A a \in AS : \A b \in Neighbours(a) \cap SoftReconfig : \A p \in Prefixes :
    LET s == sent[a][p]
    IN  Quiet(a, b) /\ p \notin scheduled[a] /\ s # NotSent /\ s.from # b =>
          adjin[b][p][a].key = s.route.key

=============================================================================
