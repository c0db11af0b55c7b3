----------------------- MODULE BgpRibSelectionProofs -----------------------
(***************************************************************************)
(* Proofs about the selected path in BgpRib, without dampening: that it is *)
(* the best one, and that zebra and the peers have been told of it.        *)
(*                                                                         *)
(* SelInv holds also while nodes are scheduled.  It relates what zebra and *)
(* a peer were told to the selected path as it was, which the mark         *)
(* ATTR_CHANGED guards: as long as the mark is absent they know the        *)
(* attribute the path has now.  A handler of a route is Tame if it keeps   *)
(* the mark of the selected path, notes a change of its attribute, and     *)
(* hands the node over when anything bears on the choice.                  *)
(***************************************************************************)
EXTENDS BgpRibProofs

-----------------------------------------------------------------------------
(* The selection, without dampening.                                       *)

(* The selected path has an attribute that nobody has been told of.        *)
Changed(n) == \E p \in Selected(n) : "ATTR_CHANGED" \in info[n][p].flags

(* Nothing is pending that zebra and the peers should have heard of, nor   *)
(* has an identical update taken ATTR_CHANGED away before they had.        *)
Told(n) == n \notin muted /\ ~Changed(n)

(* A path over the maximum-prefix limit, until clearing has reached it.    *)
Unseen(n, p) ==
  \/ session[p] = "Overflow"
  \/ /\ <<p, n>> \in clearq
     /\ FirstFamily => session[p] = "Clearing" /\ p \notin nsfwait

(* Where clearing may be late it may make the path stale.                  *)
Exempt(n, p) == Unseen(n, p) \/ (~FirstFamily /\ "STALE" \in info[n][p].flags)

Covered(n, p) == \E q \in Selected(n) : q = p \/ bgp_info_cmp(n, q, p)

(* The path is preferred to every other.                                   *)
Champion(n, p) ==
  \A q \in Usable(n) \ {p} : <<info[n][p].attr, info[n][q].attr>> \in Prefers

(* The selection does justice to the path.                                 *)
Settled(n, p) ==
  /\ Selected(n) # {}
  /\ Champion(n, p) => p \in Selected(n)
  /\ Ranked => Covered(n, p)

(* What holds of the paths of a node, and of what zebra was told of them.  *)
NodeInv(n) ==
  /\ \A p \in Peers : "REMOVED" \in info[n][p].flags => n \in scheduled
  /\ \A p, q \in Selected(n) : p = q
  /\ Changed(n) => n \in scheduled
  /\ Selected(n) = {} <=> fib[n] = NoAttr
  /\ Told(n) => \A p \in Selected(n) : fib[n] = info[n][p].attr
  /\ n \notin scheduled => Selected(n) \subseteq Usable(n)
  /\ n \notin scheduled => \A p \in Usable(n) : Exempt(n, p) \/ Settled(n, p)

(* What holds of what a peer was told.                                     *)
AdjInv(n, p) ==
  /\ adj[n][p].adv = "withdraw" => adj[n][p].new = NoAttr
  /\ ~Up(p) => adj[n][p] = NoAdj
  /\ Told(n) /\ Up(p) => Intended(n, p) = Wanted(n, p)
  /\ Up(p) /\ Selected(n) \subseteq {p} => Intended(n, p) = NoAttr

Undamped(ri) == ri.damp = "none" /\ ri.flags \cap {"HISTORY", "DAMPED"} = {}

(* The inductive invariant.                                                *)
SelInv ==
  /\ ClearInv
  /\ \A n \in Prefixes, p \in Peers : Undamped(info[n][p]) /\ AdjInv(n, p)
  /\ \A n \in Prefixes : NodeInv(n)

-----------------------------------------------------------------------------
(* Handlers of one route, without dampening.                               *)

(* Nothing the selection depends on has changed.                           *)
Quiet(x, y) ==
  /\ "REMOVED" \in y.ri.flags => "REMOVED" \in x.ri.flags
  /\ "SELECTED" \in x.ri.flags /\ "ATTR_CHANGED" \in y.ri.flags => "ATTR_CHANGED" \in x.ri.flags
  /\ HOLDDOWN(y.ri.flags) <=> HOLDDOWN(x.ri.flags)
  /\ y.ri.attr = x.ri.attr
  /\ "STALE" \in x.ri.flags => "STALE" \in y.ri.flags

(* The handler kept the mark of the selected path, it noted a change of    *)
(* its attribute unless that is muted at n, and it handed over the node if *)
(* there is something to do.                                               *)
Tame(n, x, y) ==
  /\ y \in RouteSet /\ Undamped(y.ri)
  /\ "SELECTED" \in y.ri.flags <=> "SELECTED" \in x.ri.flags
  /\ n \notin muted' /\ "SELECTED" \in x.ri.flags /\ "ATTR_CHANGED" \notin y.ri.flags =>
       "ATTR_CHANGED" \notin x.ri.flags /\ y.ri.attr = x.ri.attr
  /\ y.process \/ Quiet(x, y)

(* A new path over the limit.                                              *)
Overflows(x, y) ==
  /\ y \in RouteSet /\ Undamped(y.ri)
  /\ "SELECTED" \notin y.ri.flags /\ "SELECTED" \notin x.ri.flags
  /\ "REMOVED" \notin y.ri.flags
  /\ HOLDDOWN(x.ri.flags)

(* Removing a path keeps its mark.                                         *)
LEMMA RemoveTame ==
  ASSUME NEW n, NEW x \in RouteSet, Undamped(x.ri)
  PROVE  Tame(n, x, bgp_rib_remove(x)) /\ Tame(n, x, x)
<1> DEFINE d == bgp_info_delete(x)
           y == bgp_rib_remove(x)
<1>1. Edited(x, d, {"REMOVED"}, {"VALID"})
  BY RemoveEdits, Zenon
<1>2. y \in RouteSet /\ y.process = TRUE /\ (y.ri = IF "HISTORY" \in x.ri.flags THEN x.ri ELSE d.ri)
  BY RemoveEdits, Zenon
<1> HIDE DEF d, y
<1>3. y.ri = d.ri
  BY <1>2, Zenon DEF Undamped
<1>4. Tame(n, x, y)
  BY <1>1, <1>2, <1>3 DEF Edited, Tame, Undamped
<1>5. Tame(n, x, x)
  BY Zenon DEF Tame, Quiet
<1> QED BY <1>4, <1>5, Zenon DEF y

(* HOLDDOWN looks at four flags.                                           *)
LEMMA SameHoldDown ==
  ASSUME NEW f, NEW g, \A h \in {"VALID", "HISTORY", "DAMPED", "REMOVED"} : h \in f <=> h \in g
  PROVE  HOLDDOWN(f) <=> HOLDDOWN(g)
BY Zenon DEF HOLDDOWN, UNUSEABLE

(* Withdrawals, clearing and sweeping.                                     *)
LEMMA WithdrawTame ==
  ASSUME ~Dampening, NEW n, NEW x \in RouteSet, Undamped(x.ri), NEW penalty, NEW waiting
  PROVE  /\ Tame(n, x, bgp_withdraw(x, penalty))
         /\ Tame(n, x, bgp_clear_route_node(x, waiting))
         /\ Tame(n, x, bgp_clear_stale_route(x))
         /\ Exists(x) => \/ bgp_clear_route_node(x, waiting).process
                         \/ waiting /\ "STALE" \in bgp_clear_route_node(x, waiting).ri.flags
<1> DEFINE s == bgp_info_set_flag(x, {"STALE"})
           r == bgp_rib_remove(x)
<1>1. Tame(n, x, r) /\ Tame(n, x, x) /\ r.process = TRUE
  BY RemoveTame, RemoveEdits, Zenon
<1>2. Edited(x, s, {"STALE"}, {})
  BY FlagEdits, FlagNames, Zenon
<1>3. bgp_withdraw(x, penalty) \in {x, r}
  BY Zenon DEF bgp_withdraw, bgp_rib_withdraw
<1>4. bgp_clear_route_node(x, waiting) \in {x, s, r}
  BY Zenon DEF bgp_clear_route_node
<1>5. bgp_clear_stale_route(x) \in {x, r}
  BY Zenon DEF bgp_clear_stale_route
<1>6. Exists(x) => \/ bgp_clear_route_node(x, waiting) = r
                   \/ waiting /\ bgp_clear_route_node(x, waiting) = s
  BY Zenon DEF bgp_clear_route_node
<1> HIDE DEF s, r
<1>7. HOLDDOWN(s.ri.flags) <=> HOLDDOWN(x.ri.flags)
  BY <1>2, SameHoldDown, Zenon DEF Edited
<1>8. Tame(n, x, s)
  BY <1>2, <1>7 DEF Edited, Tame, Quiet, Undamped
<1>9. "STALE" \in s.ri.flags
  BY <1>2, Zenon DEF Edited
<1> QED BY <1>1, <1>3, <1>4, <1>5, <1>6, <1>8, <1>9, Zenon

(* The scanner: a route of a node in the table is handed over, and where   *)
(* the node is not in the table there is no path.                          *)
LEMMA ScanTame ==
  ASSUME ~Dampening, NEW n, NEW x \in RouteSet, Undamped(x.ri), NEW valid \in BOOLEAN, NEW penalty,
         NEW expired
  PROVE  LET y == ScanRoute(x, valid, penalty, expired)
         IN  Tame(n, x, bgp_process(y)) /\ (~Exists(x) => Tame(n, x, y))
<1> DEFINE y == ScanRoute(x, valid, penalty, expired)
           v == SetValid(x, valid)
<1>1. \E A, D \in SUBSET {"VALID"} : Edited(x, v, A, D)
  BY ValidEdits, Zenon
<1>2. y \in {x, v} /\ (~Exists(x) => y = x)
  BY Zenon DEF ScanRoute
<1> HIDE DEF y, v
<1>3. /\ y \in RouteSet /\ Undamped(y.ri) /\ y.ri.attr = x.ri.attr
      /\ \A g \in {"SELECTED", "ATTR_CHANGED"} : g \in y.ri.flags <=> g \in x.ri.flags
  BY <1>1, <1>2, Zenon DEF Edited, Undamped
<1>4. bgp_process(y) \in RouteSet /\ bgp_process(y).ri = y.ri /\ bgp_process(y).process = TRUE
  BY <1>3, ProcessEdits, Zenon
<1>5. Tame(n, x, bgp_process(y))
  BY <1>3, <1>4, Zenon DEF Tame
<1> QED BY <1>2, <1>5, RemoveTame, Zenon DEF y

(* Updates.  An attribute that comes in a second time before the first has *)
(* been processed mutes it; a new path over the limit is handed to nobody. *)
LEMMA UpdateTame ==
  ASSUME ~Dampening, NEW n, NEW x \in RouteSet, Undamped(x.ri), x.ri.attr = NoAttr => x.ri = NoInfo,
         NEW p, NEW attr \in Attrs, NEW valid \in BOOLEAN, NEW penalty,
         n \in muted' \/ ~Mutes(x, attr)
  PROVE  LET y == bgp_update_main(x, p, attr, valid, penalty)
         IN  \/ Tame(n, x, y)
             \/ /\ ~Exists(x) /\ bgp_maximum_prefix_overflow(p, y.pcount, FALSE)
                /\ Overflows(x, y)
<1>1. CASE SameAttr(x, attr)
  <2> DEFINE y == bgp_info_unset_flag(x, {"ATTR_CHANGED"})
             u == bgp_info_unset_flag(y, {"STALE"})
  <2>1. Edited(x, y, {}, {"ATTR_CHANGED"})
    BY FlagEdits, FlagNames
  <2> HIDE DEF y
  <2>2. Edited(y, u, {}, {"STALE"})
    BY <2>1, FlagEdits, FlagNames DEF Edited
  <2> HIDE DEF u
  <2>3. DuplicateUpdate(x, penalty) \in {y, bgp_process(u)}
    BY Zenon DEF DuplicateUpdate, y, u
  <2>4. bgp_update_main(x, p, attr, valid, penalty) = DuplicateUpdate(x, penalty)
    BY <1>1, Zenon DEF bgp_update_main
  <2>5. HOLDDOWN(y.ri.flags) <=> HOLDDOWN(x.ri.flags)
    BY <2>1, SameHoldDown DEF Edited
  <2>6. Tame(n, x, y)
    BY <1>1, <2>1, <2>5, Zenon DEF Edited, Tame, Quiet, Undamped, Mutes
  <2>7. /\ bgp_process(u) \in RouteSet /\ bgp_process(u).ri = u.ri
        /\ bgp_process(u).process = TRUE
    BY <2>2, ProcessEdits, Zenon DEF Edited
  <2>8. Tame(n, x, bgp_process(u))
    BY <1>1, <2>1, <2>2, <2>7, Zenon DEF Edited, Tame, Undamped, Mutes
  <2> QED BY <2>3, <2>4, <2>6, <2>8, Zenon
<1>2. CASE ~SameAttr(x, attr) /\ Exists(x)
  <2> DEFINE i == ImplicitWithdraw(x, penalty)
             y == [i EXCEPT !.ri.attr = attr]
             v == SetValid(y, valid)
  <2>1. Edited(x, i, IF "REMOVED" \in x.ri.flags THEN {"VALID", "ATTR_CHANGED"}
                     ELSE {"ATTR_CHANGED"}, {"REMOVED", "STALE"})
    BY ImplicitEdits, Zenon
  <2> HIDE DEF i
  <2>2. y \in RouteSet /\ y.ri.flags = i.ri.flags /\ y.ri.damp = i.ri.damp
    BY Zenon, <2>1, AttrEdits DEF Edited
  <2> HIDE DEF y
  <2>3. \E A, D \in SUBSET {"VALID"} : Edited(y, v, A, D)
    BY <2>2, ValidEdits, Zenon
  <2> HIDE DEF v
  <2>4. /\ bgp_process(v) \in RouteSet /\ bgp_process(v).ri = v.ri
        /\ bgp_process(v).process = TRUE
    BY <2>3, ProcessEdits, Zenon DEF Edited
  <2>5. bgp_update_main(x, p, attr, valid, penalty) = bgp_process(v)
    BY <1>2, Zenon DEF bgp_update_main, ChangedUpdate, i, y, v
  <2>6. /\ Undamped(v.ri) /\ "ATTR_CHANGED" \in v.ri.flags
        /\ "SELECTED" \in v.ri.flags <=> "SELECTED" \in x.ri.flags
    BY <2>1, <2>2, <2>3 DEF Edited, Undamped
  <2>7. Tame(n, x, bgp_process(v))
    BY <2>4, <2>6, Zenon DEF Tame
  <2> QED BY <2>5, <2>7, Zenon
<1>3. CASE ~SameAttr(x, attr) /\ ~Exists(x)
  <2> DEFINE w == [x EXCEPT !.ri.attr = attr]
             y == SetValid(w, valid)
  <2>1. w \in RouteSet /\ w.ri.flags = x.ri.flags /\ w.ri.damp = x.ri.damp
    BY Zenon, AttrEdits
  <2> HIDE DEF w
  <2>2. \E A, D \in SUBSET {"VALID"} : Edited(w, y, A, D)
    BY <2>1, ValidEdits, Zenon
  <2>3. x.ri.flags = {}
    BY <1>3 DEF Exists, NoInfo
  <2>4. bgp_update_main(x, p, attr, valid, penalty) =
          IF bgp_maximum_prefix_overflow(p, y.pcount, FALSE) THEN y ELSE bgp_process(y)
    BY <1>3, Zenon DEF bgp_update_main, NewUpdate, w, y
  <2> HIDE DEF y
  <2>5. /\ y \in RouteSet /\ Undamped(y.ri)
        /\ "SELECTED" \notin y.ri.flags /\ "REMOVED" \notin y.ri.flags
    BY <2>1, <2>2, <2>3 DEF Edited, Undamped
  <2>6. Overflows(x, y)
    BY <2>3, <2>5, Zenon DEF Overflows, HOLDDOWN
  <2>7. /\ bgp_process(y) \in RouteSet /\ bgp_process(y).ri = y.ri
        /\ bgp_process(y).process = TRUE
    BY <2>5, ProcessEdits, Zenon
  <2>8. Tame(n, x, bgp_process(y))
    BY <2>3, <2>5, <2>7, Zenon DEF Tame
  <2> QED BY <1>3, <2>4, <2>6, <2>8, Zenon
<1> QED BY <1>1, <1>2, <1>3, Zenon

-----------------------------------------------------------------------------
(* From one route to the node.                                             *)

(* A step that leaves the clients with the attributes they were told of.   *)
StillTold(n) ==
  Told(n)' => /\ Told(n)
              /\ \A p \in Selected(n) : info'[n][p].attr = info[n][p].attr

(* What a handler finds.                                                   *)
LEMMA RouteUndamped ==
  ASSUME SelInv, NEW n \in Prefixes, NEW p \in Peers
  PROVE  /\ Route(n, p) \in RouteSet /\ Route(n, p).ri = info[n][p] /\ ~Route(n, p).process
         /\ Undamped(info[n][p]) /\ (info[n][p].attr = NoAttr => info[n][p] = NoInfo)
<1>1. ClearInv /\ Undamped(info[n][p])
  BY Zenon DEF SelInv
<1>2. Sound(info[n][p])
  BY <1>1, Zenon DEF ClearInv
<1> QED BY <1>1, <1>2, RouteKept, Zenon DEF Kept, Sound

(* What the handlers of a node leave for the decision process: the same    *)
(* selection, with changes of its attribute noted, and a node that is      *)
(* scheduled if anything bears on the choice.                              *)
LEMMA CommitNode ==
  ASSUME SelInv, NEW R, Commit(R),
         \A n \in Prefixes, p \in Peers :
           \/ Tame(n, Route(n, p), R[n][p])
           \/ Overflows(Route(n, p), R[n][p]) /\ session'[p] = "Overflow",
         fib' = fib, muted \subseteq muted',
         \A n \in Prefixes, p \in Peers :
           n \notin scheduled' /\ p \in Usable(n) /\ Unseen(n, p) => Exempt(n, p)'
  PROVE  /\ \A n \in Prefixes : NodeInv(n)'
         /\ \A n \in Prefixes, p \in Peers : Undamped(info'[n][p])
         /\ \A n \in Prefixes :
              /\ Selected(n)' = Selected(n)
              /\ StillTold(n)
<1>1. ASSUME NEW n \in Prefixes, NEW p \in Peers
      PROVE  /\ info'[n][p] = R[n][p].ri
             /\ R[n][p].process => n \in scheduled'
             /\ Route(n, p).ri = info[n][p]
  BY RouteUndamped, Zenon DEF Commit
<1>2. scheduled \subseteq scheduled'
  BY Zenon DEF Commit
<1>3. ASSUME NEW n \in Prefixes, NEW p \in Peers
      PROVE  /\ Undamped(info'[n][p])
             /\ "SELECTED" \in info'[n][p].flags <=> "SELECTED" \in info[n][p].flags
             /\ n \notin muted' /\ "SELECTED" \in info[n][p].flags
                /\ "ATTR_CHANGED" \notin info'[n][p].flags =>
                  "ATTR_CHANGED" \notin info[n][p].flags /\ info'[n][p].attr = info[n][p].attr
             /\ "REMOVED" \in info'[n][p].flags => n \in scheduled' \/ "REMOVED" \in info[n][p].flags
             /\ "SELECTED" \in info[n][p].flags /\ "ATTR_CHANGED" \in info'[n][p].flags =>
                  n \in scheduled' \/ "ATTR_CHANGED" \in info[n][p].flags
             /\ \/ n \in scheduled'
                \/ /\ session'[p] = "Overflow" /\ "SELECTED" \notin info[n][p].flags
                   /\ HOLDDOWN(info[n][p].flags)
                \/ /\ HOLDDOWN(info'[n][p].flags) <=> HOLDDOWN(info[n][p].flags)
                   /\ info'[n][p].attr = info[n][p].attr
                   /\ "STALE" \in info[n][p].flags => "STALE" \in info'[n][p].flags
  <2>1. CASE Tame(n, Route(n, p), R[n][p])
    <3>1. /\ Undamped(info'[n][p])
          /\ "SELECTED" \in info'[n][p].flags <=> "SELECTED" \in info[n][p].flags
          /\ n \notin muted' /\ "SELECTED" \in info[n][p].flags
             /\ "ATTR_CHANGED" \notin info'[n][p].flags =>
               "ATTR_CHANGED" \notin info[n][p].flags /\ info'[n][p].attr = info[n][p].attr
      BY <1>1, <2>1, ZenonT(60) DEF Tame
    <3>2. n \in scheduled' \/ Quiet(Route(n, p), R[n][p])
      BY <1>1, <2>1, ZenonT(60) DEF Tame
    <3>3. Quiet(Route(n, p), R[n][p]) =>
            /\ "REMOVED" \in info'[n][p].flags => "REMOVED" \in info[n][p].flags
            /\ "SELECTED" \in info[n][p].flags /\ "ATTR_CHANGED" \in info'[n][p].flags =>
                 "ATTR_CHANGED" \in info[n][p].flags
            /\ HOLDDOWN(info'[n][p].flags) <=> HOLDDOWN(info[n][p].flags)
            /\ info'[n][p].attr = info[n][p].attr
            /\ "STALE" \in info[n][p].flags => "STALE" \in info'[n][p].flags
      BY <1>1, ZenonT(60) DEF Quiet
    <3> QED BY <3>1, <3>2, <3>3, ZenonT(60)
  <2>2. CASE Overflows(Route(n, p), R[n][p]) /\ session'[p] = "Overflow"
    <3>1. /\ Undamped(info'[n][p]) /\ "SELECTED" \notin info'[n][p].flags
          /\ "SELECTED" \notin info[n][p].flags /\ "REMOVED" \notin info'[n][p].flags
          /\ HOLDDOWN(info[n][p].flags)
      BY <1>1, <2>2, ZenonT(60) DEF Overflows
    <3> QED BY <2>2, <3>1, ZenonT(60)
  <2> QED BY <2>1, <2>2, ZenonT(60)
<1>4. ASSUME NEW n \in Prefixes
      PROVE  Selected(n)' = Selected(n)
  BY <1>3, Zenon DEF Selected
<1>5. ASSUME NEW n \in Prefixes
      PROVE  /\ Changed(n)' => n \in scheduled' \/ Changed(n)
             /\ StillTold(n)
  <2>1. \A p \in Selected(n) : p \in Peers /\ "SELECTED" \in info[n][p].flags
    BY Zenon DEF Selected
  <2> QED BY <1>3, <1>4, <2>1, SMTT(60) DEF Changed, Told, StillTold
<1>6. ASSUME NEW n \in Prefixes
      PROVE  NodeInv(n)'
  <2>0. NodeInv(n)
    BY Zenon DEF SelInv
  <2>1. \A p \in Peers : "REMOVED" \in info'[n][p].flags => n \in scheduled'
    BY <1>2, <1>3, <2>0, Zenon DEF NodeInv
  <2>2. \A p, q \in Selected(n)' : p = q
    BY <1>4, <2>0, Zenon DEF NodeInv
  <2>3. Changed(n)' => n \in scheduled'
    BY <1>2, <1>5, <2>0, Zenon DEF NodeInv
  <2>4. /\ Selected(n)' = {} <=> fib'[n] = NoAttr
        /\ Told(n)' => \A p \in Selected(n)' : fib'[n] = info'[n][p].attr
    BY <1>4, <1>5, <2>0, Zenon DEF NodeInv, StillTold
  <2>5. ASSUME n \notin scheduled'
        PROVE  /\ Selected(n)' \subseteq Usable(n)'
               /\ \A p \in Usable(n)' : Exempt(n, p)' \/ Settled(n, p)'
    <3>0. n \notin scheduled
      BY <1>2, <2>5, Zenon
    <3>1. ASSUME NEW p \in Peers
          PROVE  \/ session'[p] = "Overflow" /\ p \notin Selected(n) /\ p \notin Usable(n)
                 \/ /\ p \in Usable(n)' <=> p \in Usable(n)
                    /\ info'[n][p].attr = info[n][p].attr
                    /\ "STALE" \in info[n][p].flags => "STALE" \in info'[n][p].flags
      BY <1>3, <2>5, Zenon DEF Usable, Selected
    <3>2. Selected(n)' \subseteq Usable(n)'
      <4> SUFFICES ASSUME NEW p \in Selected(n) PROVE p \in Usable(n)'
        BY <1>4, Zenon
      <4>1. p \in Peers /\ p \in Usable(n)
        BY <2>0, <3>0, Zenon DEF NodeInv, Selected
      <4> QED BY <3>1, <4>1, Zenon
    <3>3. ASSUME NEW p \in Usable(n)', session'[p] # "Overflow"
          PROVE  Exempt(n, p)' \/ Settled(n, p)'
      <4>1. /\ p \in Peers /\ p \in Usable(n) /\ info'[n][p].attr = info[n][p].attr
            /\ "STALE" \in info[n][p].flags => "STALE" \in info'[n][p].flags
        BY <3>1, <3>3, Zenon DEF Usable
      <4>2. CASE Exempt(n, p)
        <5>1. CASE Unseen(n, p)
          BY <2>5, <4>1, <5>1, SMTT(60)
        <5>2. CASE ~FirstFamily /\ "STALE" \in info[n][p].flags
          BY <4>1, <5>2, Zenon DEF Exempt
        <5> QED BY <4>2, <5>1, <5>2, Zenon DEF Exempt
      <4>3. CASE Settled(n, p)
        <5>1. ASSUME Champion(n, p)' PROVE Champion(n, p)
          <6> SUFFICES ASSUME NEW q \in Usable(n) \ {p}
                       PROVE  <<info[n][p].attr, info[n][q].attr>> \in Prefers
            BY Zenon DEF Champion
          <6>1. q \in Usable(n)' \ {p} /\ info'[n][q].attr = info[n][q].attr
            BY <3>1, Zenon DEF Usable
          <6>2. <<info'[n][p].attr, info'[n][q].attr>> \in Prefers
            BY <5>1, <6>1, Zenon DEF Champion
          <6> QED BY <4>1, <6>1, <6>2, Zenon
        <5>2. ASSUME Covered(n, p) PROVE Covered(n, p)'
          <6>1. PICK q \in Selected(n) : q = p \/ bgp_info_cmp(n, q, p)
            BY <5>2, Zenon DEF Covered
          <6>2. q \in Peers /\ info'[n][q].attr = info[n][q].attr
            BY <3>1, <6>1, Zenon DEF Selected
          <6>3. bgp_info_cmp(n, q, p) => bgp_info_cmp(n, q, p)'
            BY <1>3, <4>1, <6>2, Zenon DEF bgp_info_cmp
          <6> QED BY <1>4, <6>1, <6>3, SMTT(60) DEF Covered
        <5> QED BY <1>4, <4>3, <5>1, <5>2, Zenon DEF Settled
      <4> QED BY <2>0, <3>0, <4>1, <4>2, <4>3, SMTT(60) DEF NodeInv
    <3>4. ASSUME NEW p \in Usable(n)', session'[p] = "Overflow"
          PROVE  Exempt(n, p)'
      BY <3>4, Zenon DEF Exempt, Unseen
    <3> QED BY <3>2, <3>3, <3>4, Zenon
  <2> QED BY <2>1, <2>2, <2>3, <2>4, <2>5, Zenon DEF NodeInv
<1> QED BY <1>3, <1>4, <1>5, <1>6, Zenon

(* Where the paths of a node are not touched.                              *)
LEMMA Untouched ==
  ASSUME SelInv, NEW n \in Prefixes, info'[n] = info[n], fib'[n] = fib[n],
         n \in scheduled' <=> n \in scheduled, n \in muted' <=> n \in muted,
         \A p \in Peers : p \in Usable(n) /\ Unseen(n, p) => Exempt(n, p)'
  PROVE  /\ NodeInv(n)'
         /\ \A p \in Peers : Undamped(info'[n][p])
         /\ Selected(n)' = Selected(n)
         /\ StillTold(n)
<1>1. NodeInv(n) /\ \A p \in Peers : Undamped(info[n][p])
  BY Zenon DEF SelInv
<1>2. Selected(n)' = Selected(n) /\ Usable(n)' = Usable(n) /\ (Changed(n)' <=> Changed(n))
  BY Zenon DEF Selected, Usable, Changed
<1>3. \A p \in Peers : Settled(n, p)' <=> Settled(n, p)
  <2>1. \A p \in Peers : Covered(n, p)' <=> Covered(n, p)
    BY <1>2, Zenon DEF Covered, bgp_info_cmp
  <2>2. \A p \in Peers : Champion(n, p)' <=> Champion(n, p)
    BY <1>2, Zenon DEF Champion
  <2> QED BY <1>2, <2>1, <2>2, Zenon DEF Settled
<1>4. \A p \in Usable(n) : p \in Peers
  BY Zenon DEF Usable
<1>5. \A p \in Usable(n) : Exempt(n, p) => Exempt(n, p)'
  BY <1>4, Zenon DEF Exempt
<1> QED BY <1>1, <1>2, <1>3, <1>4, <1>5, Zenon DEF NodeInv, Told, StillTold

-----------------------------------------------------------------------------
(* What the peers are told.                                                *)

(* The only element of a set is the one that is chosen.                    *)
LEMMA Chosen ==
  ASSUME NEW S, NEW q \in S, \A a, b \in S : a = b
  PROVE  (CHOOSE a \in S : TRUE) = q
BY Zenon

(* What a peer should believe, in terms of the selected path.              *)
LEMMA WantedIs ==
  ASSUME NEW n \in Prefixes, NEW p \in Peers, \A a, b \in Selected(n) : a = b
  PROVE  /\ Selected(n) \ {p} = {} => Wanted(n, p) = NoAttr
         /\ \A q \in Selected(n) :
              Wanted(n, p) = IF bgp_announce_check(q, info[n][q].attr, p)
                             THEN info[n][q].attr ELSE NoAttr
<1>1. Selected(n) \ {p} = {} => Wanted(n, p) = NoAttr
  BY Zenon DEF Wanted, bgp_announce_check
<1>2. ASSUME NEW q \in Selected(n)
      PROVE  Wanted(n, p) = IF bgp_announce_check(q, info[n][q].attr, p)
                            THEN info[n][q].attr ELSE NoAttr
  <2>1. (CHOOSE a \in Selected(n) : TRUE) = q
    BY Chosen, Zenon
  <2> QED BY <2>1, Zenon DEF Wanted
<1> QED BY <1>1, <1>2, Zenon

(* The same after a step.                                                  *)
LEMMA WantedThen ==
  ASSUME NEW n \in Prefixes, NEW p \in Peers, \A a, b \in Selected(n)' : a = b
  PROVE  /\ Selected(n)' \ {p} = {} => Wanted(n, p)' = NoAttr
         /\ \A q \in Selected(n)' :
              Wanted(n, p)' = IF bgp_announce_check(q, info'[n][q].attr, p)
                              THEN info'[n][q].attr ELSE NoAttr
<1>1. Selected(n)' \ {p} = {} => Wanted(n, p)' = NoAttr
  BY Zenon DEF Wanted, bgp_announce_check
<1>2. ASSUME NEW q \in Selected(n)'
      PROVE  Wanted(n, p)' = IF bgp_announce_check(q, info'[n][q].attr, p)
                             THEN info'[n][q].attr ELSE NoAttr
  <2>1. (CHOOSE a \in Selected(n)' : TRUE) = q
    BY Chosen, Zenon
  <2> QED BY <2>1, Zenon DEF Wanted
<1> QED BY <1>1, <1>2, Zenon

(* Where the selected path is the same, and its attribute.                 *)
LEMMA SameWanted ==
  ASSUME NEW n \in Prefixes, NEW p \in Peers, \A a, b \in Selected(n) : a = b,
         Selected(n)' = Selected(n), \A q \in Selected(n) : info'[n][q].attr = info[n][q].attr
  PROVE  Wanted(n, p)' = Wanted(n, p)
<1>1. CASE Selected(n) = {}
  BY <1>1, WantedIs, WantedThen
<1>2. CASE Selected(n) # {}
  <2>1. PICK q \in Selected(n) : info'[n][q].attr = info[n][q].attr
    BY <1>2, Zenon
  <2>2. Wanted(n, p) = IF bgp_announce_check(q, info[n][q].attr, p)
                       THEN info[n][q].attr ELSE NoAttr
    BY WantedIs, Zenon
  <2>3. Wanted(n, p)' = IF bgp_announce_check(q, info'[n][q].attr, p)
                        THEN info'[n][q].attr ELSE NoAttr
    BY WantedThen, SMTT(60)
  <2> QED BY <2>1, <2>2, <2>3, Zenon
<1> QED BY <1>1, <1>2, Zenon

(* A peer that is told nothing is owed nothing new.                        *)
LEMMA AdjKept ==
  ASSUME SelInv, NEW n \in Prefixes, NEW p \in Peers,
         adj'[n][p] = adj[n][p], Up(p)' <=> Up(p), Selected(n)' = Selected(n),
         StillTold(n)
  PROVE  AdjInv(n, p)'
<1>1. AdjInv(n, p) /\ NodeInv(n)
  BY Zenon DEF SelInv
<1>2. Intended(n, p)' = Intended(n, p)
  BY Zenon DEF Intended
<1>3. Told(n)' => Wanted(n, p)' = Wanted(n, p)
  BY <1>1, SameWanted, Zenon DEF NodeInv, StillTold
<1> QED BY <1>1, <1>2, <1>3, ZenonT(60) DEF AdjInv, StillTold

(* bgp_adj_out_set and bgp_adj_out_unset.                                  *)
LEMMA OutFields ==
  ASSUME NEW a \in AdjOut, NEW attr
  PROVE  /\ bgp_adj_out_set(a, attr).adv = "update" /\ bgp_adj_out_set(a, attr).new = attr
         /\ bgp_adj_out_unset(a).new = NoAttr
         /\ bgp_adj_out_unset(a).adv = "none" => bgp_adj_out_unset(a).attr = NoAttr
         /\ NoAdj.adv = "none" /\ NoAdj.new = NoAttr /\ NoAdj.attr = NoAttr
BY Zenon DEF AdjOut, bgp_adj_out_set, bgp_adj_out_unset, NoAdj

(* A peer that is up and is told of the selected path.                     *)
LEMMA Announced ==
  ASSUME NEW n \in Prefixes, NEW p \in Peers, NEW a \in AdjOut, NEW attr, Up(p)',
         \/ /\ adj'[n][p] = bgp_adj_out_set(a, attr) /\ (Told(n)' => Wanted(n, p)' = attr)
            /\ ~(Selected(n)' \subseteq {p})
         \/ adj'[n][p] = bgp_adj_out_unset(a) /\ (Told(n)' => Wanted(n, p)' = NoAttr)
  PROVE  AdjInv(n, p)'
<1>1. \/ /\ adj'[n][p].adv = "update" /\ adj'[n][p].new = attr
         /\ Told(n)' => Wanted(n, p)' = attr
         /\ ~(Selected(n)' \subseteq {p})
      \/ /\ adj'[n][p].new = NoAttr /\ (adj'[n][p].adv = "none" => adj'[n][p].attr = NoAttr)
         /\ Told(n)' => Wanted(n, p)' = NoAttr
  BY OutFields
<1> QED BY <1>1, Zenon DEF AdjInv, Intended

-----------------------------------------------------------------------------
(* The decision process.                                                   *)

(* A usable path has an attribute.                                         *)
LEMMA UsableAttr ==
  ASSUME ClearInv, NEW n \in Prefixes, NEW p \in Usable(n)
  PROVE  p \in Peers /\ p \in Nat /\ info[n][p].attr \in Attrs /\ info[n][p].attr # NoAttr
<1>1. p \in Peers /\ ~HOLDDOWN(info[n][p].flags)
  BY Zenon DEF Usable
<1>2. info[n][p].attr # NoAttr
  <2>1. info[n][p].attr = NoAttr => info[n][p] = NoInfo
    BY <1>1, Zenon DEF ClearInv, Sound
  <2>2. HOLDDOWN(NoInfo.flags)
    BY DEF NoInfo, HOLDDOWN
  <2> QED BY <1>1, <2>1, <2>2, Zenon
<1>3. info[n][p] \in Info
  BY <1>1, Zenon DEF ClearInv, IInv, TypeOK
<1>4. info[n][p].attr \in {NoAttr} \cup Attrs
  BY <1>3, Zenon DEF Info
<1> QED BY <1>1, <1>2, <1>4, RibAssumption, Zenon

(* Of two paths one is better, and a path preferred to another is.         *)
LEMMA Compared ==
  ASSUME ClearInv, NEW n \in Prefixes, NEW p \in Usable(n), NEW q \in Usable(n), p # q
  PROVE  /\ bgp_info_cmp(n, p, q) \/ bgp_info_cmp(n, q, p)
         /\ <<info[n][p].attr, info[n][q].attr>> \in Prefers =>
              bgp_info_cmp(n, p, q) /\ ~bgp_info_cmp(n, q, p)
<1>1. p \in Nat /\ q \in Nat /\ info[n][p].attr \in Attrs /\ info[n][q].attr \in Attrs
  BY UsableAttr, Zenon
<1>2. <<info[n][p].attr, info[n][q].attr>> \in Prefers =>
        <<info[n][q].attr, info[n][p].attr>> \notin Prefers
  BY <1>1, RibAssumption, Zenon DEF Attrs
<1>3. p < q \/ q < p
  BY <1>1
<1> QED BY <1>2, <1>3, Zenon DEF bgp_info_cmp

(* Where paths are ranked and one at most is selected, better is           *)
(* transitive.                                                             *)
LEMMA Transitive ==
  ASSUME ClearInv, Ranked, NEW n \in Prefixes, \A p, q \in Selected(n) : p = q,
         NEW a \in Usable(n), NEW b \in Usable(n), NEW c \in Usable(n),
         bgp_info_cmp(n, a, b), bgp_info_cmp(n, b, c)
  PROVE  a = c \/ bgp_info_cmp(n, a, c)
<1> DEFINE P(p, q) == <<info[n][p].attr, info[n][q].attr>> \in Prefers
           S(p) == "SELECTED" \in info[n][p].flags
<1>1. a \in Nat /\ b \in Nat /\ c \in Nat
  BY UsableAttr, Zenon
<1>2. \A p, q \in {a, b, c} : P(p, q) => ~P(q, p)
  <2>1. \A p \in {a, b, c} : info[n][p].attr \in Attrs
    BY UsableAttr, Zenon
  <2> QED BY <2>1, RibAssumption, Zenon DEF Attrs
<1>3. \A p, q, s \in {a, b, c} : P(p, q) => P(p, s) \/ P(s, q)
  <2>1. \A p \in {a, b, c} : info[n][p].attr \in Attrs
    BY UsableAttr, Zenon
  <2> QED BY <2>1, Zenon DEF Ranked
<1>4. S(a) /\ S(b) => a = b
  <2>1. a \in Peers /\ b \in Peers
    BY UsableAttr, Zenon
  <2> QED BY <2>1, Zenon DEF Selected
<1>5. \A p, q \in {a, b, c} :
        bgp_info_cmp(n, p, q) <=> P(p, q) \/ (~P(q, p) /\ (S(p) \/ (~S(q) /\ p < q)))
  BY Zenon DEF bgp_info_cmp
<1>6. a < b /\ b < c => a < c
  BY <1>1
<1> HIDE DEF P, S
<1> QED BY <1>2, <1>3, <1>5, <1>6, SMTT(60)

(* The loop ends with one path wherever there is a usable one: with the    *)
(* one preferred to every other if there is such a path, and, where paths  *)
(* are ranked, with the best of all.                                       *)
LEMMA BestPath ==
  ASSUME Counting, ClearInv, NEW n \in Prefixes, NEW list \in Lists,
         \A p, q \in Selected(n) : p = q
  PROVE  /\ \A p, q \in bgp_best_selection(n, list) : p = q
         /\ bgp_best_selection(n, list) \subseteq Usable(n)
         /\ \A p \in Usable(n) :
              /\ bgp_best_selection(n, list) # {}
              /\ Champion(n, p) => p \in bgp_best_selection(n, list)
              /\ Ranked => \A b \in bgp_best_selection(n, list) : b = p \/ bgp_info_cmp(n, b, p)
<1> DEFINE c == Cardinality(Peers)
           Fair(b, p) == /\ b # {}
                         /\ Champion(n, p) => p \in b
                         /\ Ranked => \A w \in b : w = p \/ bgp_info_cmp(n, w, p)
           Good(b, k) == /\ \A p, q \in b : p = q
                         /\ b \subseteq Usable(n)
                         /\ \A j \in 1 .. k : list[j] \in Usable(n) => Fair(b, list[j])
<1>1. PICK f : /\ bgp_best_selection(n, list) = f[c]
               /\ f[0] = {}
               /\ \A k \in 1 .. c : f[k] = Step(n, list[k], f[k - 1])
  BY Loop
<1>2. c \in Nat
  BY Zenon DEF Counting
<1>3. \A p \in Usable(n) : \E j \in 1 .. c : list[j] = p
  BY Zenon DEF Usable, Lists
<1>4. ASSUME NEW r \in Usable(n), NEW b, b \subseteq Usable(n), \A p, q \in b : p = q
      PROVE  /\ Fair(Step(n, r, b), r)
             /\ \A p \in Usable(n) : Fair(b, p) => Fair(Step(n, r, b), p)
  <2>1. CASE \A q \in b : bgp_info_cmp(n, r, q)
    <3>1. Step(n, r, b) = {r}
      BY <1>4, <2>1, Zenon DEF Step
    <3>2. Fair({r}, r)
      BY Zenon
    <3>3. ASSUME NEW p \in Usable(n), Fair(b, p) PROVE Fair({r}, p)
      <4>1. PICK w \in b : bgp_info_cmp(n, r, w)
        BY <2>1, <3>3, Zenon
      <4>2. ASSUME Champion(n, p) PROVE p \in {r}
        <5> SUFFICES ASSUME p # r PROVE FALSE
          BY Zenon
        <5>1. p \in b
          BY <3>3, <4>2, Zenon
        <5>2. <<info[n][p].attr, info[n][r].attr>> \in Prefers
          BY <1>4, <4>2, Zenon DEF Champion
        <5> QED BY <1>4, <2>1, <3>3, <5>1, <5>2, Compared, Zenon
      <4>3. ASSUME Ranked PROVE r = p \/ bgp_info_cmp(n, r, p)
        <5>1. w \in Usable(n) /\ (w = p \/ bgp_info_cmp(n, w, p))
          BY <1>4, <3>3, <4>1, <4>3, Zenon
        <5> QED BY <1>4, <3>3, <4>1, <4>3, <5>1, Transitive, Zenon
      <4> QED BY <4>2, <4>3, Zenon
    <3> HIDE DEF Fair
    <3> QED BY <3>1, <3>2, <3>3, Zenon
  <2>2. CASE \E q \in b : ~bgp_info_cmp(n, r, q)
    <3>1. Step(n, r, b) = b
      BY <2>2, Zenon DEF Step
    <3>2. PICK w \in b : ~bgp_info_cmp(n, r, w)
      BY <2>2, Zenon
    <3>3. w \in Usable(n) /\ \A q \in b : q = w
      BY <1>4, <3>2, Zenon
    <3>4. Champion(n, r) => r = w
      <4> SUFFICES ASSUME Champion(n, r), r # w PROVE FALSE
        BY Zenon
      <4>1. <<info[n][r].attr, info[n][w].attr>> \in Prefers
        BY <3>3, Zenon DEF Champion
      <4> QED BY <1>4, <3>2, <3>3, <4>1, Compared, Zenon
    <3>5. w = r \/ bgp_info_cmp(n, w, r)
      BY <1>4, <3>2, <3>3, Compared, Zenon
    <3>6. Fair(b, r)
      BY <3>2, <3>3, <3>4, <3>5, Zenon
    <3> HIDE DEF Fair
    <3> QED BY <3>1, <3>6, Zenon
  <2> QED BY <2>1, <2>2, Zenon
<1> HIDE DEF Fair, c
<1> DEFINE K == {k \in 0 .. c : Good(f[k], k)}
<1>5. 0 \in K
  <2>1. 0 \in 0 .. c /\ \A j \in 1 .. 0 : FALSE
    BY <1>2
  <2> QED BY <1>1, <2>1, Zenon
<1>6. ASSUME NEW k \in 1 .. c, k - 1 \in K PROVE k \in K
  <2> DEFINE b == f[k - 1]
             r == list[k]
  <2>1. Good(b, k - 1) /\ f[k] = Step(n, r, b)
    BY <1>1, <1>6, Zenon
  <2>2. k \in 0 .. c /\ \A j \in 1 .. k : j = k \/ j \in 1 .. (k - 1)
    BY <1>2
  <2>3. Good(f[k], k)
    <3>1. CASE r \in Usable(n)
      <4>1. /\ b \subseteq Usable(n) /\ \A p, q \in b : p = q
            /\ \A j \in 1 .. (k - 1) : list[j] \in Usable(n) => Fair(b, list[j])
        BY <2>1, Zenon
      <4>2. /\ Fair(f[k], r)
            /\ \A p \in Usable(n) : Fair(b, p) => Fair(f[k], p)
        <5>1. f[k] = Step(n, r, b)
          BY <2>1, Zenon
        <5> HIDE DEF b, r
        <5>2. Fair(Step(n, r, b), r) /\ \A p \in Usable(n) : Fair(b, p) => Fair(Step(n, r, b), p)
          BY <1>4, <3>1, <4>1
        <5> QED BY <5>1, <5>2, Zenon
      <4>3. f[k] \subseteq Usable(n) /\ \A p, q \in f[k] : p = q
        BY <2>1, <3>1, <4>1, Zenon DEF Step
      <4> QED BY <2>2, <4>1, <4>2, <4>3, Zenon
    <3>2. CASE r \notin Usable(n)
      <4>1. f[k] = b
        BY <2>1, <3>2, Zenon DEF Step
      <4> QED BY <2>1, <2>2, <3>2, <4>1, Zenon
    <3> QED BY <3>1, <3>2, Zenon
  <2> HIDE DEF Good
  <2> QED BY <2>2, <2>3, Zenon
<1>7. c \in K
  <2>1. K \in SUBSET (0 .. c) /\ c \in 0 .. c
    BY <1>2
  <2> HIDE DEF K
  <2> QED BY <1>2, <1>5, <1>6, <2>1, Zenon DEF Counting
<1>8. Good(f[c], c)
  BY <1>7, Zenon
<1>9. \A p \in Usable(n) : Fair(f[c], p)
  BY <1>3, <1>8, Zenon
<1>10. f[c] \subseteq Usable(n) /\ \A p, q \in f[c] : p = q
  BY <1>8, Zenon
<1> QED BY <1>1, <1>9, <1>10, Zenon DEF Fair

(* The removed paths of a node are reaped, the others stay as they are.    *)
KeptCells(n, old) ==
  \A p \in Peers : info'[n][p] = IF p \in Reaped(n, old) THEN NoInfo ELSE info[n][p]

(* The removed paths of a node are reaped, the others are marked anew.     *)
MarkedCells(n, new) ==
  \A p \in Peers :
    info'[n][p] = IF p \in Reaped(n, {}) THEN NoInfo ELSE Marked(info[n][p], p \in new)

(* Nothing to do: the selected path is the best one.                       *)
LEMMA KeepNode ==
  ASSUME Counting, SelInv, NEW n \in Prefixes, NEW list \in Lists, n \notin scheduled',
         NothingToDo(n, Selected(n), bgp_best_selection(n, list)), muted' = muted,
         fib'[n] = fib[n] \/ \E p \in Selected(n) : fib'[n] = info[n][p].attr,
         KeptCells(n, Selected(n))
  PROVE  /\ NodeInv(n)'
         /\ \A p \in Peers : Undamped(info'[n][p])
         /\ Selected(n)' = Selected(n)
         /\ ~Changed(n)
         /\ \A p \in Selected(n) : info'[n][p].attr = info[n][p].attr
<1>0. NodeInv(n) /\ ClearInv /\ TypeOK /\ \A p \in Peers : Undamped(info[n][p])
  BY Zenon DEF SelInv, ClearInv, IInv
<1>1. PICK b \in Selected(n) : "ATTR_CHANGED" \notin info[n][b].flags
  BY Zenon DEF NothingToDo
<1>2. /\ \A p, q \in Selected(n) : p = q
      /\ bgp_best_selection(n, list) = Selected(n)
  BY <1>0, Zenon DEF NodeInv, NothingToDo
<1>3. /\ b \in Peers /\ b \in Usable(n)
      /\ \A p \in Usable(n) :
           /\ Champion(n, p) => p \in Selected(n)
           /\ Ranked => b = p \/ bgp_info_cmp(n, b, p)
  <2>1. /\ Selected(n) \subseteq Usable(n)
        /\ \A p \in Usable(n) :
              /\ Champion(n, p) => p \in Selected(n)
              /\ Ranked => \A w \in Selected(n) : w = p \/ bgp_info_cmp(n, w, p)
    <3>1. /\ bgp_best_selection(n, list) \subseteq Usable(n)
          /\ \A p \in Usable(n) :
               /\ Champion(n, p) => p \in bgp_best_selection(n, list)
               /\ Ranked => \A w \in bgp_best_selection(n, list) : w = p \/ bgp_info_cmp(n, w, p)
      BY <1>0, BestPath, Zenon DEF NodeInv
    <3> QED BY <1>2, <3>1, Zenon
  <2> QED BY <1>1, <2>1, Zenon DEF Usable
<1>4. ~Changed(n)
  BY <1>1, <1>2, SMTT(60) DEF Changed
<1>5. n \notin muted => fib'[n] = info[n][b].attr
  BY <1>0, <1>1, <1>2, <1>4, SMTT(60) DEF NodeInv, Told
<1>6. "REMOVED" \notin info[n][b].flags
  BY <1>3, Zenon DEF Usable, HOLDDOWN, UNUSEABLE
<1>7. ASSUME NEW p \in Peers
      PROVE  \/ info'[n][p] = info[n][p] /\ "REMOVED" \notin info[n][p].flags
             \/ info'[n][p] = NoInfo /\ p \notin Selected(n) /\ p \notin Usable(n)
  <2>1. info'[n][p] = IF p \in Reaped(n, Selected(n)) THEN NoInfo ELSE info[n][p]
    BY Zenon DEF KeptCells
  <2>2. p \in Reaped(n, Selected(n)) <=> "REMOVED" \in info[n][p].flags /\ p \notin Selected(n)
    BY <1>1, <1>2, <1>6, Zenon DEF Reaped
  <2>3. "REMOVED" \in info[n][p].flags => p \notin Usable(n)
    BY Zenon DEF Usable, HOLDDOWN, UNUSEABLE
  <2>4. p \in Selected(n) => "REMOVED" \notin info[n][p].flags
    BY <1>1, <1>2, <1>6, Zenon
  <2> QED BY <2>1, <2>2, <2>3, <2>4, Zenon
<1>8. Selected(n)' = Selected(n) /\ Usable(n)' = Usable(n)
  <2>0. "SELECTED" \notin NoInfo.flags /\ HOLDDOWN(NoInfo.flags)
    BY Zenon DEF NoInfo, HOLDDOWN
  <2>1. Selected(n)' = Selected(n)
    BY <1>7, <2>0, ZenonT(60) DEF Selected
  <2>2. Usable(n)' = Usable(n)
    BY <1>7, <2>0, ZenonT(60) DEF Usable
  <2> QED BY <2>1, <2>2, Zenon
<1>9. \A p \in Usable(n) \cup Selected(n) : info'[n][p] = info[n][p]
  BY <1>7, Zenon DEF Usable, Selected
<1>10. \A p \in Peers : "REMOVED" \notin info'[n][p].flags /\ Undamped(info'[n][p])
  BY <1>0, <1>7, SMTT(60) DEF NoInfo, Undamped
<1>11. ~Changed(n)'
  BY <1>4, <1>8, <1>9, Zenon DEF Changed
<1>12. \A p \in Usable(n) : Settled(n, p)'
  <2> SUFFICES ASSUME NEW p \in Usable(n) PROVE Settled(n, p)'
    BY Zenon
  <2>1. bgp_info_cmp(n, b, p) => bgp_info_cmp(n, b, p)'
    BY <1>1, <1>9, SMTT(60) DEF bgp_info_cmp
  <2>2. Ranked => Covered(n, p)'
    BY <1>1, <1>3, <1>8, <2>1, Zenon DEF Covered
  <2>3. Champion(n, p)' => Champion(n, p)
    BY <1>8, <1>9, Zenon DEF Champion
  <2> QED BY <1>1, <1>3, <1>8, <2>2, <2>3, Zenon DEF Settled
<1>13. Selected(n) = {b}
  BY <1>1, <1>2, SMTT(60)
<1>14. Told(n)' => \A p \in Selected(n)' : fib'[n] = info'[n][p].attr
  BY <1>5, <1>8, <1>9, <1>13, ZenonT(60) DEF Told
<1>15. Selected(n)' # {} /\ Selected(n)' \subseteq Usable(n)'
  BY <1>3, <1>8, <1>13, Zenon
<1>17. fib'[n] # NoAttr
  <2>1. fib[n] # NoAttr
    BY <1>0, <1>1, Zenon DEF NodeInv
  <2>2. info[n][b].attr # NoAttr
    BY <1>0, <1>3, UsableAttr, Zenon
  <2> QED BY <1>13, <2>1, <2>2, Zenon
<1>16. NodeInv(n)'
  BY <1>8, <1>10, <1>11, <1>12, <1>14, <1>15, <1>17, <1>2, ZenonT(60) DEF NodeInv
<1> QED BY <1>4, <1>8, <1>9, <1>10, <1>16, ZenonT(60)

(* Another path, another attribute or none: the marks move.                *)
LEMMA ReselectNode ==
  ASSUME Counting, SelInv, NEW n \in Prefixes, NEW list \in Lists, n \notin scheduled',
         fib'[n] = AttrOf(n, bgp_best_selection(n, list)),
         MarkedCells(n, bgp_best_selection(n, list))
  PROVE  /\ NodeInv(n)'
         /\ \A p \in Peers : Undamped(info'[n][p])
         /\ Selected(n)' = bgp_best_selection(n, list)
         /\ \A p \in bgp_best_selection(n, list) :
              info'[n][p].attr = AttrOf(n, bgp_best_selection(n, list))
<1> DEFINE new == bgp_best_selection(n, list)
<1>0. NodeInv(n) /\ ClearInv /\ TypeOK /\ \A p \in Peers : Undamped(info[n][p])
  BY Zenon DEF SelInv, ClearInv, IInv
<1>1. /\ \A p, q \in new : p = q
      /\ new \subseteq Usable(n)
      /\ \A p \in Usable(n) :
           /\ new # {}
           /\ Champion(n, p) => p \in new
           /\ Ranked => \A b \in new : b = p \/ bgp_info_cmp(n, b, p)
  BY <1>0, BestPath, Zenon DEF NodeInv
<1>2. Usable(n) \subseteq Peers /\ \A p \in Usable(n) : "REMOVED" \notin info[n][p].flags
  BY Zenon DEF Usable, HOLDDOWN, UNUSEABLE
<1> HIDE DEF new
<1>3. ASSUME NEW p \in Peers
      PROVE  \/ info'[n][p] = NoInfo /\ p \notin Usable(n)
             \/ /\ "REMOVED" \notin info[n][p].flags
                /\ info'[n][p].attr = info[n][p].attr /\ info'[n][p].damp = info[n][p].damp
                /\ info'[n][p].flags = IF p \in new
                                       THEN (info[n][p].flags \cup {"SELECTED"}) \ {"ATTR_CHANGED"}
                                       ELSE info[n][p].flags \ {"SELECTED"}
  <2>1. info[n][p] \in Info
    BY <1>0 DEF TypeOK
  <2>0. (p \in new) \in BOOLEAN
    OBVIOUS
  <2>2. PICK sel \in BOOLEAN : sel = (p \in new)
    BY Zenon, <2>0
  <2>3. info'[n][p] = IF p \in Reaped(n, {}) THEN NoInfo ELSE Marked(info[n][p], sel)
    BY Zenon, <2>2 DEF new, MarkedCells
  <2>4. /\ Marked(info[n][p], sel).attr = info[n][p].attr
        /\ Marked(info[n][p], sel).damp = info[n][p].damp
        /\ Marked(info[n][p], sel).flags =
             IF sel THEN (info[n][p].flags \cup {"SELECTED"}) \ {"ATTR_CHANGED"}
             ELSE info[n][p].flags \ {"SELECTED"}
    BY <2>1, MarkedFields, ZenonT(60)
  <2>5. p \in Reaped(n, {}) <=> "REMOVED" \in info[n][p].flags
    BY Zenon DEF Reaped
  <2> QED BY <1>2, <2>2, <2>3, <2>4, <2>5, ZenonT(60)
<1>4. ASSUME NEW p \in Peers
      PROVE  /\ "SELECTED" \in info'[n][p].flags <=> p \in new
             /\ "REMOVED" \notin info'[n][p].flags
             /\ Undamped(info'[n][p])
             /\ HOLDDOWN(info'[n][p].flags) <=> p \notin Usable(n)
             /\ p \in new => "ATTR_CHANGED" \notin info'[n][p].flags
             /\ p \in Usable(n) => info'[n][p].attr = info[n][p].attr
  <2>1. CASE info'[n][p] = NoInfo /\ p \notin Usable(n)
    BY <1>1, <2>1, SMTT(120) DEF NoInfo, Undamped, HOLDDOWN
  <2>2. CASE /\ "REMOVED" \notin info[n][p].flags
             /\ info'[n][p].attr = info[n][p].attr /\ info'[n][p].damp = info[n][p].damp
             /\ info'[n][p].flags = IF p \in new
                                    THEN (info[n][p].flags \cup {"SELECTED"}) \ {"ATTR_CHANGED"}
                                    ELSE info[n][p].flags \ {"SELECTED"}
    <3>1. HOLDDOWN(info'[n][p].flags) <=> HOLDDOWN(info[n][p].flags)
      BY <2>2, SameHoldDown, Zenon
    <3> QED BY <1>0, <2>2, <3>1, SMTT(60) DEF Undamped, Usable
  <2> QED BY <1>3, <2>1, <2>2, Zenon
<1>5. Selected(n)' = new /\ Usable(n)' = Usable(n)
  BY <1>1, <1>2, <1>4, SMTT(60) DEF Selected, Usable
<1>6. ~Changed(n)'
  BY <1>1, <1>2, <1>4, <1>5, SMTT(60) DEF Changed
<1>7. ASSUME NEW b \in new
      PROVE  info'[n][b].attr = AttrOf(n, new) /\ AttrOf(n, new) # NoAttr
  <2>1. (CHOOSE p \in new : TRUE) = b
    BY <1>1, <1>7, Chosen, Zenon
  <2>2. AttrOf(n, new) = info[n][b].attr
    BY <2>1, <1>7, ZenonT(60) DEF AttrOf
  <2>3. info[n][b].attr # NoAttr
    BY <1>0, <1>1, <1>7, UsableAttr, Zenon
  <2> QED BY <1>1, <1>2, <1>4, <2>2, <2>3, SMTT(60)
<1>8. new = {} => AttrOf(n, new) = NoAttr
  BY Zenon DEF AttrOf
<1>9. ASSUME NEW p \in Usable(n)
      PROVE  Settled(n, p)'
  <2>1. PICK b \in new : Ranked => b = p \/ bgp_info_cmp(n, b, p)
    BY <1>1, <1>9, Zenon
  <2>2. b \in Peers /\ p \in Peers /\ b \in Usable(n)
    BY <1>1, <1>2, Zenon
  <2>3. /\ info'[n][b].attr = info[n][b].attr /\ info'[n][p].attr = info[n][p].attr
        /\ "SELECTED" \in info'[n][b].flags
    BY <1>4, <2>1, <2>2, Zenon
  <2>4. bgp_info_cmp(n, b, p) => bgp_info_cmp(n, b, p)'
    BY <2>3, Zenon DEF bgp_info_cmp
  <2>5. Ranked => Covered(n, p)'
    BY <1>5, <2>1, <2>4, Zenon DEF Covered
  <2>6. Champion(n, p)' => Champion(n, p)
    BY <1>2, <1>4, <1>5, <2>2, Zenon DEF Champion
  <2> QED BY <1>1, <1>5, <2>5, <2>6, Zenon DEF Settled
<1>10. fib'[n] = AttrOf(n, new)
  BY Zenon DEF new
<1>11. NodeInv(n)'
  BY <1>1, <1>4, <1>5, <1>6, <1>7, <1>8, <1>9, <1>10, ZenonT(60) DEF NodeInv
<1> QED BY <1>4, <1>5, <1>7, <1>11, SMTT(60) DEF new

(* bgp_process_main.                                                       *)
LEMMA ProcessSel ==
  ASSUME Counting, SelInv, ClearInv', NEW n \in Prefixes, bgp_process_main(n)
  PROVE  SelInv'
<1>0. /\ TypeOK /\ NodeInv(n)
      /\ adj \in [Prefixes -> [Peers -> AdjOut]] /\ fib \in [Prefixes -> {NoAttr} \cup Attrs]
  BY Zenon DEF SelInv, ClearInv, IInv, TypeOK
<1>1. scheduled' = scheduled \ {n} /\ UNCHANGED <<session, nsfwait, clearq>>
  BY Zenon DEF bgp_process_main, session_vars
<1>8. /\ \A m \in Prefixes \ {n} : info'[m] = info[m]
      /\ \E list \in Lists :
           \/ /\ NothingToDo(n, Selected(n), bgp_best_selection(n, list))
              /\ KeepSelected(n, Selected(n)) /\ KeptCells(n, Selected(n))
           \/ /\ ~NothingToDo(n, Selected(n), bgp_best_selection(n, list))
              /\ Reselect(n, bgp_best_selection(n, list))
              /\ MarkedCells(n, bgp_best_selection(n, list))
  BY <1>0, ProcessCells, ZenonT(60) DEF KeptCells, MarkedCells
<1>9. PICK list \in Lists :
           \/ /\ NothingToDo(n, Selected(n), bgp_best_selection(n, list))
              /\ KeepSelected(n, Selected(n)) /\ KeptCells(n, Selected(n))
           \/ /\ ~NothingToDo(n, Selected(n), bgp_best_selection(n, list))
              /\ Reselect(n, bgp_best_selection(n, list))
              /\ MarkedCells(n, bgp_best_selection(n, list))
  BY <1>8, Zenon
<1> DEFINE old == Selected(n)
           new == bgp_best_selection(n, list)
<1>2. \A p \in Peers :
        /\ Up(p)' <=> Up(p)
        /\ \A m \in Prefixes \ {n} : Unseen(m, p) => Exempt(m, p)'
  BY <1>1, Zenon DEF Up, Exempt, Unseen
<1>3. /\ \A m \in Prefixes \ {n} : info'[m] = info[m]
      /\ \/ NothingToDo(n, old, new) /\ KeepSelected(n, old) /\ KeptCells(n, old)
         \/ ~NothingToDo(n, old, new) /\ Reselect(n, new) /\ MarkedCells(n, new)
  BY <1>8, <1>9, Zenon
<1>4. \A m \in Prefixes \ {n} :
        fib'[m] = fib[m] /\ adj'[m] = adj[m] /\ (m \in muted' <=> m \in muted)
  BY <1>0, <1>3, Zenon DEF KeepSelected, Reselect
<1>5. ASSUME NEW m \in Prefixes \ {n}
      PROVE  NodeInv(m)' /\ \A p \in Peers : Undamped(info'[m][p]) /\ AdjInv(m, p)'
  <2>1. /\ NodeInv(m)' /\ \A p \in Peers : Undamped(info'[m][p])
        /\ Selected(m)' = Selected(m)
        /\ StillTold(m)
    BY <1>1, <1>2, <1>3, <1>4, Untouched, ZenonT(60)
  <2> QED BY <1>2, <1>4, <2>1, AdjKept, ZenonT(60)
<1>6. CASE NothingToDo(n, old, new) /\ KeepSelected(n, old) /\ KeptCells(n, old)
  <2>1. adj' = adj /\ muted' = muted /\ (fib'[n] = fib[n] \/ \E p \in old : fib'[n] = info[n][p].attr)
    BY <1>0, <1>6, SMTT(60) DEF KeepSelected
  <2>2. /\ NodeInv(n)' /\ \A p \in Peers : Undamped(info'[n][p])
        /\ Selected(n)' = Selected(n) /\ ~Changed(n)
        /\ \A p \in Selected(n) : info'[n][p].attr = info[n][p].attr
    BY <1>1, <1>6, <2>1, KeepNode, ZenonT(60)
  <2>3. StillTold(n)
    BY <2>1, <2>2, Zenon DEF StillTold, Told
  <2>4. \A p \in Peers : AdjInv(n, p)'
    BY <1>2, <2>1, <2>2, <2>3, AdjKept, ZenonT(60)
  <2> QED BY <1>5, <2>2, <2>4, SMTT(60) DEF SelInv
<1>7. CASE ~NothingToDo(n, old, new) /\ Reselect(n, new) /\ MarkedCells(n, new)
  <2>1. /\ fib'[n] = AttrOf(n, new)
        /\ \A p \in Peers :
             adj'[n][p] = bgp_process_announce_selected(n, p, new, AttrOf(n, new))
    BY <1>0, <1>7, Zenon DEF Reselect, bgp_zebra_announce
  <2>2. /\ NodeInv(n)' /\ \A p \in Peers : Undamped(info'[n][p])
        /\ Selected(n)' = new
        /\ \A p \in new : info'[n][p].attr = AttrOf(n, new)
    BY <1>1, <1>7, <2>1, ReselectNode, ZenonT(60)
  <2> HIDE DEF new
  <2>3. \A a, b \in Selected(n)' : a = b
    BY <2>2, Zenon DEF NodeInv
  <2>4. ASSUME NEW p \in Peers PROVE AdjInv(n, p)'
    <3>0. AdjInv(n, p) /\ adj[n][p] \in AdjOut
      BY <1>0, Zenon DEF SelInv
    <3>1. CASE ~Up(p)
      <4>1. adj'[n][p] = NoAdj /\ ~Up(p)'
        BY <1>2, <2>1, <3>0, <3>1, Zenon DEF bgp_process_announce_selected, AdjInv
      <4> QED BY <4>1, SMTT(60) DEF AdjInv, NoAdj
    <3>2. CASE Up(p) /\ \E q \in new : bgp_announce_check(q, AttrOf(n, new), p)
      <4>1. PICK q \in new : bgp_announce_check(q, AttrOf(n, new), p)
        BY <3>2, Zenon
      <4>2. Wanted(n, p)' = AttrOf(n, new)
        BY <2>2, <2>3, <4>1, WantedThen, SMTT(60)
      <4>3. adj'[n][p] = bgp_adj_out_set(adj[n][p], AttrOf(n, new))
        BY <2>1, <3>2, Zenon DEF bgp_process_announce_selected
      <4>4. ~(Selected(n)' \subseteq {p})
        BY <2>2, <4>1, Zenon DEF bgp_announce_check
      <4> QED BY <1>2, <3>0, <3>2, <4>2, <4>3, <4>4, Announced, ZenonT(60)
    <3>3. CASE Up(p) /\ ~\E q \in new : bgp_announce_check(q, AttrOf(n, new), p)
      <4>1. Wanted(n, p)' = NoAttr
        <5>1. CASE new = {}
          BY <2>2, <2>3, <5>1, WantedThen, SMTT(60)
        <5>2. CASE new # {}
          <6>1. PICK q \in new : ~bgp_announce_check(q, info'[n][q].attr, p)
            BY <2>2, <3>3, <5>2, Zenon
          <6> QED BY <2>2, <2>3, <6>1, WantedThen, Zenon
        <5> QED BY <5>1, <5>2, Zenon
      <4>2. adj'[n][p] = bgp_adj_out_unset(adj[n][p])
        BY <2>1, <3>3, Zenon DEF bgp_process_announce_selected
      <4> QED BY <1>2, <3>0, <3>3, <4>1, <4>2, Announced, SMTT(60)
    <3> QED BY <3>1, <3>2, <3>3, Zenon
  <2> QED BY <1>5, <2>2, <2>4, Zenon DEF SelInv
<1> QED BY <1>3, <1>6, <1>7, Zenon

-----------------------------------------------------------------------------
(* The handlers that change paths and announce nothing.                    *)
LEMMA CommitSel ==
  ASSUME SelInv, ClearInv', NEW R, Commit(R),
         \A n \in Prefixes, p \in Peers :
           \/ Tame(n, Route(n, p), R[n][p])
           \/ Overflows(Route(n, p), R[n][p]) /\ session'[p] = "Overflow",
         fib' = fib, adj' = adj, muted \subseteq muted', \A p \in Peers : Up(p)' <=> Up(p),
         \A n \in Prefixes, p \in Peers :
           n \notin scheduled' /\ p \in Usable(n) /\ Unseen(n, p) => Exempt(n, p)'
  PROVE  SelInv'
<1>1. /\ \A n \in Prefixes : NodeInv(n)'
      /\ \A n \in Prefixes, p \in Peers : Undamped(info'[n][p])
      /\ \A n \in Prefixes :
           /\ Selected(n)' = Selected(n)
           /\ StillTold(n)
  BY CommitNode, ZenonT(60)
<1>2. \A n \in Prefixes, p \in Peers : AdjInv(n, p)'
  BY <1>1, AdjKept, ZenonT(60)
<1> QED BY <1>1, <1>2, ZenonT(60) DEF SelInv

(* A handler of one route leaves the others alone.                         *)
LEMMA OneTame ==
  ASSUME SelInv, NEW n \in Prefixes, NEW p \in Peers, NEW y, CommitOne(n, p, y),
         \/ Tame(n, Route(n, p), y)
         \/ Overflows(Route(n, p), y) /\ session'[p] = "Overflow"
  PROVE  \E R :
           /\ Commit(R) /\ R[n][p] = y
           /\ \A m \in Prefixes, q \in Peers :
                \/ Tame(m, Route(m, q), R[m][q])
                \/ Overflows(Route(m, q), R[m][q]) /\ session'[q] = "Overflow"
<1> DEFINE R == [m \in Prefixes |-> [q \in Peers |->
                   IF m = n /\ q = p THEN y ELSE Route(m, q)]]
<1>1. \A m \in Prefixes, q \in Peers : Tame(m, Route(m, q), Route(m, q))
  BY RouteUndamped, RemoveTame, Zenon
<1>2. \A m \in Prefixes, q \in Peers : R[m][q] = IF m = n /\ q = p THEN y ELSE Route(m, q)
  BY Zenon
<1>3. Commit(R)
  BY Zenon DEF CommitOne
<1> HIDE DEF R
<1>4. R[n][p] = y
  BY <1>2, Zenon
<1>5. ASSUME NEW m \in Prefixes, NEW q \in Peers
      PROVE  \/ Tame(m, Route(m, q), R[m][q])
             \/ Overflows(Route(m, q), R[m][q]) /\ session'[q] = "Overflow"
  <2>1. CASE m = n /\ q = p
    BY <1>2, <2>1, Zenon
  <2>2. CASE ~(m = n /\ q = p)
    BY <1>1, <1>2, <2>2, SMTT(60)
  <2> QED BY <2>1, <2>2, Zenon
<1> QED BY <1>3, <1>4, <1>5, SMTT(60)

(* Messages of a peer.                                                     *)
LEMMA MessageSel ==
  ASSUME ~Dampening, SelInv, ClearInv', NEW p \in Peers, NEW n \in Prefixes,
         bgp_update(p, n) \/ bgp_update_filtered(p, n) \/ bgp_withdraw_receive(p, n)
  PROVE  SelInv'
<1> DEFINE x == Route(n, p)
<1>1. /\ x \in RouteSet /\ Undamped(x.ri) /\ (x.ri.attr = NoAttr => x.ri = NoInfo)
      /\ session \in [Peers -> Sessions]
  BY RouteUndamped, SMTT(60) DEF SelInv, ClearInv, IInv, TypeOK
<1>2. session[p] \in {"Established", "Notified"}
  BY ZenonT(60) DEF bgp_update, bgp_update_filtered, bgp_withdraw_receive, Reads
<1>3. /\ UNCHANGED <<nsfwait, clearq, adj, fib>> /\ muted \subseteq muted'
      /\ session' = session \/ session' = [session EXCEPT ![p] = "Overflow"]
  BY Zenon DEF bgp_update, bgp_update_filtered, bgp_withdraw_receive, session_vars, out_vars
<1>4. \E y : /\ CommitOne(n, p, y)
             /\ Tame(n, x, y) \/ (Overflows(x, y) /\ session'[p] = "Overflow")
  <2>1. CASE bgp_update(p, n)
    <3>1. PICK attr \in Attrs, valid \in BOOLEAN, penalty \in PenaltyFor(x) :
            /\ muted' = IF Mutes(x, attr) THEN muted \cup {n} ELSE muted
            /\ CommitOne(n, p, bgp_update_main(x, p, attr, valid, penalty))
            /\ session' = IF ~Exists(x) /\ bgp_maximum_prefix_overflow(p,
                               bgp_update_main(x, p, attr, valid, penalty).pcount, FALSE)
                          THEN [session EXCEPT ![p] = "Overflow"] ELSE session
      BY <2>1, ZenonT(60) DEF bgp_update
    <3> DEFINE y == bgp_update_main(x, p, attr, valid, penalty)
    <3>2. n \in muted' \/ ~Mutes(x, attr)
      BY <3>1, ZenonT(60)
    <3> HIDE DEF x
    <3>3. \/ Tame(n, x, y)
          \/ /\ ~Exists(x) /\ bgp_maximum_prefix_overflow(p, y.pcount, FALSE)
             /\ Overflows(x, y)
      BY <1>1, <3>2, UpdateTame, ZenonT(60)
    <3> HIDE DEF y
    <3>4. CommitOne(n, p, y)
      BY <3>1, ZenonT(60) DEF y
    <3>5. session' = IF ~Exists(x) /\ bgp_maximum_prefix_overflow(p, y.pcount, FALSE)
                     THEN [session EXCEPT ![p] = "Overflow"] ELSE session
      BY <3>1, Zenon DEF y
    <3> QED BY <1>1, <3>3, <3>4, <3>5, Zenon
  <2>2. CASE bgp_update_filtered(p, n)
    <3>1. CommitOne(n, p, bgp_rib_remove(x))
      BY <2>2, Zenon DEF bgp_update_filtered
    <3> QED BY <1>1, <3>1, RemoveTame, Zenon
  <2>3. CASE bgp_withdraw_receive(p, n)
    <3>1. PICK penalty \in PenaltyFor(x) : CommitOne(n, p, bgp_withdraw(x, penalty))
      BY <2>3, Zenon DEF bgp_withdraw_receive
    <3>2. Tame(n, x, bgp_withdraw(x, penalty))
      BY <1>1, WithdrawTame, Zenon
    <3> QED BY <3>1, <3>2, Zenon
  <2> QED BY <2>1, <2>2, <2>3, SMTT(60)
<1>5. \A q \in Peers :
        /\ Up(q)' <=> Up(q)
        /\ q # p => session'[q] = session[q]
  BY <1>1, <1>2, <1>3, Zenon DEF Up
<1>6. \A m \in Prefixes, q \in Peers : Unseen(m, q) => Exempt(m, q)'
  BY <1>2, <1>3, <1>5, Zenon DEF Exempt, Unseen
<1>7. PICK R : /\ Commit(R)
               /\ \A m \in Prefixes, q \in Peers :
                    \/ Tame(m, Route(m, q), R[m][q])
                    \/ Overflows(Route(m, q), R[m][q]) /\ session'[q] = "Overflow"
  <2>1. PICK y : /\ CommitOne(n, p, y)
                 /\ Tame(n, x, y) \/ (Overflows(x, y) /\ session'[p] = "Overflow")
    BY <1>4, Zenon
  <2> QED BY <2>1, OneTame, ZenonT(60)
<1> QED BY <1>3, <1>5, <1>6, <1>7, CommitSel, SMTT(60)

(* Clearing of one node: what it removes it hands over.                    *)
LEMMA NodeSel ==
  ASSUME ~Dampening, SelInv, ClearInv', NEW p \in Peers, NEW n \in Prefixes, ClearRouteNode(p, n)
  PROVE  SelInv'
<1> DEFINE x == Route(n, p)
<1>0. (p \in nsfwait \cap nsf) \in BOOLEAN
  OBVIOUS
<1>1. PICK waiting \in BOOLEAN : waiting = (p \in nsfwait \cap nsf)
  BY Zenon, <1>0
<1> DEFINE y == bgp_clear_route_node(x, waiting)
<1>2. x \in RouteSet /\ Undamped(x.ri) /\ x.ri = info[n][p]
  BY RouteUndamped, Zenon
<1>3. /\ UNCHANGED <<session, nsfwait, adj, fib, muted>> /\ clearq' = clearq \ {<<p, n>>}
      /\ CommitOne(n, p, y)
  BY Zenon, <1>1 DEF ClearRouteNode, out_vars
<1>4. waiting => p \in nsfwait
  BY <1>1, ZenonT(60)
<1>5. p \in Usable(n) => Exists(x)
  BY <1>2, RouteUndamped DEF Usable, HOLDDOWN, Exists, NoInfo
<1> HIDE DEF x
<1>6. Tame(n, x, y) /\ (Exists(x) => y.process \/ (waiting /\ "STALE" \in y.ri.flags))
  BY <1>2, WithdrawTame, Zenon
<1> HIDE DEF y
<1>7. PICK R : /\ Commit(R) /\ R[n][p] = y
               /\ \A m \in Prefixes, q \in Peers :
                    \/ Tame(m, Route(m, q), R[m][q])
                    \/ Overflows(Route(m, q), R[m][q]) /\ session'[q] = "Overflow"
  BY <1>3, <1>6, OneTame, SMTT(120) DEF x
<1>8. (y.process => n \in scheduled') /\ info'[n][p] = y.ri
  BY <1>7, Zenon DEF Commit
<1>9. ASSUME NEW m \in Prefixes, NEW q \in Peers, m \notin scheduled', q \in Usable(m), Unseen(m, q)
      PROVE  Exempt(m, q)'
  <2>1. CASE m = n /\ q = p
    BY <1>3, <1>4, <1>5, <1>6, <1>8, <1>9, <2>1, Zenon DEF Exempt, Unseen
  <2>2. CASE ~(m = n /\ q = p)
    BY <1>3, <1>9, <2>2, SMTT(60) DEF Exempt, Unseen
  <2> QED BY <2>1, <2>2, Zenon
<1>10. \A q \in Peers : Up(q)' <=> Up(q)
  BY <1>3, Zenon DEF Up
<1> QED BY <1>3, <1>7, <1>9, <1>10, CommitSel, ZenonT(60)

(* Without dampening the scanner changes no more than the use of paths     *)
(* whose nodes it hands over.                                              *)
LEMMA ScanSel ==
  ASSUME ~Dampening, SelInv, ClearInv', bgp_scan
  PROVE  SelInv'
<1> DEFINE seen(reach, low, expired, n, p) ==
             ScanRoute(Route(n, p), info[n][p].attr \in reach,
                       IF <<n, p>> \in low THEN 0 ELSE 1, <<n, p>> \in expired)
           R(reach, low, expired) == [n \in Prefixes |-> [p \in Peers |->
             IF InTable(n) THEN bgp_process(seen(reach, low, expired, n, p))
             ELSE seen(reach, low, expired, n, p)]]
<1>1. PICK reach \in SUBSET Attrs, low \in SUBSET Damped, expired \in SUBSET Damped :
        Commit(R(reach, low, expired))
  BY Zenon DEF bgp_scan
<1>2. ASSUME NEW n \in Prefixes, NEW p \in Peers
      PROVE  Tame(n, Route(n, p), R(reach, low, expired)[n][p])
  <2> DEFINE x == Route(n, p)
             y == seen(reach, low, expired, n, p)
  <2>1. x \in RouteSet /\ Undamped(x.ri)
    BY RouteUndamped, Zenon
  <2>2. (info[n][p].attr \in reach) \in BOOLEAN /\ (<<n, p>> \in expired) \in BOOLEAN
    OBVIOUS
  <2>3. Tame(n, x, bgp_process(y)) /\ (~Exists(x) => Tame(n, x, y))
    BY Zenon, <2>1, <2>2, ScanTame
  <2>4. ~InTable(n) => ~Exists(x)
    BY Zenon DEF InTable
  <2>5. R(reach, low, expired)[n][p] = IF InTable(n) THEN bgp_process(y) ELSE y
    BY Zenon
  <2> HIDE DEF R, y, seen, x
  <2> QED BY <2>3, <2>4, <2>5, Zenon DEF x
<1> HIDE DEF R, seen
<1>3. /\ session' = [p \in Peers |->
                       IF session[p] = "Established" /\ pcount[p] > Pmax
                       THEN "Notified" ELSE session[p]]
      /\ UNCHANGED <<nsfwait, clearq, adj, fib, muted>>
  BY Zenon DEF bgp_scan, out_vars
<1>4. \A p \in Peers :
        /\ Up(p)' <=> Up(p)
        /\ \A n \in Prefixes : Unseen(n, p) => Exempt(n, p)'
  BY <1>3, Zenon DEF Up, Exempt, Unseen
<1> QED BY <1>1, <1>2, <1>3, <1>4, CommitSel, ZenonT(60)

(* Nothing is suppressed.                                                  *)
LEMMA ReuseSel ==
  ASSUME SelInv
  PROVE  ~bgp_reuse_timer
<1>0. \A n \in Prefixes, p \in Peers : "DAMPED" \notin info[n][p].flags
  BY Zenon DEF SelInv, Undamped
<1>1. Suppressed = {}
  BY <1>0, Zenon DEF Suppressed
<1>2. ~\E S \in (SUBSET Suppressed) \ {{}} : TRUE
  BY <1>1, Zenon
<1> QED BY Zenon, <1>2 DEF bgp_reuse_timer

-----------------------------------------------------------------------------
(* Sessions.                                                               *)

(* Sweeping stale paths.                                                   *)
LEMMA SweepTame ==
  ASSUME ~Dampening, SelInv, NEW p \in Peers, NEW swept, Sweep(p, swept)
  PROVE  \E R : /\ Commit(R)
                /\ \A m \in Prefixes, q \in Peers : Tame(m, Route(m, q), R[m][q])
<1> DEFINE R == [n \in Prefixes |-> [q \in Peers |->
                   IF q = p /\ swept THEN bgp_clear_stale_route(Route(n, q)) ELSE Route(n, q)]]
<1>1. ASSUME NEW m \in Prefixes, NEW q \in Peers
      PROVE  Tame(m, Route(m, q), R[m][q])
  <2> DEFINE x == Route(m, q)
             y == bgp_clear_stale_route(x)
  <2>1. x \in RouteSet /\ Undamped(x.ri)
    BY RouteUndamped, Zenon
  <2> HIDE DEF x
  <2>2. Tame(m, x, x) /\ Tame(m, x, y)
    BY <2>1, RemoveTame, WithdrawTame, SMTT(60)
  <2> HIDE DEF y
  <2>3. R[m][q] \in {x, y}
    BY Zenon DEF x, y
  <2> HIDE DEF R
  <2> QED BY <2>2, <2>3, Zenon DEF x
<1>2. Commit(R)
  BY Zenon DEF Sweep
<1> HIDE DEF R
<1> QED BY <1>1, <1>2, Zenon

(* bgp_announce_route on one node: nothing is selected for the peer, or    *)
(* the peer is told of what is.                                            *)
LEMMA AnnounceRoute ==
  ASSUME NEW n \in Prefixes, NEW p \in Peers, \A a, b \in Selected(n) : a = b
  PROVE  \/ Selected(n) \ {p} = {} /\ bgp_announce_route(p)[n] = adj[n][p]
         \/ \E q \in Selected(n) \ {p} :
              bgp_announce_route(p)[n] =
                IF bgp_announce_check(q, info[n][q].attr, p)
                THEN bgp_adj_out_set(adj[n][p], info[n][q].attr)
                ELSE bgp_adj_out_unset(adj[n][p])
<1>1. CASE Selected(n) \ {p} = {}
  BY <1>1, Zenon DEF bgp_announce_route
<1>2. CASE Selected(n) \ {p} # {}
  <2>1. PICK q \in Selected(n) \ {p} : TRUE
    BY <1>2, Zenon
  <2>2. (CHOOSE a \in Selected(n) \ {p} : TRUE) = q
    BY Chosen, Zenon
  <2> QED BY <1>2, <2>1, <2>2, Zenon DEF bgp_announce_route
<1> QED BY <1>1, <1>2, ZenonT(60)

(* A peer that is up, and is told of the whole table.                      *)
LEMMA TableAnnounced ==
  ASSUME SelInv, NEW n \in Prefixes, NEW p \in Peers,
         adj'[n][p] = bgp_announce_route(p)[n], Up(p)', Up(p) \/ adj[n][p] = NoAdj,
         Selected(n)' = Selected(n),
         StillTold(n)
  PROVE  AdjInv(n, p)'
<1>0. AdjInv(n, p) /\ adj[n][p] \in AdjOut /\ \A a, b \in Selected(n) : a = b
  <2>1. AdjInv(n, p) /\ NodeInv(n) /\ TypeOK
    BY ZenonT(60) DEF SelInv, ClearInv, IInv
  <2>2. adj[n][p] \in AdjOut
    BY <2>1, ZenonT(60) DEF TypeOK
  <2> QED BY <2>1, <2>2, ZenonT(60) DEF NodeInv
<1>1. Told(n)' => Wanted(n, p)' = Wanted(n, p)
  BY <1>0, SameWanted, Zenon DEF StillTold
<1>2. CASE Selected(n) \ {p} = {} /\ bgp_announce_route(p)[n] = adj[n][p]
  <2>1. CASE Up(p)
    <3>1. Intended(n, p)' = Intended(n, p)
      BY <1>2, ZenonT(60) DEF Intended
    <3> QED BY <1>0, <1>1, <1>2, <2>1, <3>1, ZenonT(60) DEF AdjInv, StillTold
  <2>2. CASE adj[n][p] = NoAdj
    <3>1. Wanted(n, p) = NoAttr
      BY <1>0, <1>2, WantedIs, ZenonT(60)
    <3>2. NoAdj.adv = "none" /\ NoAdj.attr = NoAttr
      BY Zenon DEF NoAdj
    <3>3. adj'[n][p] = NoAdj
      BY <1>2, <2>2, Zenon
    <3>4. Intended(n, p)' = NoAttr
      BY <3>2, <3>3, Zenon DEF Intended
    <3>5. "none" # "withdraw"
      BY Zenon
    <3> QED BY <1>1, <3>1, <3>2, <3>3, <3>4, <3>5, Zenon DEF AdjInv
  <2> QED BY <2>1, <2>2, ZenonT(60)
<1>3. CASE \E q \in Selected(n) \ {p} :
             bgp_announce_route(p)[n] =
               IF bgp_announce_check(q, info[n][q].attr, p)
               THEN bgp_adj_out_set(adj[n][p], info[n][q].attr)
               ELSE bgp_adj_out_unset(adj[n][p])
  <2>1. PICK q \in Selected(n) \ {p} :
          bgp_announce_route(p)[n] =
            IF bgp_announce_check(q, info[n][q].attr, p)
            THEN bgp_adj_out_set(adj[n][p], info[n][q].attr)
            ELSE bgp_adj_out_unset(adj[n][p])
    BY <1>3, ZenonT(60)
  <2>2. Wanted(n, p) = IF bgp_announce_check(q, info[n][q].attr, p)
                       THEN info[n][q].attr ELSE NoAttr
    BY <1>0, WantedIs, Zenon
  <2> QED BY <1>0, <1>1, <2>1, <2>2, Announced, ZenonT(60)
<1> QED BY <1>0, <1>2, <1>3, AnnounceRoute, ZenonT(60)

(* Packets: what was queued has been sent.                                 *)
LEMMA Written ==
  ASSUME SelInv, NEW p \in Peers, bgp_withdraw_packet(p) \/ bgp_update_packet(p)
  PROVE  \A n \in Prefixes :
           /\ \A q \in Peers \ {p} : adj'[n][q] = adj[n][q]
           /\ Intended(n, p)' = Intended(n, p)
           /\ adj'[n][p].adv = "withdraw" => adj'[n][p].new = NoAttr
<1> SUFFICES ASSUME NEW n \in Prefixes
             PROVE  /\ \A q \in Peers \ {p} : adj'[n][q] = adj[n][q]
                    /\ Intended(n, p)' = Intended(n, p)
                    /\ adj'[n][p].adv = "withdraw" => adj'[n][p].new = NoAttr
  BY Zenon
<1>1. adj \in [Prefixes -> [Peers -> AdjOut]] /\ AdjInv(n, p)
  BY Zenon DEF SelInv, ClearInv, IInv, TypeOK
<1>2. \/ adj'[n] = adj[n]
      \/ adj[n][p].adv = "withdraw" /\ adj'[n] = [adj[n] EXCEPT ![p] = NoAdj]
      \/ /\ adj[n][p].adv = "update"
         /\ adj'[n] = [adj[n] EXCEPT ![p] = [NoAdj EXCEPT !.attr = adj[n][p].new]]
  BY SMTT(60) DEF bgp_withdraw_packet, bgp_update_packet, Waiting
<1>3. CASE adj'[n] = adj[n]
  BY <1>1, <1>3, Zenon DEF AdjInv, Intended
<1>4. CASE adj[n][p].adv = "withdraw" /\ adj'[n] = [adj[n] EXCEPT ![p] = NoAdj]
  <2>1. adj'[n][p] = NoAdj /\ \A q \in Peers \ {p} : adj'[n][q] = adj[n][q]
    BY <1>1, <1>4, Zenon
  <2>2. NoAdj.adv = "none" /\ NoAdj.attr = NoAttr /\ NoAdj.new = NoAttr
    BY Zenon DEF NoAdj
  <2>3. Intended(n, p)' = NoAttr
    BY <2>1, <2>2, Zenon DEF Intended
  <2>4. adj[n][p].new = NoAttr
    BY <1>1, <1>4, Zenon DEF AdjInv
  <2>5. Intended(n, p) = NoAttr
    BY <1>4, <2>4, Zenon DEF Intended
  <2> QED BY <2>1, <2>2, <2>3, <2>5, Zenon
<1>5. CASE /\ adj[n][p].adv = "update"
           /\ adj'[n] = [adj[n] EXCEPT ![p] = [NoAdj EXCEPT !.attr = adj[n][p].new]]
  <2>1. /\ adj'[n][p] = [NoAdj EXCEPT !.attr = adj[n][p].new]
        /\ \A q \in Peers \ {p} : adj'[n][q] = adj[n][q]
    BY <1>1, <1>5, SMTT(60)
  <2>2. adj'[n][p].adv = "none" /\ adj'[n][p].attr = adj[n][p].new
    BY <2>1, Zenon DEF NoAdj
  <2> QED BY <1>5, <2>1, <2>2 DEF Intended
<1> QED BY <1>2, <1>3, <1>4, <1>5, SMTT(60)

(* A route refresh, and packets.                                           *)
LEMMA TalkSel ==
  ASSUME SelInv, ClearInv', NEW p \in Peers, bgp_route_refresh_receive(p) \/ bgp_write(p)
  PROVE  SelInv'
<1>1. Up(p) /\ UNCHANGED <<info, scheduled, session, nsfwait, clearq, fib, muted>>
  BY Zenon DEF bgp_route_refresh_receive, bgp_write, session_vars
<1>2. \A q \in Peers : (Up(q)' <=> Up(q)) /\ \A n \in Prefixes : Unseen(n, q) => Exempt(n, q)'
  BY <1>1, Zenon DEF Up, Exempt, Unseen
<1>3. ASSUME NEW n \in Prefixes
      PROVE  /\ NodeInv(n)' /\ \A q \in Peers : Undamped(info'[n][q])
             /\ Selected(n)' = Selected(n)
             /\ StillTold(n)
  BY <1>1, <1>2, Untouched, ZenonT(60)
<1>4. adj \in [Prefixes -> [Peers -> AdjOut]]
  BY Zenon DEF SelInv, ClearInv, IInv, TypeOK
<1>5. ASSUME NEW n \in Prefixes, NEW q \in Peers
      PROVE  AdjInv(n, q)'
  <2>1. CASE bgp_route_refresh_receive(p)
    <3>1. /\ adj'[n][p] = bgp_announce_route(p)[n]
          /\ q # p => adj'[n][q] = adj[n][q]
      BY <1>4, <2>1, ZenonT(60) DEF bgp_route_refresh_receive
    <3>2. CASE q = p
      BY <1>1, <1>2, <1>3, <3>1, <3>2, TableAnnounced, ZenonT(60)
    <3>3. CASE q # p
      BY <1>2, <1>3, <3>1, <3>3, AdjKept, ZenonT(60)
    <3> QED BY <3>2, <3>3, Zenon
  <2>2. CASE bgp_write(p)
    <3>0. bgp_withdraw_packet(p) \/ bgp_update_packet(p)
      BY <2>2, Zenon DEF bgp_write
    <3>1. /\ q # p => adj'[n][q] = adj[n][q]
          /\ Intended(n, p)' = Intended(n, p)
          /\ adj'[n][p].adv = "withdraw" => adj'[n][p].new = NoAttr
      BY <3>0, Written, Zenon
    <3>2. CASE q = p
      <4>1. AdjInv(n, p) /\ NodeInv(n)
        BY Zenon DEF SelInv
      <4>2. Told(n)' => Wanted(n, p)' = Wanted(n, p)
        BY <1>3, <4>1, SameWanted, ZenonT(60) DEF NodeInv, StillTold
      <4> QED BY <1>1, <1>2, <1>3, <3>1, <3>2, <4>1, <4>2, ZenonT(60) DEF AdjInv, StillTold
    <3>3. CASE q # p
      BY <1>2, <1>3, <3>1, <3>3, AdjKept, ZenonT(60)
    <3> QED BY <3>2, <3>3, Zenon
  <2> QED BY <2>1, <2>2, Zenon
<1> QED BY <1>3, <1>5, SMTT(60) DEF SelInv

(* A session comes up: stale paths may be swept, and the table is          *)
(* announced.                                                              *)
LEMMA EstablishSel ==
  ASSUME ~Dampening, SelInv, ClearInv', NEW p \in Peers, bgp_establish(p)
  PROVE  SelInv'
<1>0. session \in [Peers -> Sessions] /\ adj \in [Prefixes -> [Peers -> AdjOut]]
  BY Zenon DEF SelInv, ClearInv, IInv, TypeOK
<1>1. /\ session[p] = "Idle" /\ session' = [session EXCEPT ![p] = "Established"]
      /\ nsfwait' = nsfwait \ {p} /\ UNCHANGED <<clearq, fib, muted>>
      /\ adj' = [n \in Prefixes |-> [adj[n] EXCEPT ![p] = bgp_announce_route(p)[n]]]
  BY Zenon DEF bgp_establish
<1>2. \E swept : Sweep(p, swept)
  BY Zenon DEF bgp_establish
<1>3. PICK R : /\ Commit(R)
               /\ \A m \in Prefixes, q \in Peers : Tame(m, Route(m, q), R[m][q])
  BY <1>2, SweepTame, SMTT(60)
<1>4. \A n \in Prefixes, q \in Peers : Unseen(n, q) => Exempt(n, q)'
  BY <1>0, <1>1, Zenon DEF Exempt, Unseen
<1>5. /\ \A n \in Prefixes : NodeInv(n)'
      /\ \A n \in Prefixes, q \in Peers : Undamped(info'[n][q])
      /\ \A n \in Prefixes :
           /\ Selected(n)' = Selected(n)
           /\ StillTold(n)
  BY <1>1, <1>3, <1>4, CommitNode, ZenonT(60)
<1>6. ASSUME NEW n \in Prefixes, NEW q \in Peers
      PROVE  AdjInv(n, q)'
  <2>1. CASE q = p
    <3>1. adj'[n][p] = bgp_announce_route(p)[n] /\ Up(p)' /\ ~Up(p)
      BY <1>0, <1>1, SMTT(60) DEF Up
    <3>2. adj[n][p] = NoAdj
      BY <3>1, ZenonT(60) DEF SelInv, AdjInv
    <3> QED BY <1>5, <2>1, <3>1, <3>2, TableAnnounced, ZenonT(60)
  <2>2. CASE q # p
    <3>1. adj'[n][q] = adj[n][q] /\ (Up(q)' <=> Up(q))
      BY <1>0, <1>1, <2>2, SMTT(60) DEF Up
    <3> QED BY <1>5, <3>1, AdjKept, ZenonT(60)
  <2> QED BY <2>1, <2>2, Zenon
<1> QED BY <1>5, <1>6, ZenonT(60) DEF SelInv

(* A session goes down, and its clearing ends.                             *)
LEMMA StopSel ==
  ASSUME SelInv, ClearInv', NEW p \in Peers, bgp_stop(p) \/ bgp_clearing_completed(p)
  PROVE  SelInv'
<1>0. /\ session \in [Peers -> Sessions] /\ adj \in [Prefixes -> [Peers -> AdjOut]]
      /\ \A q \in nsfwait : session[q] \in Down
  BY Zenon DEF SelInv, ClearInv, IInv, TypeOK
<1>1. UNCHANGED <<info, scheduled, fib, muted>>
  BY Zenon DEF bgp_stop, bgp_clearing_completed, out_vars
<1>2. /\ \A q \in Peers \ {p} : session'[q] = session[q]
      /\ session'[p] \in Down
  BY <1>0, ZenonT(60) DEF bgp_stop, bgp_clearing_completed, Down
<1>3. \A n \in Prefixes :
        /\ \A q \in Peers \ {p} : adj'[n][q] = adj[n][q]
        /\ adj'[n][p] = NoAdj
  <2>1. CASE bgp_stop(p)
    <3>1. adj' = [n \in Prefixes |-> [adj[n] EXCEPT ![p] = NoAdj]]
      BY <2>1, ZenonT(60) DEF bgp_stop
    <3> QED BY <1>0, <3>1, Zenon
  <2>2. CASE bgp_clearing_completed(p)
    <3>1. adj' = adj /\ session[p] = "Clearing"
      BY <2>2, Zenon DEF bgp_clearing_completed, out_vars
    <3>2. \A n \in Prefixes : adj[n][p] = NoAdj
      BY <3>1, SMTT(60) DEF SelInv, AdjInv, Up
    <3> QED BY <3>1, <3>2, Zenon
  <2> QED BY <2>1, <2>2, Zenon
<1>4. ASSUME NEW n \in Prefixes, NEW q \in Peers, q \in Usable(n), Unseen(n, q)
      PROVE  Exempt(n, q)'
  <2>1. CASE bgp_stop(p)
    <3>1. /\ session' = [session EXCEPT ![p] = "Clearing"]
          /\ clearq' = clearq \cup {<<p, m>> : m \in {k \in Prefixes : Exists(Route(k, p))}}
      BY Zenon, <2>1 DEF bgp_stop
    <3>2. PICK lost \in BOOLEAN :
            /\ lost => session[p] # "Overflow"
            /\ nsfwait' = IF lost /\ p \in nsf THEN nsfwait \cup {p} ELSE nsfwait
      BY Zenon, <2>1 DEF bgp_stop
    <3>3. CASE q = p
      <4>1. p \notin nsfwait /\ (FirstFamily => session[p] = "Overflow")
        BY <1>0, <1>4, <2>1, <3>3, ZenonT(60) DEF Unseen, bgp_stop, Up, Down
      <4>2. FirstFamily => p \notin nsfwait'
        BY <3>2, <4>1, SMTT(60)
      <4>3. Exists(Route(n, p))
        BY <1>4, <3>3, RouteUndamped, SMTT(120) DEF Usable, HOLDDOWN, Exists, NoInfo
      <4>4. <<p, n>> \in clearq' /\ session'[p] = "Clearing"
        BY <1>0, <3>1, <4>3, Zenon
      <4> QED BY <3>3, <4>2, <4>4, SMTT(60) DEF Exempt, Unseen
    <3>4. CASE q # p
      BY <1>2, <1>4, <3>1, <3>2, <3>4, SMTT(60) DEF Exempt, Unseen
    <3> QED BY <3>3, <3>4, Zenon
  <2>2. CASE bgp_clearing_completed(p)
    <3>1. /\ session[p] = "Clearing" /\ UNCHANGED <<nsfwait, clearq>>
          /\ FirstFamily => \A m \in Prefixes : <<p, m>> \notin clearq
      BY <2>2, Zenon DEF bgp_clearing_completed
    <3> QED BY <1>2, <1>4, <3>1, Zenon DEF Exempt, Unseen
  <2> QED BY <2>1, <2>2, Zenon
<1>5. ASSUME NEW n \in Prefixes
      PROVE  /\ NodeInv(n)' /\ \A q \in Peers : Undamped(info'[n][q])
             /\ Selected(n)' = Selected(n)
             /\ StillTold(n)
  BY <1>1, <1>4, Untouched, ZenonT(60)
<1>6. ASSUME NEW n \in Prefixes, NEW q \in Peers
      PROVE  AdjInv(n, q)'
  <2>1. CASE q = p
    <3>1. ~Up(p)'
      BY <1>2, Zenon DEF Up, Down
    <3>2. adj'[n][q] = NoAdj
      BY <1>3, <2>1, Zenon
    <3>3. NoAdj.new = NoAttr
      BY Zenon DEF NoAdj
    <3> QED BY <2>1, <3>1, <3>2, <3>3, Zenon DEF AdjInv
  <2>2. CASE q # p
    <3>1. adj'[n][q] = adj[n][q] /\ (Up(q)' <=> Up(q))
      BY <1>2, <1>3, <2>2, SMTT(60) DEF Up
    <3> QED BY <1>5, <3>1, AdjKept, ZenonT(60)
  <2> QED BY <2>1, <2>2, Zenon
<1> QED BY <1>5, <1>6, Zenon DEF SelInv

(* The timers of graceful restart.                                         *)
LEMMA TimerSel ==
  ASSUME ~Dampening, SelInv, ClearInv', NEW p \in Peers,
         bgp_graceful_restart_timer_expire(p) \/ bgp_graceful_stale_timer_expire(p)
  PROVE  SelInv'
<1>1. UNCHANGED <<session, clearq, adj, fib, muted>> /\ nsfwait' \subseteq nsfwait
  BY Zenon DEF bgp_graceful_restart_timer_expire, bgp_graceful_stale_timer_expire, session_vars, out_vars
<1>2. \E swept : Sweep(p, swept)
  BY Zenon DEF bgp_graceful_restart_timer_expire, bgp_graceful_stale_timer_expire
<1>3. PICK R : /\ Commit(R)
               /\ \A m \in Prefixes, q \in Peers : Tame(m, Route(m, q), R[m][q])
  BY <1>2, SweepTame, Zenon
<1>4. \A q \in Peers : (Up(q)' <=> Up(q)) /\ \A n \in Prefixes : Unseen(n, q) => Exempt(n, q)'
  BY <1>1, Zenon DEF Up, Exempt, Unseen
<1> QED BY <1>1, <1>3, <1>4, CommitSel, ZenonT(60)

-----------------------------------------------------------------------------
(* All together.                                                           *)
LEMMA SelNext ==
  ASSUME Counting, Sizes, ~Dampening, SelInv, [Next]_vars
  PROVE  SelInv'
<1>0. ClearInv'
  BY ClearNext, Zenon DEF SelInv
<1>1. CASE UNCHANGED vars
  <2>1. UNCHANGED <<info, scheduled, session, nsfwait, clearq, adj, fib, muted>>
    BY <1>1, Zenon DEF vars, session_vars, out_vars
  <2>2. \A p \in Peers : (Up(p)' <=> Up(p)) /\ \A n \in Prefixes : Unseen(n, p) => Exempt(n, p)'
    BY <2>1, Zenon DEF Up, Exempt, Unseen
  <2>3. \A n \in Prefixes :
          /\ NodeInv(n)' /\ \A q \in Peers : Undamped(info'[n][q])
          /\ Selected(n)' = Selected(n)
          /\ StillTold(n)
    BY <2>1, <2>2, Untouched, ZenonT(60)
  <2>4. \A n \in Prefixes, p \in Peers : AdjInv(n, p)'
    BY <2>1, <2>2, <2>3, AdjKept, ZenonT(60)
  <2> QED BY <1>0, <2>3, <2>4, Zenon DEF SelInv
<1>2. CASE \E p \in Peers, n \in Prefixes :
             \/ bgp_update(p, n) \/ bgp_update_filtered(p, n)
             \/ bgp_withdraw_receive(p, n) \/ ClearRouteNode(p, n)
  BY <1>0, <1>2, MessageSel, NodeSel, SMTT(60)
<1>3. CASE \E n \in Prefixes : bgp_process_main(n)
  BY <1>0, <1>3, ProcessSel, SMTT(60)
<1>4. CASE \E p \in Peers :
             \/ bgp_route_refresh_receive(p) \/ bgp_write(p) \/ bgp_establish(p)
             \/ bgp_stop(p) \/ bgp_clearing_completed(p)
             \/ bgp_graceful_restart_timer_expire(p)
             \/ bgp_graceful_stale_timer_expire(p)
  BY <1>0, <1>4, TalkSel, EstablishSel, StopSel, TimerSel, SMTT(60)
<1>5. CASE bgp_scan
  BY <1>0, <1>5, ScanSel, Zenon
<1>6. CASE bgp_reuse_timer
  BY <1>6, ReuseSel, Zenon
<1> QED BY <1>1, <1>2, <1>3, <1>4, <1>5, <1>6, SMTT(60) DEF Next

(* At the start nothing is selected and nobody has been told anything.     *)
LEMMA SelInit ==
  ASSUME Sizes, Init
  PROVE  SelInv
<1>1. ClearInv
  BY ClearInit, Zenon
<1>2. \A n \in Prefixes, p \in Peers :
        info[n][p].flags = {} /\ info[n][p].damp = "none" /\ adj[n][p] = NoAdj /\ ~Up(p)
  BY Zenon DEF Init, NoInfo, Up
<1>3. \A n \in Prefixes : Selected(n) = {} /\ Usable(n) = {} /\ fib[n] = NoAttr
  BY <1>2, Zenon DEF Init, Selected, Usable, HOLDDOWN
<1>4. \A n \in Prefixes, p \in Peers : Undamped(info[n][p]) /\ AdjInv(n, p)
  BY <1>2, SMTT(60) DEF Undamped, AdjInv, NoAdj
<1>5. \A n \in Prefixes : NodeInv(n)
  BY <1>2, <1>3, Zenon DEF NodeInv, Changed
<1> QED BY <1>1, <1>4, <1>5, SMTT(60) DEF SelInv

-----------------------------------------------------------------------------
(* Numbers and finite sets.                                                *)

F == INSTANCE FiniteSetTheorems

(* A set of natural numbers has a least element.                           *)
LEMMA LeastNumber ==
  ASSUME NEW T, T \subseteq Nat, T # {}
  PROVE  \E x \in T : \A y \in T : x <= y
<1>1. PICK x \in T : \A y \in T : <<y, x>> \notin F!OpToRel(<, Nat)
  BY F!NatLessThanWellFounded, F!WFMin, Zenon
<1>2. \A y \in T : x \in Nat /\ y \in Nat /\ ~(y < x)
  BY <1>1, Zenon DEF F!OpToRel
<1> QED BY <1>2

(* The finite sets of the instance are those of the model.                 *)
LEMMA SameSets ==
  ASSUME NEW S
  PROVE  /\ F!IsFiniteSet(S) <=> IsFiniteSet(S)
         /\ F!Cardinality(S) = Cardinality(S)
<1>1. F!IsFiniteSet(S) <=> IsFiniteSet(S)
  BY Zenon DEF F!IsFiniteSet, IsFiniteSet
<1>2. F!Cardinality(S) = Cardinality(S)
  BY Zenon DEF F!Cardinality, Cardinality
<1> QED BY <1>1, <1>2

(* The peers can be counted.  A set of numbers that holds 0 and with each  *)
(* number the next holds all of them: the least that it lacked would have  *)
(* a predecessor.                                                          *)
LEMMA CountingHolds == Counting
<1>1. Cardinality(Peers) \in Nat
  <2>1. F!IsFiniteSet(Peers)
    BY RibAssumption, SameSets
  <2>2. F!Cardinality(Peers) \in Nat
    BY <2>1, F!FS_CardinalityType
  <2> QED BY <2>2, SameSets
<1>2. ASSUME NEW n \in Nat, NEW K \in SUBSET (0 .. n), 0 \in K,
             \A i \in 1 .. n : i - 1 \in K => i \in K, NEW j \in 0 .. n, j \notin K
      PROVE  FALSE
  <2> DEFINE T == (0 .. n) \ K
  <2>1. T \subseteq Nat /\ T # {}
    BY <1>2
  <2>2. PICK x \in T : \A y \in T : x <= y
    <3> HIDE DEF T
    <3> QED BY <2>1, LeastNumber, Zenon
  <2>3. x \in 1 .. n /\ x - 1 \in 0 .. n /\ ~(x <= x - 1)
    BY <1>2, <2>2
  <2>4. x - 1 \in K
    BY <2>2, <2>3, Zenon
  <2> QED BY <1>2, <2>2, <2>3, <2>4, Zenon
<1> QED BY <1>1, <1>2, Zenon DEF Counting

(* Any set of prefixes is finite and has a natural number of elements.     *)
LEMMA PrefixSets ==
  ASSUME NEW S \in SUBSET Prefixes
  PROVE  IsFiniteSet(S) /\ Cardinality(S) \in Nat
<1>1. F!IsFiniteSet(Prefixes)
  BY RibAssumption, SameSets
<1>2. F!IsFiniteSet(S)
  BY <1>1, F!FS_Subset
<1>3. F!Cardinality(S) \in Nat
  BY <1>2, F!FS_CardinalityType
<1> QED BY <1>2, <1>3, SameSets

(* The two sides of an exchange: a set changes its size by what comes in   *)
(* less what goes out.                                                     *)
LEMMA Exchange ==
  ASSUME NEW A \in SUBSET Prefixes, NEW B \in SUBSET Prefixes
  PROVE  Cardinality(B) = Cardinality(A) + Cardinality(B \ A) - Cardinality(A \ B)
<1>1. /\ IsFiniteSet(A) /\ IsFiniteSet(B) /\ IsFiniteSet(A \ B) /\ IsFiniteSet(B \ A)
      /\ Cardinality(A) \in Nat /\ Cardinality(B) \in Nat
      /\ Cardinality(A \ B) \in Nat /\ Cardinality(B \ A) \in Nat
  BY PrefixSets
<1>2. /\ F!IsFiniteSet(A) /\ F!IsFiniteSet(B)
      /\ F!IsFiniteSet(A \ B) /\ F!IsFiniteSet(B \ A)
  BY <1>1, SameSets
<1>3. F!Cardinality(A \cup (B \ A))
        = F!Cardinality(A) + F!Cardinality(B \ A) - F!Cardinality(A \cap (B \ A))
  BY <1>2, F!FS_Union
<1>4. F!Cardinality(B \cup (A \ B))
        = F!Cardinality(B) + F!Cardinality(A \ B) - F!Cardinality(B \cap (A \ B))
  BY <1>2, F!FS_Union
<1>5. A \cup (B \ A) = B \cup (A \ B) /\ A \cap (B \ A) = {} /\ B \cap (A \ B) = {}
  BY Zenon
<1>6. F!Cardinality({}) = 0
  BY F!FS_EmptySet, Zenon
<1>7. /\ F!Cardinality(A) = Cardinality(A) /\ F!Cardinality(B) = Cardinality(B)
      /\ F!Cardinality(A \ B) = Cardinality(A \ B)
      /\ F!Cardinality(B \ A) = Cardinality(B \ A)
  BY SameSets, Zenon
<1>8. /\ F!Cardinality(A \cup (B \ A)) = F!Cardinality(B \cup (A \ B))
      /\ F!Cardinality(A \cap (B \ A)) = 0
      /\ F!Cardinality(B \cap (A \ B)) = 0
  BY <1>5, <1>6, Zenon
<1>9. F!Cardinality(A) + F!Cardinality(B \ A) - 0 = F!Cardinality(B) + F!Cardinality(A \ B) - 0
  BY <1>3, <1>4, <1>8, Zenon
<1>10. Cardinality(A) + Cardinality(B \ A) - 0 = Cardinality(B) + Cardinality(A \ B) - 0
  BY <1>7, <1>9, Zenon
<1> QED BY <1>1, <1>10

(* Both, in the form that the lemmas on the table use.                     *)
LEMMA PrefixSizes == Sizes
<1>1. ASSUME NEW A \in SUBSET Prefixes
      PROVE  Cardinality(A) \in Nat /\ (Cardinality(A) = 0 <=> A = {})
  <2>1. F!IsFiniteSet(A) /\ F!Cardinality(A) = Cardinality(A) /\ Cardinality(A) \in Nat
    BY <1>1, PrefixSets, SameSets
  <2>2. F!Cardinality(A) = 0 <=> A = {}
    BY <2>1, F!FS_EmptySet
  <2> QED BY <2>1, <2>2
<1> QED BY <1>1, Exchange DEF Sizes

-----------------------------------------------------------------------------
(* The theorems.                                                           *)

(* Every variable of the table keeps its type, for any set of peers, any   *)
(* finite set of prefixes and any limit and policy; in particular          *)
(* peer->pcount, an unsigned counter in the code, never goes below zero.   *)
THEOREM TypeCorrect == Spec => []TypeOK
<1>1. Init => IInv
  BY PrefixSizes, InitInv
<1>2. IInv /\ [Next]_vars => IInv'
  BY PrefixSizes, CountingHolds, NextInv
<1>3. IInv => TypeOK
  BY DEF IInv
<1> QED BY <1>1, <1>2, <1>3, PTL DEF Spec

(* peer->pcount, which maximum-prefix is enforced with, is exactly the     *)
(* number of the peer's usable paths after every handler, with or without  *)
(* dampening: no flag change that goes around bgp_pcount_adjust, and no    *)
(* order of updates, withdrawals, scans, sweeps and clearings, makes it    *)
(* drift.                                                                  *)
THEOREM PcountIsExact == Spec => []PcountExact
<1>1. Init => IInv
  BY PrefixSizes, InitInv, Zenon
<1>2. IInv /\ [Next]_vars => IInv'
  BY PrefixSizes, CountingHolds, NextInv, Zenon
<1>3. IInv => PcountExact
  BY DEF IInv
<1> QED BY <1>1, <1>2, <1>3, PTL DEF Spec

(* No path of a session that is gone is forgotten, in any family, with     *)
(* dampening and without, for any number of peers and prefixes: until the  *)
(* session is up again a usable one is waiting to be cleared, or is stale  *)
(* and the peer is waited for.  In IPv4 unicast, whose clearing is         *)
(* complete before a session may start again, it waits only in Clearing.   *)
(* The scanner, the reuse timer, the restart timer, the decision process   *)
(* and, in other families, earlier sessions run in between.                *)
THEOREM IdlePeersAreCleared == Spec => []IdleIsCleared
<1>1. Init => ClearInv
  BY PrefixSizes, ClearInit
<1>2. ClearInv /\ [Next]_vars => ClearInv'
  BY PrefixSizes, CountingHolds, ClearNext, SMTT(60)
<1>3. ClearInv => IdleIsCleared
  <2> SUFFICES ASSUME ClearInv, NEW p \in Peers, NEW n \in Prefixes,
                      ~Up(p), p \in Usable(n)
               PROVE  \/ <<p, n>> \in clearq /\ (FirstFamily => session[p] = "Clearing")
                      \/ "STALE" \in info[n][p].flags /\ p \in nsfwait
    BY Zenon DEF IdleIsCleared
  <2>1. ~HOLDDOWN(info[n][p].flags)
    BY Zenon DEF Usable
  <2>2. info[n][p].attr # NoAttr
    BY UsableAttr, Zenon
  <2>5. session[p] \in Down
    BY SMTT(60) DEF ClearInv, IInv, TypeOK, Sessions, Up, Down
  <2>3. Attended(n, p)
    BY <2>2, <2>5, Zenon DEF ClearInv
  <2>4. ~Spent(info[n][p])
    BY <2>1, Zenon DEF HOLDDOWN, UNUSEABLE, Spent
  <2> QED BY <2>3, <2>4, SMTT(60) DEF Attended
<1> QED BY <1>1, <1>2, <1>3, PTL DEF Spec

(* SelInv is an invariant of the table without dampening.                  *)
LEMMA SelAlways ==
  ASSUME ~Dampening
  PROVE  Spec => []SelInv
<1>1. Init => SelInv
  BY PrefixSizes, SelInit
<1>2. SelInv /\ [Next]_vars => SelInv'
  BY PrefixSizes, CountingHolds, SelNext
<1> QED BY <1>1, <1>2, PTL DEF Spec

(* Without dampening no removed path is left behind: every handler that    *)
(* removes one hands its node to bgp_process_main, which frees it, for any *)
(* number of peers and prefixes.  (With dampening the reuse timer removes  *)
(* paths and does not.)                                                    *)
THEOREM RemovedPathsAreReaped ==
  ASSUME ~Dampening
  PROVE  Spec => []RemovedIsScheduled
<1>1. SelInv => RemovedIsScheduled
  BY Zenon DEF SelInv, NodeInv, RemovedIsScheduled
<1> QED BY <1>1, SelAlways, PTL

(* Without dampening a node that waits for nothing has at most usable      *)
(* paths selected, one if the decision process has seen any, the one that  *)
(* is preferred to every other if there is one, and, where paths are       *)
(* ranked, one that none beats: whatever order updates, withdrawals,       *)
(* clearing, sweeping, the scanner and bgp_process_main ran in, whatever   *)
(* order the paths stand in, and whatever asymmetric relation the first    *)
(* nine steps of bgp_info_cmp are.                                         *)
THEOREM BestPathIsSelected ==
  ASSUME ~Dampening
  PROVE  Spec => []SelectionSettled
<1>1. ASSUME SelInv
      PROVE  SelectionSettled
  <2>1. ASSUME NEW n \in Prefixes \ scheduled
        PROVE  /\ Selected(n) \subseteq Usable(n)
               /\ \A p \in Judged(n) : Settled(n, p)
    <3>1. NodeInv(n)
      BY <1>1, Zenon DEF SelInv
    <3>2. Selected(n) \subseteq Usable(n) /\ \A p \in Usable(n) : Exempt(n, p) \/ Settled(n, p)
      BY <3>1, Zenon DEF NodeInv
    <3>3. \A p \in Judged(n) : p \in Usable(n) /\ ~Exempt(n, p)
      BY Zenon DEF Judged, Exempt, Unseen
    <3> QED BY <3>2, <3>3, Zenon
  <2> QED BY <2>1, Zenon DEF SelectionSettled, Settled, Champion, Covered
<1> QED BY <1>1, SelAlways, PTL

(* Without dampening zebra has a route exactly for the nodes with a        *)
(* selected path, once they wait for nothing, and it is that path unless   *)
(* an identical update has muted a change.                                 *)
THEOREM FibIsCurrent ==
  ASSUME ~Dampening
  PROVE  Spec => []FibFollowsSelection
<1>1. ASSUME SelInv
      PROVE  FibFollowsSelection
  <2> SUFFICES ASSUME NEW n \in Prefixes \ scheduled
               PROVE  /\ fib[n] = NoAttr <=> Selected(n) = {}
                      /\ \A p \in Selected(n) : n \notin muted => fib[n] = info[n][p].attr
    BY Zenon DEF FibFollowsSelection
  <2>1. NodeInv(n)
    BY <1>1, Zenon DEF SelInv
  <2> QED BY <2>1, Zenon DEF NodeInv, Told
<1> QED BY <1>1, SelAlways, PTL

(* The same for the peers: each that is established has been sent, or has  *)
(* queued for it, exactly the selected path its policy lets through, or    *)
(* nothing where there is none; a change that an identical update muted is *)
(* not sent, but a prefix that no other provides is withdrawn.             *)
THEOREM PeersAreCurrent ==
  ASSUME ~Dampening
  PROVE  Spec => []AdjOutFollowsSelection
<1>1. ASSUME SelInv
      PROVE  AdjOutFollowsSelection
  <2> SUFFICES ASSUME NEW n \in Prefixes \ scheduled, NEW p \in Peers, Up(p)
               PROVE  /\ n \notin muted => Intended(n, p) = Wanted(n, p)
                      /\ Selected(n) \subseteq {p} => Intended(n, p) = NoAttr
    BY Zenon DEF AdjOutFollowsSelection
  <2>1. NodeInv(n) /\ AdjInv(n, p)
    BY <1>1, Zenon DEF SelInv
  <2> QED BY <2>1, Zenon DEF NodeInv, AdjInv, Told
<1> QED BY <1>1, SelAlways, PTL
=============================================================================
