------------------------------- MODULE BgpRib -------------------------------
(***************************************************************************)
(* The routing table of bgpd of one address family: the paths the peers    *)
(* announce (bgp_update, bgp_withdraw), their flags and the per-peer       *)
(* prefix count, route flap dampening, the asynchronous decision process   *)
(* (bgp_process, bgp_process_main), what is handed to zebra, and what is   *)
(* announced to each peer (struct bgp_adj_out, bgp_write).                 *)
(*                                                                         *)
(* Sessions are here only as far as the table sees them; module BgpFsm     *)
(* models them in full.                                                    *)
(***************************************************************************)
EXTENDS Integers, FiniteSets

CONSTANTS
  Peers,         \* the configured peers, numbered by router id
  Prefixes,      \* the nodes of bgp->rib
  MaxAttr,       \* attributes are 1 .. MaxAttr
  Prefers,       \* <<attr, attr>> of which bgp_info_cmp prefers the first
  ExportDenied,  \* <<peer, attr>> that the peer's output policy rejects
  Pmax,          \* "neighbor X maximum-prefix"
  Dampening,     \* "bgp dampening"
  Restarting,    \* peers that may negotiate graceful restart
  FirstFamily    \* the family is IPv4 unicast, the first to be cleared

ASSUME RibAssumption ==
  /\ Peers \subseteq Nat
  /\ IsFiniteSet(Peers)
  /\ IsFiniteSet(Prefixes)
  /\ MaxAttr \in Nat
  /\ Prefers \subseteq (1 .. MaxAttr) \X (1 .. MaxAttr)
  /\ \A a, b \in 1 .. MaxAttr : <<a, b>> \in Prefers => <<b, a>> \notin Prefers
  /\ ExportDenied \subseteq Peers \X (1 .. MaxAttr)
  /\ Pmax \in Nat
  /\ Dampening \in BOOLEAN
  /\ Restarting \subseteq Peers
  /\ FirstFamily \in BOOLEAN

VARIABLES
  info,       \* rn->info: the path of each peer at each node
  pcount,     \* peer->pcount
  scheduled,  \* the nodes with BGP_NODE_PROCESS_SCHEDULED, the process queue
  session,    \* the state of each peer's session
  limit,      \* the peers with PEER_STATUS_PREFIX_LIMIT
  nsf,        \* the peers with peer->nsf, which is also PEER_STATUS_NSF_MODE
  nsfwait,    \* the peers with PEER_STATUS_NSF_WAIT
  clearq,     \* the clear_node_queue of each peer
  adj,        \* rn->adj_out of each peer
  fib,        \* what zebra was last told of each prefix
  muted       \* history, not in the code: the nodes with a change of the
              \* selected path that an identical update has hidden

session_vars == <<session, limit, nsf, nsfwait, clearq>>
out_vars == <<adj, fib, muted>>
vars == <<info, pcount, scheduled, session_vars, out_vars>>

-----------------------------------------------------------------------------
(* Paths and their flags.                                                  *)

NoAttr == 0

Attrs == 1 .. MaxAttr

UNUSEABLE == {"HISTORY", "DAMPED", "REMOVED"}

Flags == UNUSEABLE \cup {"VALID", "COUNTED", "SELECTED", "ATTR_CHANGED", "STALE"}

(* The damping record of a path: none, or its lastrecord.                  *)
Records == {"none", "UPDATE", "WITHDRAW"}

Info == [attr : {NoAttr} \cup Attrs, flags : SUBSET Flags, damp : Records]

NoInfo == [attr |-> NoAttr, flags |-> {}, damp |-> "none"]

(* A handler works on a route: the path, its peer's prefix count, and      *)
(* whether the node has been given to bgp_process.                         *)
Route(n, p) == [ri |-> info[n][p], pcount |-> pcount[p], process |-> FALSE]

HOLDDOWN(f) == "VALID" \notin f \/ f \cap UNUSEABLE # {}

SET_FLAG(x, F) == [x EXCEPT !.ri.flags = @ \cup F]

UNSET_FLAG(x, F) == [x EXCEPT !.ri.flags = @ \ F]

\* Mutant: a held down path is uncounted again and again.
PcountAdjustRepeats(x) ==
  IF HOLDDOWN(x.ri.flags)
  THEN [UNSET_FLAG(x, {"COUNTED"}) EXCEPT !.pcount = @ - 1]
  ELSE [SET_FLAG(x, {"COUNTED"}) EXCEPT !.pcount = IF "COUNTED" \in x.ri.flags THEN @ ELSE @ + 1]

bgp_pcount_adjust(x) ==
  CASE HOLDDOWN(x.ri.flags) /\ "COUNTED" \in x.ri.flags ->
         [UNSET_FLAG(x, {"COUNTED"}) EXCEPT !.pcount = IF @ > 0 THEN @ - 1 ELSE 0]
    [] ~HOLDDOWN(x.ri.flags) /\ "COUNTED" \notin x.ri.flags ->
         [SET_FLAG(x, {"COUNTED"}) EXCEPT !.pcount = @ + 1]
    [] OTHER -> x

ChangesUse(F) == F \cap ({"VALID"} \cup UNUSEABLE) # {}

bgp_info_set_flag(x, F) ==
  IF ChangesUse(F) THEN bgp_pcount_adjust(SET_FLAG(x, F)) ELSE SET_FLAG(x, F)

bgp_info_unset_flag(x, F) ==
  IF ChangesUse(F) THEN bgp_pcount_adjust(UNSET_FLAG(x, F)) ELSE UNSET_FLAG(x, F)

bgp_info_delete(x) == UNSET_FLAG(bgp_info_set_flag(x, {"REMOVED"}), {"VALID"})

bgp_info_restore(x) == SET_FLAG(bgp_info_unset_flag(x, {"REMOVED"}), {"VALID"})

bgp_process(x) == [x EXCEPT !.process = TRUE]

bgp_rib_remove(x) ==
  bgp_process(IF "HISTORY" \in x.ri.flags THEN x ELSE bgp_info_delete(x))

-----------------------------------------------------------------------------
(* Route flap dampening.  The figure of merit decays with time, so a       *)
(* handler finds it anywhere; what matters is where it lies:               *)
(*   0  at most reuse_limit / 2       2  below suppress_value              *)
(*   1  below reuse_limit             3  at least suppress_value           *)

Penalties == 0 .. 3

bgp_damp_info_free(x, withdraw) ==
  LET y == bgp_info_unset_flag([x EXCEPT !.ri.damp = "none"], {"HISTORY", "DAMPED"})
  IN  IF x.ri.damp = "WITHDRAW" /\ withdraw THEN bgp_info_delete(y) ELSE y

\* Mutant: the damping flags are set without bgp_pcount_adjust.
DampWithdrawUncounted(x, penalty) ==
  SET_FLAG([x EXCEPT !.ri.damp = "WITHDRAW"],
           IF penalty = 3 THEN {"HISTORY", "DAMPED"} ELSE {"HISTORY"})

bgp_damp_withdraw(x, penalty) ==
  LET y == bgp_info_set_flag([x EXCEPT !.ri.damp = "WITHDRAW"], {"HISTORY"})
  IN  IF "DAMPED" \notin x.ri.flags /\ penalty = 3
      THEN bgp_info_set_flag(y, {"DAMPED"})
      ELSE y

DampUpdateSuppressed(x, penalty) ==
  /\ x.ri.damp # "none"
  /\ penalty >= IF "DAMPED" \in x.ri.flags THEN 2 ELSE 3

bgp_damp_update(x, penalty) ==
  LET y == bgp_info_unset_flag([x EXCEPT !.ri.damp = "UPDATE"], {"HISTORY"})
      z == IF penalty < 2 THEN bgp_info_unset_flag(y, {"DAMPED"}) ELSE y
  IN  IF x.ri.damp = "none" THEN x
      ELSE IF penalty = 0 THEN bgp_damp_info_free(z, FALSE)
      ELSE z

(* One entry of the reuse list whose turn it is.                           *)
ReuseRoute(x, penalty) ==
  LET y == bgp_info_unset_flag(x, {"DAMPED"})
      z == IF y.ri.damp = "UPDATE"
           THEN bgp_process(bgp_info_unset_flag(y, {"HISTORY"}))
           ELSE y
  IN  IF penalty >= 2 THEN x
      ELSE IF penalty = 0 THEN bgp_damp_info_free(z, TRUE)
      ELSE z

bgp_damp_scan(x, penalty, expired) ==
  IF "DAMPED" \in x.ri.flags
  THEN IF expired THEN bgp_info_unset_flag(x, {"DAMPED"}) ELSE x
  ELSE IF penalty = 0 THEN bgp_damp_info_free(x, TRUE) ELSE x

-----------------------------------------------------------------------------
(* What an update, a withdrawal and the scanner do to one route.           *)

Exists(x) == x.ri.attr # NoAttr

\* Mutant: VALID is set without bgp_pcount_adjust.
SetValidUncounted(x, valid) ==
  IF valid THEN SET_FLAG(x, {"VALID"}) ELSE UNSET_FLAG(x, {"VALID"})

SetValid(x, valid) ==
  IF valid THEN bgp_info_set_flag(x, {"VALID"}) ELSE bgp_info_unset_flag(x, {"VALID"})

(* Same attribute comes in.                                                *)
SameAttr(x, attr) == Exists(x) /\ "REMOVED" \notin x.ri.flags /\ x.ri.attr = attr

DuplicateUpdate(x, penalty) ==
  LET y == bgp_info_unset_flag(x, {"ATTR_CHANGED"})
  IN  IF Dampening /\ "HISTORY" \in x.ri.flags
      THEN IF DampUpdateSuppressed(y, penalty)
           THEN bgp_damp_update(y, penalty)
           ELSE bgp_process(bgp_damp_update(y, penalty))
      ELSE IF "STALE" \in x.ri.flags
           THEN bgp_process(bgp_info_unset_flag(y, {"STALE"}))
           ELSE y

\* Mutant: the change of attribute is not recorded.
ImplicitWithdrawUnmarked(x, penalty) ==
  LET y == IF "REMOVED" \in x.ri.flags THEN bgp_info_restore(x) ELSE x
  IN  bgp_info_unset_flag(y, {"STALE"})

(* Withdraw and announce, up to the reachability of the next hop.          *)
ImplicitWithdraw(x, penalty) ==
  LET y == IF "REMOVED" \in x.ri.flags THEN bgp_info_restore(x) ELSE x
      z == bgp_info_set_flag(bgp_info_unset_flag(y, {"STALE"}), {"ATTR_CHANGED"})
  IN  IF Dampening /\ "HISTORY" \notin z.ri.flags
      THEN bgp_damp_withdraw(z, penalty)
      ELSE z

ChangedUpdate(x, attr, valid, penalty) ==
  LET y == [ImplicitWithdraw(x, penalty) EXCEPT !.ri.attr = attr]
  IN  IF ~Dampening THEN bgp_process(SetValid(y, valid))
      ELSE IF DampUpdateSuppressed(y, penalty) THEN bgp_damp_update(y, penalty)
      ELSE bgp_process(SetValid(bgp_damp_update(y, penalty), valid))

(* A new path over the limit is in the table but is not processed.         *)
bgp_maximum_prefix_overflow(p, count, always) ==
  count > Pmax /\ (p \notin limit \/ always)

NewUpdate(x, p, attr, valid) ==
  LET y == SetValid([x EXCEPT !.ri.attr = attr], valid)
  IN  IF bgp_maximum_prefix_overflow(p, y.pcount, FALSE) THEN y ELSE bgp_process(y)

bgp_update_main(x, p, attr, valid, penalty) ==
  IF SameAttr(x, attr) THEN DuplicateUpdate(x, penalty)
  ELSE IF Exists(x) THEN ChangedUpdate(x, attr, valid, penalty)
  ELSE NewUpdate(x, p, attr, valid)

bgp_rib_withdraw(x, penalty) ==
  IF Dampening
  THEN IF "DAMPED" \in x.ri.flags
       THEN bgp_damp_withdraw(x, penalty)
       ELSE bgp_rib_remove(bgp_damp_withdraw(x, penalty))
  ELSE bgp_rib_remove(x)

bgp_withdraw(x, penalty) ==
  IF Exists(x) /\ "HISTORY" \notin x.ri.flags THEN bgp_rib_withdraw(x, penalty) ELSE x

ScanRoute(x, valid, penalty, expired) ==
  LET y == IF valid # ("VALID" \in x.ri.flags) THEN SetValid(x, valid) ELSE x
  IN  IF ~Exists(x) THEN x
      ELSE IF Dampening /\ y.ri.damp # "none" THEN bgp_damp_scan(y, penalty, expired)
      ELSE y

bgp_clear_route_node(x, waiting) ==
  IF ~Exists(x) THEN x
  ELSE IF waiting /\ "STALE" \notin x.ri.flags /\ x.ri.flags \cap UNUSEABLE = {}
  THEN bgp_info_set_flag(x, {"STALE"})
  ELSE bgp_rib_remove(x)

\* Mutant: a swept path is not handed to the decision process.
ClearStaleUnprocessed(x) == IF "STALE" \in x.ri.flags THEN bgp_info_delete(x) ELSE x

bgp_clear_stale_route(x) == IF "STALE" \in x.ri.flags THEN bgp_rib_remove(x) ELSE x

(* A handler leaves the routes R of the table; each moved its peer's count *)
(* up or down by at most one.                                              *)
Moved(c, R, p) ==
  c + Cardinality({n \in Prefixes : R[n][p].pcount > c})
    - Cardinality({n \in Prefixes : R[n][p].pcount < c})

Commit(R) ==
  /\ info' = [n \in Prefixes |-> [p \in Peers |-> R[n][p].ri]]
  /\ pcount' = [p \in Peers |-> Moved(pcount[p], R, p)]
  /\ scheduled' = scheduled \cup {n \in Prefixes : \E p \in Peers : R[n][p].process}

CommitOne(n, p, x) ==
  Commit([m \in Prefixes |-> [q \in Peers |-> IF m = n /\ q = p THEN x ELSE Route(m, q)]])

-----------------------------------------------------------------------------
(* Announcing to peers: struct bgp_adj_out, with the attribute the peer    *)
(* was last sent and the advertisement waiting in one of the two FIFOs.    *)

AdjOut == [attr : {NoAttr} \cup Attrs, adv : {"none", "update", "withdraw"},
           new : {NoAttr} \cup Attrs]

NoAdj == [attr |-> NoAttr, adv |-> "none", new |-> NoAttr]

bgp_adj_out_set(a, attr) == [a EXCEPT !.adv = "update", !.new = attr]

bgp_adj_out_unset(a) ==
  IF a.attr = NoAttr THEN NoAdj ELSE [a EXCEPT !.adv = "withdraw", !.new = NoAttr]

bgp_announce_check(from, attr, p) == from # p /\ <<p, attr>> \notin ExportDenied

(* peer->status = Established: also while a NOTIFICATION the daemon sent   *)
(* has its BGP_Stop event still queued.                                    *)
Sessions == {"Idle", "Established", "Notified", "Overflow", "Clearing"}

Up(p) == session[p] \in {"Established", "Notified", "Overflow"}

bgp_process_announce_selected(n, p, new, attr) ==
  IF ~Up(p) THEN adj[n][p]
  ELSE IF \E from \in new : bgp_announce_check(from, attr, p)
  THEN bgp_adj_out_set(adj[n][p], attr)
  ELSE bgp_adj_out_unset(adj[n][p])

(* bgp_announce_table for peer p: the selected paths of the others.        *)
Selected(n) == {p \in Peers : "SELECTED" \in info[n][p].flags}

bgp_announce_route(p) ==
  [n \in Prefixes |->
     IF Selected(n) \ {p} = {} THEN adj[n][p]
     ELSE LET from == CHOOSE q \in Selected(n) \ {p} : TRUE
          IN  IF bgp_announce_check(from, info[n][from].attr, p)
              THEN bgp_adj_out_set(adj[n][p], info[n][from].attr)
              ELSE bgp_adj_out_unset(adj[n][p])]

-----------------------------------------------------------------------------
(* The decision process.                                                   *)

Usable(n) == {p \in Peers : ~HOLDDOWN(info[n][p].flags)}

(* Is the path of p better than that of q?  Attributes that neither of the *)
(* first nine steps tells apart leave it to the path that is selected, and *)
(* then to the router id.  The MED of step 6 is compared for paths of the  *)
(* same neighbouring AS only: Prefers need not be transitive.              *)
bgp_info_cmp(n, p, q) ==
  LET a == info[n][p]
      b == info[n][q]
  IN  \/ <<a.attr, b.attr>> \in Prefers
      \/ /\ <<b.attr, a.attr>> \notin Prefers
         /\ \/ "SELECTED" \in a.flags
            \/ "SELECTED" \notin b.flags /\ p < q

(* The orders that rn->info may be in; it has the newest path first.       *)
Lists ==
  {list \in [1 .. Cardinality(Peers) -> Peers] :
     \A p \in Peers : \E k \in DOMAIN list : list[k] = p}

\* Mutant: only the first usable path of the list is looked at.
BestSelectionFirst(n, list) ==
  LET best[k \in 0 .. Cardinality(Peers)] ==
        IF k = 0 THEN {}
        ELSE IF list[k] \in Usable(n) /\ best[k - 1] = {} THEN {list[k]}
        ELSE best[k - 1]
  IN  best[Cardinality(Peers)]

(* The loop over the list: the path it ends with, if any.                  *)
bgp_best_selection(n, list) ==
  LET best[k \in 0 .. Cardinality(Peers)] ==
        IF k = 0 THEN {}
        ELSE IF /\ list[k] \in Usable(n)
                /\ \A q \in best[k - 1] : bgp_info_cmp(n, list[k], q)
        THEN {list[k]}
        ELSE best[k - 1]
  IN  best[Cardinality(Peers)]

(* Removed paths are freed, the one that is still selected only once       *)
(* another, or none, has been selected.                                    *)
Reaped(n, keep) ==
  {p \in Peers : "REMOVED" \in info[n][p].flags} \ keep

\* Mutant: the same path with another attribute is nothing to do.
NothingToDoSamePath(n, old, new) == old = new /\ old # {}

NothingToDo(n, old, new) ==
  old = new /\ \E p \in old : "ATTR_CHANGED" \notin info[n][p].flags

(* Nothing to do: at most zebra hears again of the path, when the IGP      *)
(* metric of its next hop has changed.                                     *)
KeepSelected(n, old) ==
  /\ info' = [info EXCEPT ![n] =
                [p \in Peers |-> IF p \in Reaped(n, old) THEN NoInfo ELSE info[n][p]]]
  /\ \/ fib' = fib
     \/ \E p \in old : fib' = [fib EXCEPT ![n] = info[n][p].attr]
  /\ UNCHANGED <<adj, muted>>

AttrOf(n, new) == IF new = {} THEN NoAttr ELSE info[n][CHOOSE p \in new : TRUE].attr

(* bgp_zebra_announce of the new path, or bgp_zebra_withdraw of the old.   *)
bgp_zebra_announce(n, new) == AttrOf(n, new)

Reselect(n, new) ==
  /\ info' = [info EXCEPT ![n] =
        [p \in Peers |->
           IF p \in Reaped(n, {}) THEN NoInfo
           ELSE IF p \in new
           THEN [info[n][p] EXCEPT !.flags = (@ \cup {"SELECTED"}) \ {"ATTR_CHANGED"}]
           ELSE [info[n][p] EXCEPT !.flags = @ \ {"SELECTED"}]]]
  /\ adj' = [adj EXCEPT ![n] =
        [p \in Peers |-> bgp_process_announce_selected(n, p, new, AttrOf(n, new))]]
  /\ fib' = [fib EXCEPT ![n] = bgp_zebra_announce(n, new)]
  /\ muted' = muted \ {n}

bgp_process_main(n) ==
  /\ n \in scheduled
  /\ \E list \in Lists :
       LET old == Selected(n)
           new == bgp_best_selection(n, list)
       IN  IF NothingToDo(n, old, new) THEN KeepSelected(n, old) ELSE Reselect(n, new)
  /\ scheduled' = scheduled \ {n}
  /\ UNCHANGED <<pcount, session_vars>>

-----------------------------------------------------------------------------
(* Messages from a peer.                                                   *)

Reads(p) == session[p] \in {"Established", "Notified"}

(* A path that is not damped has a penalty below the suppress value, until *)
(* a withdrawal raises it.                                                 *)
PenaltyFor(x) ==
  IF ~Dampening THEN {0}
  ELSE IF x.ri.flags \cap {"HISTORY", "DAMPED"} = {"HISTORY"} THEN 0 .. 2
  ELSE Penalties

LimitAfter(p, count) == IF count > Pmax THEN limit \cup {p} ELSE limit \ {p}

(* The update repeats one that the selected path has had and that the      *)
(* decision process has not seen: it takes ATTR_CHANGED away.              *)
Mutes(x, attr) ==
  SameAttr(x, attr) /\ {"SELECTED", "ATTR_CHANGED"} \subseteq x.ri.flags

bgp_update(p, n) ==
  /\ Reads(p)
  /\ \E attr \in Attrs, valid \in BOOLEAN, penalty \in PenaltyFor(Route(n, p)) :
       LET x == Route(n, p)
           y == bgp_update_main(x, p, attr, valid, penalty)
           over == ~Exists(x) /\ bgp_maximum_prefix_overflow(p, y.pcount, FALSE)
       IN  /\ CommitOne(n, p, y)
           /\ limit' = IF Exists(x) THEN limit ELSE LimitAfter(p, y.pcount)
           /\ session' = IF over THEN [session EXCEPT ![p] = "Overflow"] ELSE session
           /\ muted' = IF Mutes(x, attr) THEN muted \cup {n} ELSE muted
  /\ UNCHANGED <<nsf, nsfwait, clearq, adj, fib>>

(* An update the input policy rejects.                                     *)
bgp_update_filtered(p, n) ==
  /\ Reads(p)
  /\ Exists(Route(n, p))
  /\ CommitOne(n, p, bgp_rib_remove(Route(n, p)))
  /\ UNCHANGED <<session_vars, out_vars>>

bgp_withdraw_receive(p, n) ==
  /\ Reads(p)
  /\ \E penalty \in PenaltyFor(Route(n, p)) :
       CommitOne(n, p, bgp_withdraw(Route(n, p), penalty))
  /\ UNCHANGED <<session_vars, out_vars>>

(* ROUTE-REFRESH, or "clear bgp soft out": the table is announced again.   *)
bgp_route_refresh_receive(p) ==
  /\ Up(p)
  /\ adj' = [n \in Prefixes |-> [adj[n] EXCEPT ![p] = bgp_announce_route(p)[n]]]
  /\ UNCHANGED <<info, pcount, scheduled, session_vars, fib, muted>>

-----------------------------------------------------------------------------
(* Packets to a peer: withdrawals first, then the updates that share an    *)
(* attribute, as many as fit.                                              *)

Waiting(p, kind) == {n \in Prefixes : adj[n][p].adv = kind}

bgp_withdraw_packet(p) ==
  \E S \in (SUBSET Waiting(p, "withdraw")) \ {{}} :
     adj' = [n \in Prefixes |-> IF n \in S THEN [adj[n] EXCEPT ![p] = NoAdj] ELSE adj[n]]

bgp_update_packet(p) ==
  \E S \in (SUBSET Waiting(p, "update")) \ {{}} :
     /\ \A n, m \in S : adj[n][p].new = adj[m][p].new
     /\ adj' = [n \in Prefixes |->
                  IF n \in S
                  THEN [adj[n] EXCEPT ![p] = [NoAdj EXCEPT !.attr = adj[n][p].new]]
                  ELSE adj[n]]

bgp_write(p) ==
  /\ Up(p)
  /\ IF Waiting(p, "withdraw") # {} THEN bgp_withdraw_packet(p) ELSE bgp_update_packet(p)
  /\ UNCHANGED <<info, pcount, scheduled, session_vars, fib, muted>>

-----------------------------------------------------------------------------
(* Sessions, as the table sees them.                                       *)

Sweep(p, swept) ==
  Commit([n \in Prefixes |-> [q \in Peers |->
            IF q = p /\ swept THEN bgp_clear_stale_route(Route(n, q)) ELSE Route(n, q)]])

bgp_establish(p) ==
  /\ session[p] = "Idle"
  /\ \E restart, preserve \in BOOLEAN :
       /\ restart => p \in Restarting
       /\ Sweep(p, p \in nsf /\ ~(restart /\ preserve))
       /\ nsf' = IF restart THEN nsf \cup {p} ELSE nsf \ {p}
  /\ nsfwait' = nsfwait \ {p}
  /\ session' = [session EXCEPT ![p] = "Established"]
  /\ adj' = [n \in Prefixes |-> [adj[n] EXCEPT ![p] = bgp_announce_route(p)[n]]]
  /\ UNCHANGED <<limit, clearq, fib, muted>>

(* bgp_stop, then bgp_clear_route from bgp_fsm_change_status: the session  *)
(* was lost, so a peer that can restart is waited for, or ended.           *)
bgp_stop(p) ==
  /\ Up(p)
  /\ \E lost \in BOOLEAN :
       /\ lost => session[p] # "Overflow"
       /\ nsfwait' = IF lost /\ p \in nsf THEN nsfwait \cup {p} ELSE nsfwait
       /\ nsf' = IF p \in nsfwait' THEN nsf ELSE nsf \ {p}
  /\ session' = [session EXCEPT ![p] = "Clearing"]
  /\ limit' = limit \ {p}
  /\ adj' = [n \in Prefixes |-> [adj[n] EXCEPT ![p] = NoAdj]]
  /\ clearq' = clearq \cup {<<p, n>> : n \in {m \in Prefixes : Exists(Route(m, p))}}
  /\ UNCHANGED <<info, pcount, scheduled, fib, muted>>

ClearRouteNode(p, n) ==
  /\ <<p, n>> \in clearq
  /\ CommitOne(n, p, bgp_clear_route_node(Route(n, p), p \in nsfwait \cap nsf))
  /\ clearq' = clearq \ {<<p, n>>}
  /\ UNCHANGED <<session, limit, nsf, nsfwait, out_vars>>

\* Mutant: the session may start again before its nodes are cleared.
ClearingCompletedEarly(p) ==
  /\ session[p] = "Clearing"
  /\ session' = [session EXCEPT ![p] = "Idle"]
  /\ UNCHANGED <<info, pcount, scheduled, limit, nsf, nsfwait, clearq, out_vars>>

(* bgp_clear_route_all clears the families one after the other and takes   *)
(* the clearing as completed when the queue is not scheduled: after IPv4   *)
(* unicast only if it has no node of the peer in it, but for a later       *)
(* family before any of its nodes is visited.                              *)
bgp_clearing_completed(p) ==
  /\ session[p] = "Clearing"
  /\ FirstFamily => \A n \in Prefixes : <<p, n>> \notin clearq
  /\ session' = [session EXCEPT ![p] = "Idle"]
  /\ UNCHANGED <<info, pcount, scheduled, limit, nsf, nsfwait, clearq, out_vars>>

\* Mutant: the timer ends the wait and sweeps nothing.
RestartTimerUnswept(p) ==
  /\ p \in nsfwait
  /\ nsfwait' = nsfwait \ {p}
  /\ UNCHANGED <<info, pcount, scheduled, session, limit, nsf, clearq, out_vars>>

bgp_graceful_restart_timer_expire(p) ==
  /\ p \in nsfwait
  /\ Sweep(p, p \in nsf)
  /\ nsfwait' = nsfwait \ {p}
  /\ UNCHANGED <<session, limit, nsf, clearq, out_vars>>

(* The stale path timer, or the peer's End-of-RIB.                         *)
bgp_graceful_stale_timer_expire(p) ==
  /\ p \in nsf
  /\ Up(p) \/ p \in nsfwait
  /\ Sweep(p, TRUE)
  /\ UNCHANGED <<session_vars, out_vars>>

-----------------------------------------------------------------------------
(* The scanner and the reuse timer.                                        *)

InTable(n) == \E p \in Peers : Exists(Route(n, p)) \/ adj[n][p] # NoAdj

Damped == {r \in Prefixes \X Peers : info[r[1]][r[2]].damp # "none"}

(* reach: the next hops that resolve; low and expired: the damped routes   *)
(* whose penalty has decayed, or that have been suppressed for too long.   *)
bgp_scan ==
  /\ \E reach \in SUBSET Attrs, low, expired \in SUBSET Damped :
       LET seen(n, p) == ScanRoute(Route(n, p), info[n][p].attr \in reach,
                                   IF <<n, p>> \in low THEN 0 ELSE 1, <<n, p>> \in expired)
       IN  Commit([n \in Prefixes |-> [p \in Peers |->
                     IF InTable(n) THEN bgp_process(seen(n, p)) ELSE seen(n, p)]])
  /\ limit' = {p \in Peers : IF Up(p) THEN pcount[p] > Pmax ELSE p \in limit}
  /\ session' = [p \in Peers |->
                   IF session[p] = "Established" /\ pcount[p] > Pmax
                   THEN "Notified" ELSE session[p]]
  /\ UNCHANGED <<nsf, nsfwait, clearq, out_vars>>

Suppressed == {r \in Prefixes \X Peers : "DAMPED" \in info[r[1]][r[2]].flags}

bgp_reuse_timer ==
  /\ \E S \in (SUBSET Suppressed) \ {{}}, penalty \in [Suppressed -> 0 .. 2] :
       Commit([n \in Prefixes |-> [p \in Peers |->
                 IF <<n, p>> \in S THEN ReuseRoute(Route(n, p), penalty[<<n, p>>])
                 ELSE Route(n, p)]])
  /\ UNCHANGED <<session_vars, out_vars>>

-----------------------------------------------------------------------------
Init ==
  /\ info = [n \in Prefixes |-> [p \in Peers |-> NoInfo]]
  /\ pcount = [p \in Peers |-> 0]
  /\ scheduled = {}
  /\ session = [p \in Peers |-> "Idle"]
  /\ limit = {}
  /\ nsf = {}
  /\ nsfwait = {}
  /\ clearq = {}
  /\ adj = [n \in Prefixes |-> [p \in Peers |-> NoAdj]]
  /\ fib = [n \in Prefixes |-> NoAttr]
  /\ muted = {}

Next ==
  \/ \E p \in Peers, n \in Prefixes :
       \/ bgp_update(p, n)
       \/ bgp_update_filtered(p, n)
       \/ bgp_withdraw_receive(p, n)
       \/ ClearRouteNode(p, n)
  \/ \E n \in Prefixes : bgp_process_main(n)
  \/ \E p \in Peers :
       \/ bgp_route_refresh_receive(p)
       \/ bgp_write(p)
       \/ bgp_establish(p)
       \/ bgp_stop(p)
       \/ bgp_clearing_completed(p)
       \/ bgp_graceful_restart_timer_expire(p)
       \/ bgp_graceful_stale_timer_expire(p)
  \/ bgp_scan
  \/ bgp_reuse_timer

Spec == Init /\ [][Next]_vars

-----------------------------------------------------------------------------
(* Properties.                                                             *)

(* Every path, count, queue and adjacency has its type.                    *)
TypeOK ==
  /\ info \in [Prefixes -> [Peers -> Info]]
  /\ pcount \in [Peers -> Nat]
  /\ scheduled \subseteq Prefixes
  /\ session \in [Peers -> Sessions]
  /\ limit \subseteq Peers
  /\ nsf \subseteq Peers
  /\ nsfwait \subseteq Peers
  /\ clearq \subseteq Peers \X Prefixes
  /\ adj \in [Prefixes -> [Peers -> AdjOut]]
  /\ fib \in [Prefixes -> {NoAttr} \cup Attrs]
  /\ muted \subseteq Prefixes

Counted(p) == {n \in Prefixes : "COUNTED" \in info[n][p].flags}

(* Between two handlers a path is counted exactly when it is usable, and   *)
(* peer->pcount is the number of the peer's counted paths, whatever order  *)
(* deletion, restoration, dampening and the scanner touched them in: no    *)
(* path is freed while it is counted, and the decrement of a zero count    *)
(* that bgp_pcount_adjust warns of never happens.                          *)
PcountExact ==
  \A p \in Peers :
    /\ \A n \in Prefixes : "COUNTED" \in info[n][p].flags <=> ~HOLDDOWN(info[n][p].flags)
    /\ pcount[p] = Cardinality(Counted(p))

(* What a peer will believe of a prefix once its FIFOs have been written.  *)
Intended(n, p) == IF adj[n][p].adv = "none" THEN adj[n][p].attr ELSE adj[n][p].new

Wanted(n, p) ==
  IF \E q \in Selected(n) : bgp_announce_check(q, info[n][q].attr, p)
  THEN info[n][CHOOSE q \in Selected(n) : TRUE].attr
  ELSE NoAttr

(* The decision process announces to peers only when it believes something *)
(* changed.  Yet once a node is not waiting for bgp_process_main, every    *)
(* established peer has been sent, or has queued for it, exactly the       *)
(* attribute of the path now selected, whatever was withdrawn, restored,   *)
(* refreshed or cleared in between; the one exception is a change that an  *)
(* identical update has muted, and even then no peer is left with a prefix *)
(* that only it, or nobody, provides.                                      *)
AdjOutFollowsSelection ==
  \A n \in Prefixes \ scheduled, p \in Peers :
    Up(p) => /\ n \notin muted => Intended(n, p) = Wanted(n, p)
             /\ Selected(n) \subseteq {p} => Intended(n, p) = NoAttr

(* The same for the forwarding table: zebra has a route exactly where a    *)
(* path is selected, with its attribute unless a change was muted.         *)
FibFollowsSelection ==
  \A n \in Prefixes \ scheduled :
    /\ fib[n] = NoAttr <=> Selected(n) = {}
    /\ \A p \in Selected(n) : n \notin muted => fib[n] = info[n][p].attr

(* The usable paths that the decision process has seen: the one that       *)
(* overflowed maximum-prefix is in the table and was never processed.  It  *)
(* is cleared; but where the clearing is taken as completed early, a later *)
(* graceful restart may find it and make it stale instead.                 *)
Judged(n) ==
  {p \in Usable(n) : /\ session[p] # "Overflow"
                     /\ <<p, n>> \notin clearq
                     /\ FirstFamily \/ "STALE" \notin info[n][p].flags}

(* Paths of different quality are ranked: "bgp always-compare-med", or one *)
(* neighbouring AS.                                                        *)
Ranked ==
  \A a, b, c \in Attrs :
    <<a, b>> \in Prefers => <<a, c>> \in Prefers \/ <<c, b>> \in Prefers

(* Once a node has been processed, a usable path is selected if there is   *)
(* any, and it is the one preferred to every other if there is such a      *)
(* path; where paths are ranked, none is better than the selected one:     *)
(* every handler that changes a path schedules the node.  This does not    *)
(* depend on the order of the list.                                        *)
SelectionSettled ==
  \A n \in Prefixes \ scheduled :
    /\ Selected(n) \subseteq Usable(n)
    /\ \A p \in Judged(n) :
         /\ Selected(n) # {}
         /\ (\A q \in Usable(n) \ {p} : <<info[n][p].attr, info[n][q].attr>> \in Prefers)
               => p \in Selected(n)
         /\ Ranked => \E q \in Selected(n) : q = p \/ bgp_info_cmp(n, q, p)

(* A removed path waits for bgp_process_main, which alone may free it: no  *)
(* removed path stays behind in a node nothing will visit.                 *)
RemovedIsScheduled ==
  \A n \in Prefixes, p \in Peers : "REMOVED" \in info[n][p].flags => n \in scheduled

(* No path of a session that is gone is forgotten: until the session comes *)
(* up again a usable one is waiting to be cleared, or is stale and the     *)
(* peer is waited for.  A path of IPv4 unicast waits only in Clearing, so  *)
(* that a session that may start again finds none.                         *)
IdleIsCleared ==
  \A p \in Peers, n \in Prefixes :
    ~Up(p) /\ p \in Usable(n) =>
      \/ <<p, n>> \in clearq /\ (FirstFamily => session[p] = "Clearing")
      \/ "STALE" \in info[n][p].flags /\ p \in nsfwait

-----------------------------------------------------------------------------
(* Properties that comments and help texts state and the code breaks.      *)

(* bgp_route.c on Clearing: "This protects against peers which flap faster *)
(* than we can we clear, which could lead to: a) race with routes from the *)
(* new session being installed before clear_route_node visits the node".   *)
ClearedBeforeUp == \A p \in Peers, n \in Prefixes : Up(p) => <<p, n>> \notin clearq

(* bgp_route.c on an identical update: "duplicate ignored": what zebra has *)
(* is the selected path all the same.                                      *)
DuplicateIsIgnored ==
  \A n \in Prefixes \ scheduled : \A p \in Selected(n) : fib[n] = info[n][p].attr

(* bgp_damp.c: "If not suppressed before, do annonunce this withdraw and   *)
(* insert into reuse_list": a path that becomes suppressed is deselected,  *)
(* and its withdrawal announced, by the processing it was scheduled for.   *)
DampedIsWithdrawn ==
  \A n \in Prefixes \ scheduled :
    \A p \in Selected(n) : "DAMPED" \notin info[n][p].flags
=============================================================================
