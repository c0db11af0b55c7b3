--------------------------- MODULE OspfAdjacency ---------------------------
(***************************************************************************)
(* Two ospfd routers that bring up an adjacency on a point-to-point link   *)
(* and keep their link state databases synchronised over it: the neighbour *)
(* state machine of ospf_nsm.c, the Database Description, Link State       *)
(* Request, Update and Acknowledgment handlers of ospf_packet.c with their *)
(* retransmission timers, and the flooding of ospf_flood.c.                *)
(*                                                                         *)
(* An LSA is a key and the number of its instance, 0 standing for none;    *)
(* ospf_lsa_more_recent compares the numbers.  The MTU leaves room for one *)
(* LSA or header in every packet but an acknowledgment.  A handler is an   *)
(* operator from router record to router record.  The event it schedules   *)
(* is run with it: thread_fetch puts events ahead of the next packet.      *)
(***************************************************************************)
EXTENDS Naturals, Sequences

CONSTANTS
  Keys,        \* LSAs; key r is the router-LSA of router r
  Learned,     \* <<r, k>>: router r hears of LSA k on another interface
  MaxInst,     \* bound: instances of an LSA that are originated
  MaxQueue,    \* bound: packets on their way when a Hello or a timer is due
  MaxFaults    \* bound: lost packets, early arrivals, dead neighbours, crashes

Routers == {1, 2}

Peer(r) == 3 - r

ASSUME OspfAssumption ==
  /\ Keys \subseteq Nat /\ Routers \subseteq Keys
  /\ Learned \subseteq Routers \X (Keys \ Routers)
  /\ {MaxInst, MaxQueue} \subseteq Nat \ {0}
  /\ MaxFaults \in Nat

VARIABLES
  node,    \* one record per router
  faults   \* faults so far

vars == <<node, faults>>

States == {"Down", "Init", "ExStart", "Exchange", "Loading", "Full"}

\* States in which the adjacency takes part in flooding (>= NSM_Exchange).
Flooding == {"Exchange", "Loading", "Full"}

Flags == {"I", "M", "MS"}

LSAs == Keys \X (1 .. MaxInst)

Packets ==
  [type : {"dd"}, flags : SUBSET Flags, seq : Nat, lsas : SUBSET LSAs] \cup
  [type : {"req"}, key : Keys] \cup
  [type : {"upd"}, lsa : LSAs] \cup
  [type : {"ack"}, lsas : SUBSET LSAs]

Initial == 1

\* struct ospf_neighbor, the router's database, its delayed acknowledgments,
\* and the packets it has sent that have not arrived yet.  "Down": there is no
\* neighbour structure.
RouterState ==
  [state : States,
   seq : Nat,                           \* dd_seqnum
   flags : SUBSET Flags,                \* dd_flags
   last : (SUBSET Flags) \X Nat,        \* last_recv
   sent : Seq(Packets),                 \* last_send, at most one packet
   sum : SUBSET LSAs,                   \* db_sum
   req : SUBSET LSAs,                   \* ls_req
   reqLast : SUBSET LSAs,               \* ls_req_last, at most one
   rxmt : SUBSET LSAs,                  \* ls_rxmt
   event : {"none", "ExchangeDone", "BadLSReq", "SeqNumberMismatch", "LoadingDone", "ls_req"},
   lsdb : [Keys -> 0 .. MaxInst],
   acks : SUBSET LSAs,                  \* oi->ls_ack
   out : Seq(Packets)]

\* ospf_nbr_free: the neighbour structure is gone.
NoNeighbour(s) ==
  [s EXCEPT !.state = "Down", !.seq = 0, !.flags = {}, !.last = <<{}, 0>>, !.sent = <<>>,
            !.sum = {}, !.req = {}, !.reqLast = {}, !.rxmt = {}]

\* ospfd without a neighbour yet, and with the first instance of its own
\* router-LSA.
Started(r) ==
  [state |-> "Down", seq |-> 0, flags |-> {}, last |-> <<{}, 0>>, sent |-> <<>>,
   sum |-> {}, req |-> {}, reqLast |-> {}, rxmt |-> {}, event |-> "none",
   lsdb |-> [k \in Keys |-> IF k = r THEN Initial ELSE 0], acks |-> {}, out |-> <<>>]

\* The LSA of key k, or nothing, in a list that has one entry per key.
Entry(list, k) == {l \in list : l[1] = k}

First(list) == {l \in list : \A m \in list : l[1] <= m[1]}

Send(s, p) == [s EXCEPT !.out = Append(@, p)]

Update(l) == [type |-> "upd", lsa |-> l]

(***************************************************************************)
(* ospf_packet.c: what is sent.                                            *)
(***************************************************************************)

\* ospf_make_db_desc empties the summary list into the packet and takes M out
\* of it once the list is empty.
ospf_db_desc_send(s) ==
  LET page == First(s.sum)
      flags == IF s.sum = page /\ s.state \in Flooding THEN s.flags \ {"M"} ELSE s.flags
      dd == [type |-> "dd", flags |-> flags, seq |-> s.seq, lsas |-> page]
  IN  Send([s EXCEPT !.sum = @ \ page, !.flags = flags, !.sent = <<dd>>], dd)

\* Mutant: a packet that is sent again takes a new sequence number.
ospf_db_desc_resendNew(s) == [s EXCEPT !.out = @ \o s.sent, !.seq = @ + 1]

ospf_db_desc_resend(s) == [s EXCEPT !.out = @ \o s.sent]

ospf_ls_req_send(s) ==
  LET l == CHOOSE m \in s.req : {m} = First(s.req)
  IN  Send([s EXCEPT !.reqLast = {l}], [type |-> "req", key |-> l[1]])

(***************************************************************************)
(* ospf_flood.c and the origination of router-LSAs.                        *)
(***************************************************************************)

\* Mutant: the LSA stays on the list of requests.
ospf_ls_request_deleteLast(s, l) ==
  [s EXCEPT !.reqLast = @ \ {l}]

ospf_ls_request_delete(s, l) ==
  [s EXCEPT !.req = @ \ {l}, !.reqLast = @ \ {l}]

ospf_check_nbr_loading(s) ==
  CASE s.state = "Loading" /\ s.req = {} -> [s EXCEPT !.event = "LoadingDone"]
    [] s.state = "Loading" /\ s.req # {} /\ s.reqLast = {} -> [s EXCEPT !.event = "ls_req"]
    [] OTHER -> s

\* Mutant: a neighbour that is still loading keeps the replaced instance.
ospf_ls_retransmit_delete_nbrFull(s, l) ==
  IF s.state = "Full" THEN [s EXCEPT !.rxmt = @ \ {l}] ELSE s

\* The database copy that is about to be replaced is not retransmitted any more.
ospf_ls_retransmit_delete_nbr(s, l) == [s EXCEPT !.rxmt = @ \ {l}]

ospf_ls_retransmit_add(s, l) ==
  IF \A old \in Entry(s.rxmt, l[1]) : old[2] < l[2]
  THEN [s EXCEPT !.rxmt = (@ \ Entry(@, l[1])) \cup {l}]
  ELSE s

\* A request for the LSA that it answers is deleted.
Answered(s, l) ==
  IF s.state # "Full" /\ \E q \in Entry(s.req, l[1]) : q[2] <= l[2]
  THEN ospf_check_nbr_loading(ospf_ls_request_delete(s, CHOOSE q \in s.req : q[1] = l[1]))
  ELSE s

\* The neighbour has the LSA, or a more recent one: it is on the request list.
NeighbourHas(s, l) == s.state # "Full" /\ \E q \in Entry(s.req, l[1]) : q[2] >= l[2]

\* fromNbr: the LSA came from the neighbour on this interface.
ospf_flood_through_interface(s, l, fromNbr) ==
  CASE s.state \notin Flooding -> s
    [] s.state \in Flooding /\ (fromNbr \/ NeighbourHas(s, l)) -> Answered(s, l)
    [] OTHER -> Send(ospf_ls_retransmit_add(Answered(s, l), l), Update(l))

ospf_lsa_install(s, l) == [s EXCEPT !.lsdb[l[1]] = l[2]]

\* ospf_router_lsa_refresh: a new instance of the router's own LSA.
ospf_router_lsa_update(s, r) ==
  LET old == <<r, s.lsdb[r]>>
      new == <<r, s.lsdb[r] + 1>>
  IN  IF s.lsdb[r] = MaxInst THEN s
      ELSE ospf_flood_through_interface(
             ospf_lsa_install(ospf_ls_retransmit_delete_nbr(s, old), new), new, FALSE)

(***************************************************************************)
(* ospf_nsm.c.                                                             *)
(***************************************************************************)

nsm_clear_adj(s) == [s EXCEPT !.sum = {}, !.req = {}, !.reqLast = {}, !.rxmt = {}]

\* dd_seqnum starts from the time of day, which is ahead of every number in use.
nsm_change_state(s, r, st, now) ==
  LET moved == [s EXCEPT !.state = st]
      told == IF (s.state = "Full") # (st = "Full") THEN ospf_router_lsa_update(moved, r) ELSE moved
      clear == IF s.state \in Flooding /\ st \notin Flooding THEN nsm_clear_adj(told) ELSE told
  IN  IF st # "ExStart" THEN clear
      ELSE ospf_db_desc_send([clear EXCEPT !.seq = IF @ = 0 THEN now ELSE @ + 1, !.flags = Flags])

\* nsm_negotiation_done lists every LSA of the database.
ospf_db_summary_add(s) == {l \in LSAs : s.lsdb[l[1]] = l[2]}

\* The table NSM[][] and the functions it calls.
ospf_nsm_event(s, r, e, now) ==
  CASE e = "PacketReceived" /\ s.state = "Down" -> nsm_change_state(s, r, "Init", now)
    [] e = "TwoWayReceived" /\ s.state = "Init" -> nsm_change_state(s, r, "ExStart", now)
    [] e = "OneWayReceived" /\ s.state \in Flooding \cup {"ExStart"} ->
         nsm_change_state(s, r, "Init", now)
    [] e = "NegotiationDone" /\ s.state = "ExStart" ->
         nsm_change_state([s EXCEPT !.sum = ospf_db_summary_add(s)], r, "Exchange", now)
    [] e = "ExchangeDone" /\ s.state = "Exchange" ->
         IF s.req = {} THEN nsm_change_state(s, r, "Full", now)
         ELSE nsm_change_state(ospf_ls_req_send(s), r, "Loading", now)
    [] e \in {"BadLSReq", "SeqNumberMismatch"} /\ s.state \in Flooding ->
         nsm_change_state(s, r, "ExStart", now)
    [] e = "LoadingDone" /\ s.state = "Loading" -> nsm_change_state(s, r, "Full", now)
    [] OTHER -> s

\* The event a handler has scheduled is run before anything else.
RunEvent(s, r, now) ==
  LET t == [s EXCEPT !.event = "none"]
  IN  CASE s.event = "none" -> s
        [] s.event = "ls_req" -> IF s.req = {} THEN t ELSE ospf_ls_req_send(t)
        [] OTHER -> ospf_nsm_event(t, r, s.event, now)

(***************************************************************************)
(* ospf_packet.c: what is received.                                        *)
(***************************************************************************)

\* Mutant: a header is requested only when the database has no copy at all.
DescribedAbsent(s, l) ==
  LET own == <<l[1], s.lsdb[l[1]]>>
      known == IF own[2] <= l[2] THEN [s EXCEPT !.sum = @ \ {own}] ELSE s
  IN  IF own[2] = 0 THEN [known EXCEPT !.req = (@ \ Entry(@, l[1])) \cup {l}] ELSE known

\* A header more recent than the database copy is requested; a copy that the
\* neighbour has, or has a newer instance of, is not described to it any more.
Described(s, l) ==
  LET own == <<l[1], s.lsdb[l[1]]>>
      known == IF own[2] <= l[2] THEN [s EXCEPT !.sum = @ \ {own}] ELSE s
  IN  IF own[2] < l[2] THEN [known EXCEPT !.req = (@ \ Entry(@, l[1])) \cup {l}] ELSE known

ospf_db_desc_proc(s, dd) ==
  LET read == IF dd.lsas = {} THEN s ELSE Described(s, CHOOSE l \in dd.lsas : TRUE)
      master == "MS" \in s.flags
      next == [read EXCEPT !.seq = IF master THEN @ + 1 ELSE dd.seq]
      last == master /\ "M" \notin dd.flags \cup s.flags
      replied == IF last THEN next ELSE ospf_db_desc_send(next)
      done == "M" \notin dd.flags \cup replied.flags /\ (last \/ ~master)
  IN  [replied EXCEPT !.last = <<dd.flags, dd.seq>>,
                      !.event = IF done THEN "ExchangeDone" ELSE @]

ospf_db_desc_is_dup(s, dd) == s.last = <<dd.flags, dd.seq>>

SeqNumberMismatch(s) == [s EXCEPT !.event = "SeqNumberMismatch"]

\* ExStart: the first packet of the master, or the slave's answer to ours.
Negotiate(s, r, dd, now) ==
  CASE dd.flags = Flags /\ dd.lsas = {} /\ Peer(r) > r ->
         ospf_db_desc_proc(ospf_nsm_event([s EXCEPT !.seq = dd.seq, !.flags = @ \ {"MS", "I"}],
                                          r, "NegotiationDone", now), dd)
    [] dd.flags \cap {"MS", "I"} = {} /\ dd.seq = s.seq /\ Peer(r) < r ->
         ospf_db_desc_proc(ospf_nsm_event([s EXCEPT !.flags = @ \ {"I"}],
                                          r, "NegotiationDone", now), dd)
    [] OTHER -> s

Exchange(s, dd) ==
  LET master == "MS" \in s.flags
  IN  CASE ospf_db_desc_is_dup(s, dd) -> IF master THEN s ELSE ospf_db_desc_resend(s)
        [] ~ospf_db_desc_is_dup(s, dd) /\
             (\/ ("MS" \in dd.flags) # ("MS" \in s.last[1])
              \/ "I" \in dd.flags
              \/ dd.seq # (IF master THEN s.seq ELSE s.seq + 1)) -> SeqNumberMismatch(s)
        [] OTHER -> ospf_db_desc_proc(s, dd)

\* late: the last packet was sent more than RouterDeadInterval ago.
AfterExchange(s, dd, late) ==
  CASE ospf_db_desc_is_dup(s, dd) /\ "MS" \in s.flags -> s
    [] ospf_db_desc_is_dup(s, dd) /\ "MS" \notin s.flags /\ ~late -> ospf_db_desc_resend(s)
    [] OTHER -> SeqNumberMismatch(s)

ospf_db_desc(s, r, dd, late, now) ==
  LET t == IF s.state = "Init" THEN ospf_nsm_event(s, r, "TwoWayReceived", now) ELSE s
  IN  CASE t.state = "ExStart" -> Negotiate(t, r, dd, now)
        [] t.state = "Exchange" -> Exchange(t, dd)
        [] t.state \in {"Loading", "Full"} -> AfterExchange(t, dd, late)
        [] OTHER -> t

ospf_ls_req(s, k) ==
  CASE s.state \notin Flooding -> s
    [] s.state \in Flooding /\ s.lsdb[k] = 0 -> [s EXCEPT !.event = "BadLSReq"]
    [] OTHER -> Send(s, Update(<<k, s.lsdb[k]>>))

\* late: the database copy is no older than MinLSArrival, so that ospf_flood
\* discards a newer one, unless it is the first instance of the router's own LSA.
ospf_flood(s, r, l, late) ==
  LET k == l[1]
      flooded == ospf_flood_through_interface(s, l, TRUE)
      kept == ospf_lsa_install(ospf_ls_retransmit_delete_nbr(flooded, <<k, s.lsdb[k]>>), l)
      acked == [kept EXCEPT !.acks = @ \cup {l}]
      early == late /\ s.lsdb[k] # 0 /\ ~(k = r /\ s.lsdb[k] = Initial)
  IN  CASE early -> s
        [] ~early /\ k = r -> ospf_router_lsa_update(acked, r)
        [] OTHER -> acked

ospf_ls_upd(s, r, l, late) ==
  LET k == l[1]
      current == s.lsdb[k]
  IN  CASE s.state \notin Flooding -> s
        [] s.state \in Flooding /\ current < l[2] -> ospf_flood(s, r, l, late)
        [] s.state \in Flooding /\ current >= l[2] /\ Entry(s.req, k) # {} ->
             [s EXCEPT !.event = "BadLSReq"]
        [] s.state \in Flooding /\ current = l[2] /\ Entry(s.req, k) = {} ->
             IF Entry(s.rxmt, k) # {} THEN [s EXCEPT !.rxmt = @ \ Entry(@, k)]
             ELSE Send(s, [type |-> "ack", lsas |-> {l}])
        [] OTHER -> IF late THEN s ELSE Send(s, Update(<<k, current>>))

ospf_ls_ack(s, lsas) ==
  IF s.state \in Flooding THEN [s EXCEPT !.rxmt = @ \ lsas] ELSE s

\* ospf_nbr_lookup finds no neighbour: the packet is dropped.
ospf_read(s, r, p, late, now) ==
  CASE s.state = "Down" -> s
    [] s.state # "Down" /\ p.type = "dd" -> ospf_db_desc(s, r, p, late, now)
    [] s.state # "Down" /\ p.type = "req" -> ospf_ls_req(s, p.key)
    [] s.state # "Down" /\ p.type = "upd" -> ospf_ls_upd(s, r, p.lsa, late)
    [] OTHER -> ospf_ls_ack(s, p.lsas)

(***************************************************************************)
(* Actions.                                                                *)
(***************************************************************************)

\* The time of day, later than the number any DD packet carries.
Now ==
  LET seqs(r) == {node[r].seq, node[r].last[2]} \cup
                 {node[r].out[i].seq : i \in {j \in DOMAIN node[r].out : node[r].out[j].type = "dd"}}
      all == seqs(1) \cup seqs(2)
  IN  1 + CHOOSE n \in all : \A m \in all : m <= n

\* A fault is one of a bounded number.
Fault(b) == faults' = faults + (IF b THEN 1 ELSE 0) /\ (b => faults < MaxFaults)

\* Hellos and timers come when few packets are on their way: their intervals are
\* longer than a packet's way and back.
Room == Len(node[1].out) + Len(node[2].out) < MaxQueue

Step(r, s) == node' = [node EXCEPT ![r] = RunEvent(s, r, Now)]

Receive(r) ==
  LET p == Peer(r)
  IN  /\ node[p].out # <<>>
      /\ \E late \in BOOLEAN :
           /\ Fault(late)
           /\ node' = [node EXCEPT
                ![r] = RunEvent(ospf_read(@, r, Head(node[p].out), late, Now), r, Now),
                ![p].out = Tail(@)]

Lose(r) ==
  /\ node[r].out # <<>>
  /\ Fault(TRUE)
  /\ node' = [node EXCEPT ![r].out = Tail(@)]

\* ospf_hello: a Hello of the neighbour, which lists this router if the
\* neighbour has heard of it.
Hello(r) ==
  LET up == ospf_nsm_event(node[r], r, "PacketReceived", Now)
      e == IF node[Peer(r)].state # "Down" THEN "TwoWayReceived" ELSE "OneWayReceived"
  IN  /\ Room
      /\ node' = [node EXCEPT ![r] = ospf_nsm_event(up, r, e, Now)]
      /\ UNCHANGED faults

\* Mutant: only the first packet is sent again.
ospf_db_desc_timerFirst(r) ==
  /\ node[r].state = "ExStart"
  /\ Room
  /\ node' = [node EXCEPT ![r] = ospf_db_desc_resend(@)]
  /\ UNCHANGED faults

ospf_db_desc_timer(r) ==
  /\ node[r].state = "ExStart" \/ (node[r].state = "Exchange" /\ "MS" \in node[r].flags)
  /\ Room
  /\ node' = [node EXCEPT ![r] = ospf_db_desc_resend(@)]
  /\ UNCHANGED faults

ospf_ls_req_timer(r) ==
  /\ node[r].state = "Loading" /\ node[r].req # {}
  /\ Room
  /\ node' = [node EXCEPT ![r] = ospf_ls_req_send(@)]
  /\ UNCHANGED faults

\* Every LSA is retransmitted that was not received a moment ago; one packet
\* takes one LSA.
ospf_ls_upd_timer(r) ==
  /\ node[r].state \in Flooding
  /\ Room
  /\ \E l \in node[r].rxmt : node' = [node EXCEPT ![r] = Send(@, Update(l))]
  /\ UNCHANGED faults

ospf_ls_ack_timer(r) ==
  /\ node[r].acks # {}
  /\ Room
  /\ node' = [node EXCEPT ![r] =
                Send([@ EXCEPT !.acks = {}], [type |-> "ack", lsas |-> node[r].acks])]
  /\ UNCHANGED faults

\* RouterDeadInterval, and the time ospfd takes to start, are longer than any
\* packet's way: what was sent before has arrived or is lost.
LinkIsQuiet(n) == [r \in Routers |-> [n[r] EXCEPT !.out = <<>>]]

\* The inactivity timer, which every packet restarts: the neighbour is freed.
Dead(r) ==
  /\ node[r].state # "Down"
  /\ Fault(TRUE)
  /\ node' = LinkIsQuiet([node EXCEPT ![r] =
                            NoNeighbour(nsm_change_state(@, r, "Down", Now))])

\* ospfd starts again, without its database.
Crash(r) ==
  /\ Fault(TRUE)
  /\ node' = LinkIsQuiet([node EXCEPT ![r] = Started(r)])

\* A more recent LSA arrives on another interface.
Learn(r, k) ==
  /\ node[r].lsdb[k] < MaxInst
  /\ LET l == <<k, node[r].lsdb[k] + 1>>
         s == ospf_ls_retransmit_delete_nbr(node[r], <<k, l[2] - 1>>)
     IN  Step(r, ospf_lsa_install(ospf_flood_through_interface(s, l, FALSE), l))
  /\ UNCHANGED faults

Init == node = [r \in Routers |-> Started(r)] /\ faults = 0

Timers(r) ==
  \/ ospf_db_desc_timer(r)
  \/ ospf_ls_req_timer(r)
  \/ ospf_ls_upd_timer(r)
  \/ ospf_ls_ack_timer(r)

Next ==
  \E r \in Routers :
    \/ Receive(r)
    \/ Lose(r)
    \/ Hello(r)
    \/ Timers(r)
    \/ Dead(r)
    \/ Crash(r)
    \/ \E k \in Keys : <<r, k>> \in Learned /\ Learn(r, k)

Spec == Init /\ [][Next]_vars

\* Packets that are not lost arrive.  Hellos are periodic and the four timers are
\* armed again each time they fire for as long as their condition holds, so none
\* of them is put off for ever; Room, which the Hellos and packets of the two
\* exchanges close and open, is a bound of the model and not a reason for a timer
\* to stop, hence SF for Hellos and Database Description.  Learn and the faults, of
\* which there are finitely many, need not happen.
Fairness ==
  \A r \in Routers :
    /\ WF_vars(Receive(r))
    /\ SF_vars(Hello(r))
    /\ SF_vars(ospf_db_desc_timer(r))
    /\ WF_vars(ospf_ls_req_timer(r))
    /\ WF_vars(ospf_ls_upd_timer(r))
    /\ WF_vars(ospf_ls_ack_timer(r))

FairSpec == Spec /\ Fairness

(***************************************************************************)
(* Properties.                                                             *)
(***************************************************************************)

\* Every router record has its type.
TypeOK == node \in [Routers -> RouterState] /\ faults \in 0 .. MaxFaults

\* Two routers that both call the adjacency Full (nsm_exchange_done or LoadingDone)
\* agree on every LSA, but for those that the one with the newer instance still has
\* on its retransmission list (ospf_ls_retransmit_add): whatever was lost, repeated
\* or came too early, nothing one of them knows is kept from the other for good.
FullIsSynchronised ==
  (\A r \in Routers : node[r].state = "Full") =>
    \A r \in Routers, k \in Keys :
      node[r].lsdb[k] > node[Peer(r)].lsdb[k] => <<k, node[r].lsdb[k]>> \in node[r].rxmt

\* An LSA that waits on ls_rxmt for its acknowledgment is the database copy: what
\* ospf_ls_upd_timer sends again is never an instance that was replaced, although
\* ospf_flood, ospf_router_lsa_refresh and ospf_ls_retransmit_add replace it at
\* different moments.
RetransmitsCurrent ==
  \A r \in Routers : \A l \in node[r].rxmt : node[r].lsdb[l[1]] = l[2]

\* An LSA on ls_req is more recent than the database copy, so that ospf_ls_upd
\* never takes the answer to it for a BadLSReq: a newer instance that arrives by
\* flooding meanwhile takes the request off the list (ospf_flood_through_interface).
RequestsNewer ==
  \A r \in Routers : \A l \in node[r].req : node[r].lsdb[l[1]] < l[2]

\* Once both routers are past ExStart they agree on which of them is the master,
\* and the slave's dd_seqnum is the master's or one behind it: duplicates and stale
\* packets, which ospf_db_desc tells apart by last_recv and the sequence number,
\* never let the two exchanges drift.
InStep ==
  (\A r \in Routers : node[r].state \in Flooding) =>
    /\ "MS" \notin node[1].flags /\ "MS" \in node[2].flags
    /\ node[1].seq \in {node[2].seq, node[2].seq - 1}

Converged ==
  /\ \A r \in Routers : node[r].state = "Full" /\ node[r].rxmt = {}
  /\ node[1].lsdb = node[2].lsdb

\* After the last lost packet, dead neighbour or restart, the retransmissions of
\* ospf_db_desc_timer, ospf_ls_req_timer and ospf_ls_upd_timer bring both routers to
\* Full with equal databases and nothing left to acknowledge, for good.
Converges == <>[]Converged

=============================================================================
