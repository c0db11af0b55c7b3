------------------------ MODULE OspfAdjacencyProofs ------------------------
(***************************************************************************)
(* Proofs about OspfAdjacency for every set of LSAs and any number of      *)
(* faults: the types, and what the lists of a neighbour hold.              *)
(*                                                                         *)
(* Neither property of the lists is inductive.  Lists adds that a key is   *)
(* requested once, that nothing is requested outside Exchange and Loading  *)
(* and that LoadingDone is raised only when nothing is left to request.    *)
(* It holds between the calls of a handler, so there is a lemma for each   *)
(* call.  Flooded describes flooding by what it may do to the two lists:   *)
(* what it does depends on the state and on the neighbour's request.       *)
(***************************************************************************)
EXTENDS OspfAdjacency, TLAPS, WellFoundedInduction

\* What the request and retransmission lists of one router hold, also between the
\* calls of a handler.
Lists(s) ==
  /\ \A l \in s.rxmt : s.lsdb[l[1]] = l[2]
  /\ \A l \in s.req : s.lsdb[l[1]] < l[2]
  /\ \A l, m \in s.req : l[1] = m[1] => l = m
  /\ s.state \notin {"Exchange", "Loading"} => s.req = {}
  /\ s.event = "LoadingDone" /\ s.state = "Loading" => s.req = {}

Good(s) == s \in RouterState /\ Lists(s)

Inv == (\A r \in Routers : Good(node[r])) /\ node \in [Routers -> RouterState] /\ faults \in 0 .. MaxFaults

(***************************************************************************)
(* Sets and sequences.                                                     *)
(***************************************************************************)

\* An LSA is a pair of a key and an instance.
LEMMA LsaPair ==
  /\ \A l \in LSAs : l[1] \in Keys /\ l[2] \in 1 .. MaxInst /\ l = <<l[1], l[2]>>
  /\ \A k \in Keys, i \in 1 .. MaxInst : <<k, i>> \in LSAs
BY DEF LSAs

\* The four kinds of packet.
LEMMA PacketKinds ==
  /\ \A f \in SUBSET Flags, q \in Nat, x \in SUBSET LSAs :
       [type |-> "dd", flags |-> f, seq |-> q, lsas |-> x] \in Packets
  /\ \A k \in Keys : [type |-> "req", key |-> k] \in Packets
  /\ \A l \in LSAs : [type |-> "upd", lsa |-> l] \in Packets
  /\ \A x \in SUBSET LSAs : [type |-> "ack", lsas |-> x] \in Packets
BY DEF Packets

\* What a packet of each kind carries.
LEMMA PacketFields ==
  ASSUME NEW p \in Packets
  PROVE  /\ p.type \in {"dd", "req", "upd", "ack"}
         /\ p.type = "dd" => p.flags \in SUBSET Flags /\ p.seq \in Nat /\ p.lsas \in SUBSET LSAs
         /\ p.type = "req" => p.key \in Keys
         /\ p.type = "upd" => p.lsa \in LSAs
         /\ p.type = "ack" => p.lsas \in SUBSET LSAs
BY DEF Packets

\* A set of natural numbers has a least one.
LEMMA LeastKey ==
  ASSUME NEW T, T \subseteq Nat, T # {}
  PROVE  \E x \in T : \A y \in T : x <= y
<1>1. PICK x \in T : \A y \in T : <<y, x>> \notin OpToRel(<, Nat)
  BY NatLessThanWellFounded, WFMin, Zenon
<1>2. \A y \in T : x \in Nat /\ y \in Nat /\ ~(y < x)
  BY <1>1, Zenon DEF OpToRel
<1> QED
  BY <1>2

\* A list with one entry per key has a first one.
LEMMA FirstExists ==
  ASSUME NEW list \in SUBSET LSAs, list # {}, \A l, m \in list : l[1] = m[1] => l = m
  PROVE  \E m \in list : {m} = First(list)
<1>1. \A l \in list : l[1] \in Nat
  BY LsaPair, OspfAssumption
<1> DEFINE T == {l[1] : l \in list}
<1>2. T \subseteq Nat /\ T # {}
  BY <1>1
<1>3. PICK x \in T : \A y \in T : x <= y
  <2> HIDE DEF T
  <2> QED BY <1>2, LeastKey, Zenon
<1>4. PICK m \in list : x = m[1]
  BY <1>3
<1>5. \A l \in list : m[1] <= l[1]
  BY <1>3, <1>4
<1>6. ASSUME NEW l \in First(list)
      PROVE  l = m
  <2>1. l \in list /\ l[1] <= m[1] /\ m[1] <= l[1]
    BY <1>5, <1>6 DEF First
  <2>2. l[1] = m[1]
    BY <1>1, <2>1, SMTT(60)
  <2> QED
    BY <2>1, <2>2
<1>7. m \in First(list)
  BY <1>5 DEF First
<1> QED
  BY <1>6, <1>7

\* A finite list of natural numbers has a bound: else take a shortest one that has
\* none, and leave out its last element.
LEMMA ListBounded ==
  ASSUME NEW k \in Nat, NEW f \in [1 .. k -> Nat]
  PROVE  \E b \in Nat : \A i \in 1 .. k : f[i] <= b
<1> DEFINE Bounded(j) == \A g \in [1 .. j -> Nat] :
                           \E b \in Nat : \A i \in 1 .. j : g[i] <= b
           K == {j \in Nat : ~Bounded(j)}
<1> SUFFICES ASSUME K # {}
             PROVE  FALSE
  BY Zenon
<1> HIDE DEF Bounded
<1>1. PICK j \in K : \A i \in K : j <= i
  <2>1. K \subseteq Nat
    OBVIOUS
  <2> HIDE DEF K
  <2> QED
    BY <2>1, LeastKey, Zenon
<1>2. j \in Nat /\ ~Bounded(j) /\ \A i \in Nat : i < j => Bounded(i)
  BY <1>1
<1> HIDE DEF K
<1>3. PICK g \in [1 .. j -> Nat] : ~\E b \in Nat : \A i \in 1 .. j : g[i] <= b
  BY <1>2, Zenon DEF Bounded
<1>4. j # 0
  <2>1. j = 0 => \A i \in 1 .. j : g[i] <= 0
    OBVIOUS
  <2> QED
    BY <1>3, <2>1
<1>5. j - 1 \in Nat /\ Bounded(j - 1)
  BY <1>2, <1>4
<1>6. PICK b \in Nat : \A i \in 1 .. j - 1 : g[i] <= b
  <2> DEFINE h == [i \in 1 .. j - 1 |-> g[i]]
  <2>1. \A i \in 1 .. j - 1 : g[i] \in Nat
    BY <1>2, <1>5
  <2>2. h \in [1 .. j - 1 -> Nat]
    BY <2>1
  <2>3. PICK b \in Nat : \A i \in 1 .. j - 1 : h[i] <= b
    BY <1>5, <2>2, Zenon DEF Bounded
  <2> QED
    BY <2>3, Zenon
<1>7. PICK c \in Nat : b <= c /\ g[j] <= c
  <2>1. g[j] \in Nat
    BY <1>2, <1>4
  <2>2. PICK a \in Nat : a = g[j]
    BY <2>1
  <2>3. b <= b + a /\ a <= b + a /\ b + a \in Nat
    OBVIOUS
  <2> QED
    BY <2>2, <2>3
<1>8. ASSUME NEW i \in 1 .. j
      PROVE  g[i] <= c
  <2>1. PICK a \in Nat : a = g[i]
    OBVIOUS
  <2>2. CASE i = j
    BY <1>7, <2>2
  <2>3. CASE i \in 1 .. j - 1
    <3>1. a <= b
      BY <1>6, <2>1, <2>3
    <3> QED
      BY <1>7, <2>1, <3>1
  <2> QED
    BY <1>2, <2>2, <2>3
<1> QED
  BY <1>3, <1>7, <1>8

\* A set of natural numbers with a bound has a greatest one.
LEMMA Greatest ==
  ASSUME NEW T, T \subseteq Nat, T # {}, NEW b \in Nat, \A x \in T : x <= b
  PROVE  \E x \in T : \A y \in T : y <= x
<1> DEFINE U == {b - x : x \in T}
<1>1. U \subseteq Nat /\ U # {}
  <2>1. ASSUME NEW x \in T
        PROVE  b - x \in Nat
    <3>1. x \in Nat /\ x <= b
      OBVIOUS
    <3> QED
      BY <3>1
  <2> QED
    BY <2>1, Zenon
<1>2. PICK u \in U : \A v \in U : u <= v
  <2> HIDE DEF U
  <2> QED
    BY <1>1, LeastKey, Zenon
<1>3. PICK x \in T : u = b - x
  BY <1>2
<1>4. ASSUME NEW y \in T
      PROVE  y <= x
  <2>1. b - x <= b - y
    BY <1>2, <1>3
  <2>2. x \in Nat /\ y \in Nat
    OBVIOUS
  <2> QED
    BY <2>1, <2>2
<1> QED
  BY <1>4

\* The numbers of the packets on the way have a bound.
LEMMA SeqsBounded ==
  ASSUME NEW out \in Seq(Packets)
  PROVE  \E b \in Nat : \A i \in {j \in DOMAIN out : out[j].type = "dd"} :
                          out[i].seq \in Nat /\ out[i].seq <= b
<1> DEFINE f == [i \in 1 .. Len(out) |-> IF out[i].type = "dd" THEN out[i].seq ELSE 0]
<1>1. Len(out) \in Nat /\ DOMAIN out = 1 .. Len(out)
  OBVIOUS
<1>2. ASSUME NEW i \in 1 .. Len(out)
      PROVE  out[i].type = "dd" => out[i].seq \in Nat
  <2>1. out[i] \in Packets
    OBVIOUS
  <2> QED
    BY <2>1, PacketFields
<1>3. f \in [1 .. Len(out) -> Nat]
  BY <1>2
<1>4. PICK b \in Nat : \A i \in 1 .. Len(out) : f[i] <= b
  BY <1>1, <1>3, ListBounded, Zenon
<1> QED
  BY <1>1, <1>2, <1>4, Zenon

\* The time of day is a number.
LEMMA NowNat ==
  ASSUME node \in [Routers -> RouterState]
  PROVE  Now \in Nat
<1> DEFINE dds(r) == {j \in DOMAIN node[r].out : node[r].out[j].type = "dd"}
           seqs(r) == {node[r].seq, node[r].last[2]} \cup {node[r].out[i].seq : i \in dds(r)}
           all == seqs(1) \cup seqs(2)
<1>1. ASSUME NEW r \in Routers
      PROVE  \E b \in Nat : \A n \in seqs(r) : n \in Nat /\ n <= b
  <2>1. /\ node[r].seq \in Nat /\ node[r].last[2] \in Nat
        /\ node[r].out \in Seq(Packets)
    BY DEF RouterState
  <2>2. PICK b \in Nat : \A i \in dds(r) : node[r].out[i].seq \in Nat /\ node[r].out[i].seq <= b
    BY <2>1, SeqsBounded, Zenon
  <2>3. PICK x \in Nat, y \in Nat : x = node[r].seq /\ y = node[r].last[2]
    BY <2>1
  <2>4. \A n \in seqs(r) : n \in Nat /\ n <= b + x + y
    BY <2>2, <2>3
  <2>5. b + x + y \in Nat
    BY <2>3
  <2> QED
    BY <2>4, <2>5
<1>2. PICK b1 \in Nat : \A n \in seqs(1) : n \in Nat /\ n <= b1
  BY <1>1 DEF Routers
<1>3. PICK b2 \in Nat : \A n \in seqs(2) : n \in Nat /\ n <= b2
  BY <1>1 DEF Routers
<1>4. node[1].seq \in all
  OBVIOUS
<1>5. Now = 1 + CHOOSE n \in all : \A m \in all : m <= n
  BY DEF Now
<1> HIDE DEF seqs
<1>6. \A n \in all : n \in Nat /\ n <= b1 + b2
  BY <1>2, <1>3
<1>7. b1 + b2 \in Nat
  OBVIOUS
<1> HIDE DEF all
<1>8. \E n \in all : \A m \in all : m <= n
  BY <1>4, <1>6, <1>7, Greatest
<1> QED
  BY <1>5, <1>6, <1>8

(***************************************************************************)
(* The operations that do not touch the lists.                             *)
(***************************************************************************)

\* Lists speaks of five fields only.
LEMMA SameLists ==
  ASSUME NEW s, NEW t, Lists(s),
         t.rxmt = s.rxmt, t.req = s.req, t.lsdb = s.lsdb, t.state = s.state, t.event = s.event
  PROVE  Lists(t)
BY DEF Lists

LEMMA SendGood ==
  ASSUME NEW s, Good(s), NEW p \in Packets
  PROVE  Good(Send(s, p))
<1>0. Append(s.out, p) \in Seq(Packets)
  <2>1. s.out \in Seq(Packets)
    BY DEF Good, RouterState
  <2> QED
    BY <2>1
<1>1. Send(s, p) \in RouterState
  BY <1>0, Zenon DEF Good, RouterState, Send
<1>2. /\ Send(s, p).rxmt = s.rxmt /\ Send(s, p).req = s.req /\ Send(s, p).lsdb = s.lsdb
      /\ Send(s, p).state = s.state /\ Send(s, p).event = s.event
  BY DEF Good, RouterState, Send
<1> QED
  BY <1>1, <1>2, SameLists DEF Good

\* ospf_db_desc_send changes the summary, the flags and what was sent.
LEMMA DescSendGood ==
  ASSUME NEW s, Good(s)
  PROVE  Good(ospf_db_desc_send(s)) /\ ospf_db_desc_send(s).state = s.state
<1> DEFINE page == First(s.sum)
           flags == IF s.sum = page /\ s.state \in Flooding THEN s.flags \ {"M"} ELSE s.flags
           dd == [type |-> "dd", flags |-> flags, seq |-> s.seq, lsas |-> page]
           t == [s EXCEPT !.sum = @ \ page, !.flags = flags, !.sent = <<dd>>]
<1>1. page \in SUBSET LSAs /\ flags \in SUBSET Flags /\ s.seq \in Nat
  BY DEF Good, RouterState, First
<1>2. dd \in Packets
  BY <1>1, PacketKinds
<1>3. <<dd>> \in Seq(Packets)
  BY <1>2
<1> HIDE DEF page, flags, dd
<1>4. t \in RouterState
  BY <1>1, <1>3, Zenon DEF Good, RouterState
<1>5. t.rxmt = s.rxmt /\ t.req = s.req /\ t.lsdb = s.lsdb /\ t.state = s.state /\ t.event = s.event
  BY DEF Good, RouterState
<1>6. Good(t)
  BY <1>4, <1>5, SameLists, Zenon DEF Good
<1>7. ospf_db_desc_send(s) = Send(t, dd)
  BY DEF ospf_db_desc_send, page, flags, dd
<1>8. Send(t, dd).state = t.state
  BY <1>4 DEF Send, RouterState
<1> QED
  BY <1>2, <1>5, <1>6, <1>7, <1>8, SendGood

LEMMA DescResendGood ==
  ASSUME NEW s, Good(s)
  PROVE  Good(ospf_db_desc_resend(s))
<1>1. s.out \in Seq(Packets) /\ s.sent \in Seq(Packets)
  BY DEF Good, RouterState
<1>2. s.out \o s.sent \in Seq(Packets)
  BY <1>1
<1> DEFINE t == ospf_db_desc_resend(s)
<1>3. t \in RouterState
  BY <1>2, Zenon DEF Good, RouterState, ospf_db_desc_resend
<1>4. t.rxmt = s.rxmt /\ t.req = s.req /\ t.lsdb = s.lsdb /\ t.state = s.state /\ t.event = s.event
  BY DEF Good, RouterState, ospf_db_desc_resend
<1> QED
  BY <1>3, <1>4, SameLists DEF Good

\* ospf_ls_req_send asks for the first LSA of the list, of which there is one.
LEMMA ReqSendGood ==
  ASSUME NEW s, Good(s), s.req # {}
  PROVE  /\ Good(ospf_ls_req_send(s))
         /\ ospf_ls_req_send(s).state = s.state
         /\ ospf_ls_req_send(s).req = s.req
         /\ ospf_ls_req_send(s).event = s.event
<1> DEFINE l == CHOOSE m \in s.req : {m} = First(s.req)
           t == [s EXCEPT !.reqLast = {l}]
           p == [type |-> "req", key |-> l[1]]
<1>1. s.req \in SUBSET LSAs
  BY DEF Good, RouterState
<1>2. \E m \in s.req : {m} = First(s.req)
  BY <1>1, FirstExists DEF Good, Lists
<1>3. l \in LSAs
  BY <1>1, <1>2
<1>4. p \in Packets
  BY <1>3, PacketKinds, LsaPair
<1> HIDE DEF l
<1>5. t \in RouterState
  BY <1>3, Zenon DEF Good, RouterState
<1>6. t.rxmt = s.rxmt /\ t.req = s.req /\ t.lsdb = s.lsdb /\ t.state = s.state /\ t.event = s.event
  BY DEF Good, RouterState
<1>7. Good(t)
  BY <1>5, <1>6, SameLists, Zenon DEF Good
<1>8. ospf_ls_req_send(s) = Send(t, p)
  BY DEF ospf_ls_req_send, l
<1>9. Send(t, p).state = t.state /\ Send(t, p).req = t.req /\ Send(t, p).event = t.event
  BY <1>5 DEF Send, RouterState
<1> QED
  BY <1>4, <1>6, <1>7, <1>8, <1>9, SendGood

(***************************************************************************)
(* Flooding.                                                               *)
(***************************************************************************)

\* The request list can be searched by key and is empty outside the states that
\* fill it; the rest of Lists need not hold between the calls of a handler.
Requests(s) ==
  /\ s \in RouterState
  /\ \A l, m \in s.req : l[1] = m[1] => l = m
  /\ s.state \notin {"Exchange", "Loading"} => s.req = {}
  /\ s.event = "LoadingDone" /\ s.state = "Loading" => s.req = {}

\* What flooding l may do to a router: requests that l answers go, and l is the
\* only LSA that is put on the retransmission list.
Flooded(s, l, t) ==
  /\ Requests(t)
  /\ t.lsdb = s.lsdb /\ t.state = s.state /\ t.req \subseteq s.req
  /\ \A q \in t.req : q[1] = l[1] => q[2] > l[2]
  /\ t.rxmt \subseteq s.rxmt \cup {l}

LEMMA LoadingRequests ==
  ASSUME NEW s, Requests(s)
  PROVE  LET t == ospf_check_nbr_loading(s)
         IN  /\ Requests(t)
             /\ t.lsdb = s.lsdb /\ t.state = s.state /\ t.req = s.req /\ t.rxmt = s.rxmt
<1> DEFINE t == ospf_check_nbr_loading(s)
<1>1. CASE s.state = "Loading" /\ s.req = {}
  <2>1. t = [s EXCEPT !.event = "LoadingDone"]
    BY <1>1 DEF ospf_check_nbr_loading
  <2> HIDE DEF t
  <2>2. /\ t.lsdb = s.lsdb /\ t.state = s.state /\ t.req = s.req /\ t.rxmt = s.rxmt
        /\ t \in RouterState
    BY <2>1, Zenon DEF Requests, RouterState
  <2> QED
    BY <1>1, <2>2 DEF Requests, t
<1>2. CASE s.state = "Loading" /\ s.req # {} /\ s.reqLast = {}
  <2>1. t = [s EXCEPT !.event = "ls_req"]
    BY <1>2 DEF ospf_check_nbr_loading
  <2> HIDE DEF t
  <2>2. /\ t.lsdb = s.lsdb /\ t.state = s.state /\ t.req = s.req /\ t.rxmt = s.rxmt
        /\ t \in RouterState /\ t.event = "ls_req"
    BY <2>1, Zenon DEF Requests, RouterState
  <2> QED
    BY <2>2 DEF Requests, t
<1>3. CASE ~(s.state = "Loading" /\ (s.req = {} \/ s.reqLast = {}))
  <2>1. t = s
    BY <1>3 DEF ospf_check_nbr_loading
  <2> QED
    BY <2>1
<1> QED
  BY <1>1, <1>2, <1>3

\* An LSA answers the request for it or for an older instance.
LEMMA AnsweredFlooded ==
  ASSUME NEW s, Requests(s), NEW l \in LSAs
  PROVE  Flooded(s, l, Answered(s, l)) /\ Answered(s, l).rxmt = s.rxmt
<1>1. s.req \in SUBSET LSAs
  BY DEF Requests, RouterState
<1>2. CASE s.state # "Full" /\ \E q \in Entry(s.req, l[1]) : q[2] <= l[2]
  <2> DEFINE c == CHOOSE q \in s.req : q[1] = l[1]
             d == ospf_ls_request_delete(s, c)
  <2>1. c \in s.req /\ c[1] = l[1]
    BY <1>2 DEF Entry
  <2>2. \A q \in s.req : q[1] = l[1] => q = c
    BY <2>1 DEF Requests
  <2> HIDE DEF c
  <2>3. d \in RouterState
    BY Zenon DEF ospf_ls_request_delete, Requests, RouterState
  <2>4. /\ d.lsdb = s.lsdb /\ d.state = s.state /\ d.req = s.req \ {c} /\ d.rxmt = s.rxmt
        /\ d.event = s.event
    BY DEF ospf_ls_request_delete, Requests, RouterState
  <2> HIDE DEF d
  <2>5. Requests(d)
    BY <2>3, <2>4 DEF Requests
  <2>6. Answered(s, l) = ospf_check_nbr_loading(d)
    BY <1>2 DEF Answered, c, d
  <2>7. \A q \in d.req : q[1] # l[1]
    BY <2>2, <2>4
  <2>8. /\ Requests(Answered(s, l))
        /\ Answered(s, l).lsdb = d.lsdb /\ Answered(s, l).state = d.state
        /\ Answered(s, l).req = d.req /\ Answered(s, l).rxmt = d.rxmt
    BY <2>5, <2>6, LoadingRequests
  <2> QED
    BY <2>4, <2>7, <2>8 DEF Flooded
<1>3. CASE ~(s.state # "Full" /\ \E q \in Entry(s.req, l[1]) : q[2] <= l[2])
  <2>1. Answered(s, l) = s
    BY <1>3 DEF Answered
  <2>2. ASSUME NEW q \in s.req, q[1] = l[1]
        PROVE  q[2] > l[2]
    <3>1. s.state # "Full"
      BY <2>2 DEF Requests
    <3>2. ~(q[2] <= l[2])
      BY <1>3, <2>2, <3>1 DEF Entry
    <3>3. q[2] \in Nat /\ l[2] \in Nat
      BY <1>1, LsaPair, OspfAssumption
    <3> QED
      BY <3>2, <3>3
  <2> QED
    BY <2>1, <2>2 DEF Flooded
<1> QED
  BY <1>2, <1>3

\* ospf_flood_through_interface; an LSA of the neighbour is not sent back to it.
LEMMA FloodFlooded ==
  ASSUME NEW s, Requests(s), NEW l \in LSAs, NEW fromNbr \in BOOLEAN
  PROVE  LET t == ospf_flood_through_interface(s, l, fromNbr)
         IN  Flooded(s, l, t) /\ (fromNbr => t.rxmt = s.rxmt)
<1> DEFINE t == ospf_flood_through_interface(s, l, fromNbr)
<1>1. CASE s.state \notin Flooding
  <2>1. t = s
    BY <1>1 DEF ospf_flood_through_interface
  <2>2. s.req = {}
    BY <1>1 DEF Requests, Flooding
  <2> QED
    BY <2>1, <2>2 DEF Flooded
<1>2. CASE s.state \in Flooding /\ (fromNbr \/ NeighbourHas(s, l))
  <2>1. t = Answered(s, l)
    BY <1>2 DEF ospf_flood_through_interface
  <2> QED
    BY <2>1, AnsweredFlooded
<1>3. CASE s.state \in Flooding /\ ~(fromNbr \/ NeighbourHas(s, l))
  <2> DEFINE a == Answered(s, l)
             b == ospf_ls_retransmit_add(a, l)
  <2>1. t = Send(b, Update(l))
    BY <1>3 DEF ospf_flood_through_interface
  <2>2. Flooded(s, l, a) /\ a.rxmt = s.rxmt
    BY AnsweredFlooded
  <2> HIDE DEF a
  <2>3. a \in RouterState /\ Entry(a.rxmt, l[1]) \subseteq a.rxmt
    BY <2>2 DEF Flooded, Requests, Entry
  <2>4. /\ b \in RouterState
        /\ b.lsdb = a.lsdb /\ b.state = a.state /\ b.req = a.req /\ b.event = a.event
        /\ b.rxmt \subseteq a.rxmt \cup {l}
    BY <2>3, Zenon DEF ospf_ls_retransmit_add, RouterState
  <2> HIDE DEF b
  <2>5. Update(l) \in Packets
    BY PacketKinds DEF Update
  <2>6. Append(b.out, Update(l)) \in Seq(Packets)
    <3>1. b.out \in Seq(Packets)
      BY <2>4 DEF RouterState
    <3> QED
      BY <2>5, <3>1
  <2> DEFINE u == Send(b, Update(l))
  <2>7. /\ u \in RouterState
        /\ u.lsdb = b.lsdb /\ u.state = b.state /\ u.req = b.req /\ u.event = b.event
        /\ u.rxmt = b.rxmt
    BY <2>4, <2>6, Zenon DEF Send, RouterState
  <2> HIDE DEF u
  <2>8. Requests(u)
    BY <2>2, <2>4, <2>7 DEF Flooded, Requests
  <2>9. Flooded(s, l, u)
    BY <2>2, <2>4, <2>7, <2>8, SMTT(60) DEF Flooded
  <2> QED
    BY <1>3, <2>1, <2>9 DEF u
<1> QED
  BY <1>1, <1>2, <1>3

\* A new instance goes into the database: the lists stay right if the replaced copy
\* is not retransmitted any more and the requests it answers are gone.
LEMMA InstalledLists ==
  ASSUME NEW s, Good(s), NEW t, Requests(t), NEW l \in LSAs,
         t.lsdb = [s.lsdb EXCEPT ![l[1]] = l[2]], t.req \subseteq s.req,
         \A q \in t.req : q[1] = l[1] => q[2] > l[2],
         \A m \in t.rxmt : m = l \/ (m \in s.rxmt /\ m # <<l[1], s.lsdb[l[1]]>>)
  PROVE  Good(t)
<1>1. s.lsdb \in [Keys -> 0 .. MaxInst] /\ s.req \in SUBSET LSAs /\ s.rxmt \in SUBSET LSAs
  BY DEF Good, RouterState
<1>2. \A k \in Keys : t.lsdb[k] = IF k = l[1] THEN l[2] ELSE s.lsdb[k]
  BY <1>1, LsaPair, Zenon
<1>3. ASSUME NEW m \in t.rxmt
      PROVE  t.lsdb[m[1]] = m[2]
  <2>1. CASE m = l
    BY <1>2, <2>1, LsaPair
  <2>2. CASE m \in s.rxmt /\ m # <<l[1], s.lsdb[l[1]]>>
    <3>1. m \in LSAs /\ s.lsdb[m[1]] = m[2]
      BY <1>1, <2>2 DEF Good, Lists
    <3>2. m = <<m[1], m[2]>> /\ m[1] \in Keys
      BY <3>1, LsaPair
    <3>3. m[1] # l[1]
      BY <2>2, <3>1, <3>2
    <3> QED
      BY <1>2, <3>1, <3>2, <3>3, SMTT(60)
  <2> QED
    BY <2>1, <2>2
<1>4. ASSUME NEW q \in t.req
      PROVE  t.lsdb[q[1]] < q[2]
  <2>1. q \in LSAs /\ s.lsdb[q[1]] < q[2] /\ q[1] \in Keys /\ q[2] \in Nat /\ l[2] \in Nat
    BY <1>1, LsaPair, OspfAssumption DEF Good, Lists
  <2>2. CASE q[1] = l[1]
    BY <1>2, <2>1, <2>2
  <2>3. CASE q[1] # l[1]
    BY <1>2, <2>1, <2>3
  <2> QED
    BY <2>2, <2>3
<1> QED
  BY <1>3, <1>4 DEF Good, Lists, Requests

\* Changes of the database and of the retransmission list alone.
LEMMA InstallFields ==
  ASSUME NEW s \in RouterState, NEW l \in LSAs
  PROVE  LET t == ospf_lsa_install(s, l)
         IN  /\ t \in RouterState
             /\ t.lsdb = [s.lsdb EXCEPT ![l[1]] = l[2]]
             /\ t.req = s.req /\ t.rxmt = s.rxmt /\ t.state = s.state /\ t.event = s.event
<1>1. l[1] \in Keys /\ l[2] \in 0 .. MaxInst
  BY LsaPair, OspfAssumption
<1>2. [s.lsdb EXCEPT ![l[1]] = l[2]] \in [Keys -> 0 .. MaxInst]
  BY <1>1 DEF RouterState
<1>3. ospf_lsa_install(s, l) = [s EXCEPT !.lsdb = [s.lsdb EXCEPT ![l[1]] = l[2]]]
  BY DEF ospf_lsa_install
<1> QED
  BY <1>2, <1>3, Zenon DEF RouterState

LEMMA RetransmitDeleteFields ==
  ASSUME NEW s \in RouterState, NEW l
  PROVE  LET t == ospf_ls_retransmit_delete_nbr(s, l)
         IN  /\ t \in RouterState
             /\ t.rxmt = s.rxmt \ {l}
             /\ t.lsdb = s.lsdb /\ t.req = s.req /\ t.state = s.state /\ t.event = s.event
BY Zenon DEF ospf_ls_retransmit_delete_nbr, RouterState

LEMMA GoodRequests ==
  ASSUME NEW s, Good(s)
  PROVE  Requests(s)
BY DEF Good, Lists, Requests

\* ospf_router_lsa_refresh floods the instance that it has just installed.
LEMMA RouterLsaGood ==
  ASSUME NEW s, Good(s), NEW r \in Routers
  PROVE  Good(ospf_router_lsa_update(s, r)) /\ ospf_router_lsa_update(s, r).state = s.state
<1> DEFINE old == <<r, s.lsdb[r]>>
           new == <<r, s.lsdb[r] + 1>>
           a == ospf_ls_retransmit_delete_nbr(s, old)
           b == ospf_lsa_install(a, new)
           t == ospf_flood_through_interface(b, new, FALSE)
<1>1. CASE s.lsdb[r] = MaxInst
  <2>1. ospf_router_lsa_update(s, r) = s
    BY <1>1 DEF ospf_router_lsa_update
  <2> QED
    BY <2>1
<1>2. CASE s.lsdb[r] # MaxInst
  <2>1. ospf_router_lsa_update(s, r) = t
    BY <1>2 DEF ospf_router_lsa_update
  <2>2. s \in RouterState /\ r \in Keys /\ s.lsdb[r] \in 0 .. MaxInst
    BY OspfAssumption, SMTT(60) DEF Good, RouterState
  <2>3. s.lsdb[r] + 1 \in 1 .. MaxInst
    BY <1>2, <2>2, OspfAssumption
  <2>4. new \in LSAs /\ new[1] = r
    BY <2>2, <2>3, LsaPair, SMTT(60)
  <2> HIDE DEF new
  <2>5. /\ a \in RouterState /\ a.rxmt = s.rxmt \ {old}
        /\ a.lsdb = s.lsdb /\ a.req = s.req /\ a.state = s.state /\ a.event = s.event
    BY <2>2, RetransmitDeleteFields
  <2> HIDE DEF a
  <2>6. /\ b \in RouterState /\ b.lsdb = [s.lsdb EXCEPT ![new[1]] = new[2]]
        /\ b.req = s.req /\ b.rxmt = s.rxmt \ {old} /\ b.state = s.state /\ b.event = s.event
    BY <2>4, <2>5, InstallFields
  <2> HIDE DEF b
  <2>7. Requests(b)
    BY <2>6, GoodRequests DEF Requests
  <2>8. Flooded(b, new, t)
    BY <2>4, <2>7, FloodFlooded, Zenon
  <2> HIDE DEF t
  <2>9. Requests(t) /\ t.state = s.state
    BY <2>6, <2>8 DEF Flooded
  <2>10. t.lsdb = [s.lsdb EXCEPT ![new[1]] = new[2]] /\ t.req \subseteq s.req
    BY <2>6, <2>8 DEF Flooded
  <2>11. \A q \in t.req : q[1] = new[1] => q[2] > new[2]
    BY <2>8 DEF Flooded
  <2>12. \A m \in t.rxmt : m = new \/ (m \in s.rxmt /\ m # <<new[1], s.lsdb[new[1]]>>)
    BY <2>4, <2>6, <2>8 DEF Flooded
  <2> QED
    BY <2>1, <2>4, <2>9, <2>10, <2>11, <2>12, InstalledLists, SMTT(60)
<1> QED
  BY <1>1, <1>2

(***************************************************************************)
(* The neighbour state machine.                                            *)
(***************************************************************************)

\* Leaving the states that flood empties the lists; Full is entered without
\* requests.
LEMMA ChangeStateGood ==
  ASSUME NEW s, Good(s), NEW r \in Routers, NEW st \in States, NEW now \in Nat,
         st = "Full" => s.req = {},
         st = "Loading" => s.event # "LoadingDone"
  PROVE  /\ Good(nsm_change_state(s, r, st, now))
         /\ nsm_change_state(s, r, st, now).state = st
<1> DEFINE moved == [s EXCEPT !.state = st]
           told == IF (s.state = "Full") # (st = "Full") THEN ospf_router_lsa_update(moved, r)
                   ELSE moved
           clear == IF s.state \in Flooding /\ st \notin Flooding THEN nsm_clear_adj(told) ELSE told
           next == [clear EXCEPT !.seq = IF @ = 0 THEN now ELSE @ + 1, !.flags = Flags]
<1>1. /\ moved \in RouterState /\ moved.state = st
      /\ moved.req = s.req /\ moved.rxmt = s.rxmt /\ moved.lsdb = s.lsdb /\ moved.event = s.event
  BY Zenon DEF Good, RouterState
<1>2. s.req # {} => s.state \in Flooding \ {"Full"}
  BY DEF Good, Lists, Flooding
<1> HIDE DEF moved
<1>3. Good(clear) /\ clear.state = st
  <2>1. CASE s.state \in Flooding /\ st \notin Flooding /\ s.req # {}
    <3>1. s.state # "Full" /\ st # "Full"
      BY <1>2, <2>1 DEF Flooding
    <3>2. clear = nsm_clear_adj(moved)
      BY <2>1, <3>1
    <3> HIDE DEF clear
    <3>3. /\ clear \in RouterState /\ clear.req = {} /\ clear.rxmt = {} /\ clear.state = st
      BY <1>1, <3>2, Zenon DEF nsm_clear_adj, RouterState
    <3> QED
      BY <3>3 DEF Good, Lists
  <2>2. CASE ~(s.state \in Flooding /\ st \notin Flooding /\ s.req # {})
    <3>1. Good(moved)
      <4>1. st \notin {"Exchange", "Loading"} => s.req = {}
        BY <1>2, <2>2 DEF Flooding, States
      <4>2. s.event = "LoadingDone" /\ st = "Loading" => s.req = {}
        OBVIOUS
      <4> QED
        BY <1>1, <4>1, <4>2 DEF Good, Lists
    <3>2. Good(told) /\ told.state = st
      BY <1>1, <3>1, RouterLsaGood, SMTT(60)
    <3> HIDE DEF told
    <3>3. CASE s.state \in Flooding /\ st \notin Flooding
      <4>1. clear = nsm_clear_adj(told)
        BY <3>3
      <4> HIDE DEF clear
      <4>2. clear \in RouterState /\ clear.req = {} /\ clear.rxmt = {} /\ clear.state = st
        BY <3>2, <4>1, Zenon DEF nsm_clear_adj, Good, RouterState
      <4> QED
        BY <4>2 DEF Good, Lists
    <3>4. CASE ~(s.state \in Flooding /\ st \notin Flooding)
      BY <3>2, <3>4
    <3> QED
      BY <3>3, <3>4
  <2> QED
    BY <2>1, <2>2
<1>4. CASE st # "ExStart"
  <2>1. nsm_change_state(s, r, st, now) = clear
    BY <1>4 DEF nsm_change_state, moved
  <2> QED
    BY <1>3, <2>1
<1>5. CASE st = "ExStart"
  <2>1. nsm_change_state(s, r, st, now) = ospf_db_desc_send(next)
    BY <1>5, Zenon DEF nsm_change_state, moved
  <2> HIDE DEF clear
  <2>2. (IF clear.seq = 0 THEN now ELSE clear.seq + 1) \in Nat
    BY <1>3 DEF Good, RouterState
  <2>3. next \in RouterState
    BY <1>3, <2>2, ZenonT(60) DEF Good, RouterState
  <2>4. /\ next.rxmt = clear.rxmt /\ next.req = clear.req /\ next.lsdb = clear.lsdb
        /\ next.state = clear.state /\ next.event = clear.event
    BY <1>3 DEF Good, RouterState
  <2> HIDE DEF next
  <2>5. Good(next)
    BY <1>3, <2>3, <2>4, SameLists DEF Good
  <2> QED
    BY <1>3, <2>1, <2>4, <2>5, DescSendGood
<1> QED
  BY <1>4, <1>5

\* An event of the machine.
LEMMA NsmEventGood ==
  ASSUME NEW s, Good(s), NEW r \in Routers, NEW e, NEW now \in Nat,
         e = "ExchangeDone" => s.event = "none",
         e = "LoadingDone" /\ s.state = "Loading" => s.req = {}
  PROVE  /\ Good(ospf_nsm_event(s, r, e, now))
         /\ (e = "NegotiationDone" /\ s.state = "ExStart")
              => ospf_nsm_event(s, r, e, now).state = "Exchange"
<1> DEFINE t == ospf_nsm_event(s, r, e, now)
<1>0. /\ "Down" \in States /\ "Init" \in States /\ "ExStart" \in States
      /\ "Exchange" \in States /\ "Loading" \in States /\ "Full" \in States
  BY DEF States
<1>1. CASE e = "PacketReceived" /\ s.state = "Down"
  <2>1. t = nsm_change_state(s, r, "Init", now)
    BY <1>1, Zenon DEF ospf_nsm_event
  <2> QED
    BY <1>0, <1>1, <2>1, ChangeStateGood, SMTT(60)
<1>2. CASE e = "TwoWayReceived" /\ s.state = "Init"
  <2>1. t = nsm_change_state(s, r, "ExStart", now)
    BY <1>2 DEF ospf_nsm_event
  <2> QED
    BY <1>0, <1>2, <2>1, ChangeStateGood, SMTT(60)
<1>3. CASE e = "OneWayReceived" /\ s.state \in Flooding \cup {"ExStart"}
  <2>1. t = nsm_change_state(s, r, "Init", now)
    BY <1>3, SMTT(60) DEF ospf_nsm_event
  <2> QED
    BY <1>0, <1>3, <2>1, ChangeStateGood, SMTT(60)
<1>4. CASE e = "NegotiationDone" /\ s.state = "ExStart"
  <2> DEFINE u == [s EXCEPT !.sum = ospf_db_summary_add(s)]
  <2>1. t = nsm_change_state(u, r, "Exchange", now)
    BY <1>4, SMTT(60) DEF ospf_nsm_event
  <2>2. ospf_db_summary_add(s) \in SUBSET LSAs
    BY SMTT(60) DEF ospf_db_summary_add
  <2>3. /\ u \in RouterState
        /\ u.rxmt = s.rxmt /\ u.req = s.req /\ u.lsdb = s.lsdb /\ u.state = s.state
        /\ u.event = s.event
    BY <2>2, Zenon DEF Good, RouterState
  <2> HIDE DEF u
  <2>4. Good(u)
    BY <2>3, SameLists DEF Good
  <2> QED
    BY <1>0, <1>4, <2>1, <2>4, ChangeStateGood, SMTT(60)
<1>5. CASE e = "ExchangeDone" /\ s.state = "Exchange"
  <2>1. CASE s.req = {}
    <3>1. t = nsm_change_state(s, r, "Full", now)
      BY <1>5, <2>1, SMTT(60) DEF ospf_nsm_event
    <3> QED
      BY <1>0, <1>5, <2>1, <3>1, ChangeStateGood
  <2>2. CASE s.req # {}
    <3>1. t = nsm_change_state(ospf_ls_req_send(s), r, "Loading", now)
      BY <1>5, <2>2, SMTT(60) DEF ospf_nsm_event
    <3>2. Good(ospf_ls_req_send(s)) /\ ospf_ls_req_send(s).event = "none"
      BY <1>5, <2>2, ReqSendGood, SMTT(60)
    <3> QED
      BY <1>0, <1>5, <3>1, <3>2, ChangeStateGood, SMTT(60)
  <2> QED
    BY <2>1, <2>2
<1>6. CASE e \in {"BadLSReq", "SeqNumberMismatch"} /\ s.state \in Flooding
  <2>1. t = nsm_change_state(s, r, "ExStart", now)
    BY <1>6 DEF ospf_nsm_event
  <2> QED
    BY <1>0, <1>6, <2>1, ChangeStateGood, SMTT(60)
<1>7. CASE e = "LoadingDone" /\ s.state = "Loading"
  <2>1. t = nsm_change_state(s, r, "Full", now)
    BY <1>7 DEF ospf_nsm_event
  <2> QED
    BY <1>0, <1>7, <2>1, ChangeStateGood, SMTT(60)
<1>8. CASE /\ ~(e = "PacketReceived" /\ s.state = "Down")
           /\ ~(e = "TwoWayReceived" /\ s.state = "Init")
           /\ ~(e = "OneWayReceived" /\ s.state \in Flooding \cup {"ExStart"})
           /\ ~(e = "NegotiationDone" /\ s.state = "ExStart")
           /\ ~(e = "ExchangeDone" /\ s.state = "Exchange")
           /\ ~(e \in {"BadLSReq", "SeqNumberMismatch"} /\ s.state \in Flooding)
           /\ ~(e = "LoadingDone" /\ s.state = "Loading")
  <2>1. t = s
    BY <1>8, SMTT(60) DEF ospf_nsm_event
  <2> QED
    BY <1>8, <2>1, SMTT(60)
<1> QED
  BY <1>1, <1>2, <1>3, <1>4, <1>5, <1>6, <1>7, <1>8

\* The event that a handler has left behind.
LEMMA RunEventGood ==
  ASSUME NEW s, Good(s), NEW r \in Routers, NEW now \in Nat
  PROVE  Good(RunEvent(s, r, now))
<1> DEFINE t == [s EXCEPT !.event = "none"]
<1>1. /\ t \in RouterState /\ t.event = "none"
      /\ t.rxmt = s.rxmt /\ t.req = s.req /\ t.lsdb = s.lsdb /\ t.state = s.state
  BY Zenon DEF Good, RouterState
<1> HIDE DEF t
<1>2. Good(t)
  BY <1>1 DEF Good, Lists
<1>3. CASE s.event = "none"
  <2>1. RunEvent(s, r, now) = s
    BY <1>3 DEF RunEvent
  <2> QED
    BY <2>1
<1>4. CASE s.event = "ls_req"
  <2>1. RunEvent(s, r, now) = IF s.req = {} THEN t ELSE ospf_ls_req_send(t)
    BY <1>4 DEF RunEvent, t
  <2> QED
    BY <1>1, <1>2, <2>1, ReqSendGood
<1>5. CASE s.event \notin {"none", "ls_req"}
  <2>1. RunEvent(s, r, now) = ospf_nsm_event(t, r, s.event, now)
    BY <1>5 DEF RunEvent, t
  <2>2. s.event = "LoadingDone" /\ t.state = "Loading" => t.req = {}
    BY <1>1 DEF Good, Lists
  <2> QED
    BY <1>1, <1>2, <2>1, <2>2, NsmEventGood, SMTT(60)
<1> QED
  BY <1>3, <1>4, <1>5

(***************************************************************************)
(* The handlers of packets.                                                *)
(***************************************************************************)

\* A header is put on the request list in place of an older one.
LEMMA DescribedGood ==
  ASSUME NEW s, Good(s), s.state = "Exchange", NEW l \in LSAs
  PROVE  Good(Described(s, l)) /\ Described(s, l).state = "Exchange"
<1> DEFINE own == <<l[1], s.lsdb[l[1]]>>
           known == IF own[2] <= l[2] THEN [s EXCEPT !.sum = @ \ {own}] ELSE s
           t == [known EXCEPT !.req = (@ \ Entry(@, l[1])) \cup {l}]
<1>1. /\ known \in RouterState
      /\ known.rxmt = s.rxmt /\ known.req = s.req /\ known.lsdb = s.lsdb
      /\ known.state = s.state /\ known.event = s.event
  BY Zenon DEF Good, RouterState
<1>2. Described(s, l) = IF own[2] < l[2] THEN t ELSE known
  BY Zenon DEF Described
<1> HIDE DEF known
<1>3. Good(known)
  BY <1>1, SameLists DEF Good
<1>4. ASSUME own[2] < l[2]
      PROVE  Good(t) /\ t.state = "Exchange"
  <2>1. /\ t \in RouterState
        /\ t.req = (s.req \ Entry(s.req, l[1])) \cup {l}
        /\ t.rxmt = s.rxmt /\ t.lsdb = s.lsdb /\ t.state = s.state /\ t.event = s.event
    BY <1>1, Zenon DEF RouterState
  <2> HIDE DEF t
  <2>2. \A q \in t.req : q = l \/ (q \in s.req /\ q[1] # l[1])
    BY <2>1 DEF Entry
  <2>3. \A q \in t.req : t.lsdb[q[1]] < q[2]
    BY <1>4, <2>1, <2>2 DEF Good, Lists
  <2>4. \A q, m \in t.req : q[1] = m[1] => q = m
    BY <2>2 DEF Good, Lists
  <2> QED
    BY <2>1, <2>3, <2>4 DEF Good, Lists
<1> QED
  BY <1>1, <1>2, <1>3, <1>4, SMTT(60)

\* ospf_db_desc_proc is called in state Exchange.
LEMMA DescProcGood ==
  ASSUME NEW s, Good(s), s.state = "Exchange",
         NEW dd, dd.flags \in SUBSET Flags, dd.seq \in Nat, dd.lsas \in SUBSET LSAs
  PROVE  Good(ospf_db_desc_proc(s, dd))
<1> DEFINE read == IF dd.lsas = {} THEN s ELSE Described(s, CHOOSE l \in dd.lsas : TRUE)
           master == "MS" \in s.flags
           num == IF master THEN read.seq + 1 ELSE dd.seq
           next == [read EXCEPT !.seq = num]
           last == master /\ "M" \notin dd.flags \cup s.flags
           replied == IF last THEN next ELSE ospf_db_desc_send(next)
           done == "M" \notin dd.flags \cup replied.flags /\ (last \/ ~master)
           ev == IF done THEN "ExchangeDone" ELSE replied.event
           t == [replied EXCEPT !.last = <<dd.flags, dd.seq>>, !.event = ev]
<1>1. Good(read) /\ read.state = "Exchange"
  BY DescribedGood
<1>2. ospf_db_desc_proc(s, dd) = t
  BY Zenon DEF ospf_db_desc_proc
<1> HIDE DEF read
<1>3. num \in Nat
  BY <1>1 DEF Good, RouterState
<1> HIDE DEF num
<1>4. /\ next \in RouterState
      /\ next.rxmt = read.rxmt /\ next.req = read.req /\ next.lsdb = read.lsdb
      /\ next.state = read.state /\ next.event = read.event
  BY <1>1, <1>3, Zenon DEF Good, RouterState
<1> HIDE DEF next
<1>5. Good(next) /\ next.state = "Exchange"
  BY <1>1, <1>4, SameLists DEF Good
<1>6. Good(replied) /\ replied.state = "Exchange"
  BY <1>5, DescSendGood
<1> HIDE DEF replied, done
<1>7. ev \in {"none", "ExchangeDone", "BadLSReq", "SeqNumberMismatch", "LoadingDone", "ls_req"}
  BY <1>6 DEF Good, RouterState
<1>8. <<dd.flags, dd.seq>> \in (SUBSET Flags) \X Nat
  OBVIOUS
<1> HIDE DEF ev
<1>9. /\ t \in RouterState
      /\ t.rxmt = replied.rxmt /\ t.req = replied.req /\ t.lsdb = replied.lsdb
      /\ t.state = replied.state
  BY <1>6, <1>7, <1>8, Zenon DEF Good, RouterState
<1> HIDE DEF t
<1>10. Good(t)
  BY <1>6, <1>9 DEF Good, Lists
<1> QED
  BY <1>2, <1>10

\* An event is scheduled.
LEMMA EventGood ==
  ASSUME NEW s, Good(s), NEW e \in {"BadLSReq", "SeqNumberMismatch"}
  PROVE  Good([s EXCEPT !.event = e])
<1> DEFINE t == [s EXCEPT !.event = e]
<1>1. /\ t \in RouterState /\ t.event # "LoadingDone"
      /\ t.rxmt = s.rxmt /\ t.req = s.req /\ t.lsdb = s.lsdb /\ t.state = s.state
  BY Zenon DEF Good, RouterState
<1> HIDE DEF t
<1>2. Good(t)
  BY <1>1 DEF Good, Lists
<1> QED
  BY <1>2 DEF t

\* The end of the negotiation, and the first description.
LEMMA NegotiateGood ==
  ASSUME NEW s, Good(s), s.state = "ExStart", NEW r \in Routers, NEW now \in Nat,
         NEW dd, dd.flags \in SUBSET Flags, dd.seq \in Nat, dd.lsas \in SUBSET LSAs
  PROVE  Good(Negotiate(s, r, dd, now))
<1>1. ASSUME NEW u, u \in RouterState,
             u.rxmt = s.rxmt, u.req = s.req, u.lsdb = s.lsdb, u.state = s.state, u.event = s.event
      PROVE  Good(ospf_db_desc_proc(ospf_nsm_event(u, r, "NegotiationDone", now), dd))
  <2>1. Good(u) /\ u.state = "ExStart"
    BY <1>1, SameLists DEF Good
  <2>2. /\ Good(ospf_nsm_event(u, r, "NegotiationDone", now))
        /\ ospf_nsm_event(u, r, "NegotiationDone", now).state = "Exchange"
    BY <2>1, NsmEventGood
  <2> QED
    BY <2>2, DescProcGood
<1> DEFINE u == [s EXCEPT !.seq = dd.seq, !.flags = @ \ {"MS", "I"}]
           v == [s EXCEPT !.flags = @ \ {"I"}]
<1>2. /\ u \in RouterState
      /\ u.rxmt = s.rxmt /\ u.req = s.req /\ u.lsdb = s.lsdb /\ u.state = s.state /\ u.event = s.event
  BY Zenon DEF Good, RouterState
<1>3. /\ v \in RouterState
      /\ v.rxmt = s.rxmt /\ v.req = s.req /\ v.lsdb = s.lsdb /\ v.state = s.state /\ v.event = s.event
  BY Zenon DEF Good, RouterState
<1>4. \/ Negotiate(s, r, dd, now) = s
      \/ Negotiate(s, r, dd, now) =
           ospf_db_desc_proc(ospf_nsm_event(u, r, "NegotiationDone", now), dd)
      \/ Negotiate(s, r, dd, now) =
           ospf_db_desc_proc(ospf_nsm_event(v, r, "NegotiationDone", now), dd)
  <2> DEFINE A == dd.flags = Flags /\ dd.lsas = {} /\ Peer(r) > r
             B == dd.flags \cap {"MS", "I"} = {} /\ dd.seq = s.seq /\ Peer(r) < r
  <2>0. A => ~B
    BY DEF Peer, Routers
  <2>1. CASE A
    BY <2>0, <2>1, Zenon DEF Negotiate
  <2>2. CASE ~A /\ B
    BY <2>2, Zenon DEF Negotiate
  <2>3. CASE ~A /\ ~B
    BY <2>3, Zenon DEF Negotiate
  <2> QED
    BY <2>1, <2>2, <2>3
<1> HIDE DEF u, v
<1> QED
  BY <1>1, <1>2, <1>3, <1>4

LEMMA ExchangeGood ==
  ASSUME NEW s, Good(s), s.state = "Exchange",
         NEW dd, dd.flags \in SUBSET Flags, dd.seq \in Nat, dd.lsas \in SUBSET LSAs
  PROVE  Good(Exchange(s, dd))
<1> DEFINE master == "MS" \in s.flags
           A == ospf_db_desc_is_dup(s, dd)
           B == \/ ("MS" \in dd.flags) # ("MS" \in s.last[1])
                \/ "I" \in dd.flags
                \/ dd.seq # (IF master THEN s.seq ELSE s.seq + 1)
<1>1. Exchange(s, dd) \in {s, ospf_db_desc_resend(s), SeqNumberMismatch(s), ospf_db_desc_proc(s, dd)}
  <2>1. CASE A
    <3>1. Exchange(s, dd) = IF master THEN s ELSE ospf_db_desc_resend(s)
      BY <2>1, Zenon DEF Exchange
    <3> QED
      BY <3>1
  <2>2. CASE ~A /\ B
    <3>1. Exchange(s, dd) = SeqNumberMismatch(s)
      BY <2>2, Zenon DEF Exchange
    <3> QED
      BY <3>1
  <2>3. CASE ~A /\ ~B
    <3>1. Exchange(s, dd) = ospf_db_desc_proc(s, dd)
      BY <2>3, Zenon DEF Exchange
    <3> QED
      BY <3>1
  <2> QED
    BY <2>1, <2>2, <2>3, SMTT(60)
<1>2. Good(SeqNumberMismatch(s))
  BY EventGood, Zenon DEF SeqNumberMismatch
<1> QED
  BY <1>1, <1>2, DescResendGood, DescProcGood, SMTT(60)

LEMMA AfterExchangeGood ==
  ASSUME NEW s, Good(s), NEW dd, NEW late \in BOOLEAN
  PROVE  Good(AfterExchange(s, dd, late))
<1> DEFINE A == ospf_db_desc_is_dup(s, dd)
<1>1. AfterExchange(s, dd, late) \in {s, ospf_db_desc_resend(s), SeqNumberMismatch(s)}
  <2>1. CASE A /\ "MS" \in s.flags
    <3>1. AfterExchange(s, dd, late) = s
      BY <2>1, Zenon DEF AfterExchange
    <3> QED
      BY <3>1
  <2>2. CASE A /\ "MS" \notin s.flags /\ ~late
    <3>1. AfterExchange(s, dd, late) = ospf_db_desc_resend(s)
      BY <2>2, Zenon DEF AfterExchange
    <3> QED
      BY <3>1
  <2>3. CASE ~(A /\ "MS" \in s.flags) /\ ~(A /\ "MS" \notin s.flags /\ ~late)
    <3>1. AfterExchange(s, dd, late) = SeqNumberMismatch(s)
      BY <2>3, Zenon DEF AfterExchange
    <3> QED
      BY <3>1
  <2> QED
    BY <2>1, <2>2, <2>3
<1>2. Good(SeqNumberMismatch(s))
  BY EventGood, Zenon DEF SeqNumberMismatch
<1> QED
  BY <1>1, <1>2, DescResendGood

\* ospf_db_desc: a description may also be what makes the neighbour two-way.
LEMMA DescGood ==
  ASSUME NEW s, Good(s), NEW r \in Routers, NEW late \in BOOLEAN, NEW now \in Nat,
         NEW dd, dd.flags \in SUBSET Flags, dd.seq \in Nat, dd.lsas \in SUBSET LSAs
  PROVE  Good(ospf_db_desc(s, r, dd, late, now))
<1> DEFINE t == IF s.state = "Init" THEN ospf_nsm_event(s, r, "TwoWayReceived", now) ELSE s
<1>1. Good(t)
  BY NsmEventGood
<1>2. ospf_db_desc(s, r, dd, late, now) =
        CASE t.state = "ExStart" -> Negotiate(t, r, dd, now)
          [] t.state = "Exchange" -> Exchange(t, dd)
          [] t.state \in {"Loading", "Full"} -> AfterExchange(t, dd, late)
          [] OTHER -> t
  BY Zenon DEF ospf_db_desc
<1> HIDE DEF t
<1>3. CASE t.state = "ExStart"
  <2>1. ospf_db_desc(s, r, dd, late, now) = Negotiate(t, r, dd, now)
    BY <1>2, <1>3
  <2> QED
    BY <1>1, <1>3, <2>1, NegotiateGood, SMTT(60)
<1>4. CASE t.state = "Exchange"
  <2>1. ospf_db_desc(s, r, dd, late, now) = Exchange(t, dd)
    BY <1>2, <1>4
  <2> QED
    BY <1>1, <1>4, <2>1, ExchangeGood, SMTT(60)
<1>5. CASE t.state \in {"Loading", "Full"}
  <2>1. ospf_db_desc(s, r, dd, late, now) = AfterExchange(t, dd, late)
    BY <1>2, <1>5
  <2> QED
    BY <1>1, <2>1, AfterExchangeGood
<1>6. CASE t.state \notin {"ExStart", "Exchange", "Loading", "Full"}
  <2>1. ospf_db_desc(s, r, dd, late, now) = t
    BY <1>2, <1>6
  <2> QED
    BY <1>1, <2>1
<1> QED
  BY <1>3, <1>4, <1>5, <1>6

LEMMA LsReqGood ==
  ASSUME NEW s, Good(s), NEW k \in Keys
  PROVE  Good(ospf_ls_req(s, k))
<1>1. CASE s.state \notin Flooding
  <2>1. ospf_ls_req(s, k) = s
    BY <1>1, Zenon DEF ospf_ls_req
  <2> QED
    BY <2>1
<1>2. CASE s.state \in Flooding /\ s.lsdb[k] = 0
  <2>1. ospf_ls_req(s, k) = [s EXCEPT !.event = "BadLSReq"]
    BY <1>2, Zenon DEF ospf_ls_req
  <2> QED
    BY <2>1, EventGood, Zenon
<1>3. CASE s.state \in Flooding /\ s.lsdb[k] # 0
  <2>1. ospf_ls_req(s, k) = Send(s, Update(<<k, s.lsdb[k]>>))
    BY <1>3, Zenon DEF ospf_ls_req
  <2>2. s.lsdb[k] \in 0 .. MaxInst
    BY DEF Good, RouterState
  <2>3. <<k, s.lsdb[k]>> \in LSAs
    BY <1>3, <2>2, LsaPair, OspfAssumption, SMTT(60)
  <2>4. Update(<<k, s.lsdb[k]>>) \in Packets
    BY <2>3, PacketKinds DEF Update
  <2> QED
    BY <2>1, <2>4, SendGood
<1> QED
  BY <1>1, <1>2, <1>3

\* ospf_flood: the neighbour's requests are looked at before the copy is replaced.
LEMMA FloodGood ==
  ASSUME NEW s, Good(s), NEW r \in Routers, NEW l \in LSAs, NEW late \in BOOLEAN
  PROVE  Good(ospf_flood(s, r, l, late))
<1> DEFINE k == l[1]
           old == <<k, s.lsdb[k]>>
           flooded == ospf_flood_through_interface(s, l, TRUE)
           dropped == ospf_ls_retransmit_delete_nbr(flooded, old)
           kept == ospf_lsa_install(dropped, l)
           acked == [kept EXCEPT !.acks = @ \cup {l}]
           C == late /\ s.lsdb[k] # 0 /\ ~(k = r /\ s.lsdb[k] = Initial)
<1>1. Flooded(s, l, flooded) /\ flooded.rxmt = s.rxmt
  BY GoodRequests, FloodFlooded, Zenon
<1> HIDE DEF flooded
<1>2. flooded \in RouterState
  BY <1>1 DEF Flooded, Requests
<1>3. /\ dropped \in RouterState /\ dropped.rxmt = s.rxmt \ {old}
      /\ dropped.lsdb = flooded.lsdb /\ dropped.req = flooded.req
      /\ dropped.state = flooded.state /\ dropped.event = flooded.event
  BY <1>1, <1>2, RetransmitDeleteFields
<1> HIDE DEF dropped
<1>4. /\ kept \in RouterState /\ kept.rxmt = s.rxmt \ {old}
      /\ kept.lsdb = [s.lsdb EXCEPT ![l[1]] = l[2]] /\ kept.req = flooded.req
      /\ kept.state = flooded.state /\ kept.event = flooded.event
  <2>1. flooded.lsdb = s.lsdb
    BY <1>1 DEF Flooded
  <2> QED
    BY <1>3, <2>1, InstallFields, SMTT(60)
<1> HIDE DEF kept
<1>5. /\ acked \in RouterState /\ acked.rxmt = kept.rxmt /\ acked.lsdb = kept.lsdb
      /\ acked.req = kept.req /\ acked.state = kept.state /\ acked.event = kept.event
  BY <1>4, Zenon DEF RouterState
<1>6. Good(acked)
  <2> HIDE DEF acked
  <2>1. Requests(acked)
    BY <1>1, <1>4, <1>5 DEF Flooded, Requests
  <2>2. acked.req \subseteq s.req /\ \A q \in acked.req : q[1] = l[1] => q[2] > l[2]
    BY <1>1, <1>4, <1>5, SMTT(60) DEF Flooded
  <2>3. \A m \in acked.rxmt : m = l \/ (m \in s.rxmt /\ m # <<l[1], s.lsdb[l[1]]>>)
    BY <1>4, <1>5
  <2>4. acked.lsdb = [s.lsdb EXCEPT ![l[1]] = l[2]]
    BY <1>4, <1>5
  <2> QED
    BY <2>1, <2>2, <2>3, <2>4, InstalledLists
<1>7. ospf_flood(s, r, l, late) \in {s, ospf_router_lsa_update(acked, r), acked}
  <2>1. CASE C
    <3>1. ospf_flood(s, r, l, late) = s
      BY <2>1, Zenon DEF ospf_flood
    <3> QED
      BY <3>1
  <2>2. CASE ~C
    <3>1. ospf_flood(s, r, l, late) =
             (IF k = r THEN ospf_router_lsa_update(acked, r) ELSE acked)
      BY <2>2, Zenon DEF ospf_flood, kept, dropped, flooded
    <3> QED
      BY <3>1
  <2> QED
    BY <2>1, <2>2
<1> HIDE DEF acked
<1> QED
  BY <1>6, <1>7, RouterLsaGood, SMTT(60)

LEMMA LsUpdGood ==
  ASSUME NEW s, Good(s), NEW r \in Routers, NEW l \in LSAs, NEW late \in BOOLEAN
  PROVE  Good(ospf_ls_upd(s, r, l, late))
<1> DEFINE k == l[1]
           current == s.lsdb[k]
<1>1. k \in Keys /\ l[2] \in 1 .. MaxInst /\ current \in 0 .. MaxInst /\ MaxInst \in Nat
  BY LsaPair, OspfAssumption DEF Good, RouterState
<1>2. CASE s.state \notin Flooding
  <2>1. ospf_ls_upd(s, r, l, late) = s
    BY <1>2, Zenon DEF ospf_ls_upd
  <2> QED
    BY <2>1
<1>3. CASE s.state \in Flooding /\ current < l[2]
  <2>1. ~(current >= l[2]) /\ current # l[2]
    BY <1>1, <1>3
  <2>2. ospf_ls_upd(s, r, l, late) = ospf_flood(s, r, l, late)
    BY <1>3, <2>1, Zenon DEF ospf_ls_upd
  <2> QED
    BY <2>2, FloodGood
<1>4. CASE s.state \in Flooding /\ current >= l[2] /\ Entry(s.req, k) # {}
  <2>1. ~(current < l[2])
    BY <1>1, <1>4
  <2>2. ospf_ls_upd(s, r, l, late) = [s EXCEPT !.event = "BadLSReq"]
    BY <1>4, <2>1, Zenon DEF ospf_ls_upd
  <2> QED
    BY <2>2, EventGood, Zenon
<1>5. CASE s.state \in Flooding /\ current = l[2] /\ Entry(s.req, k) = {}
  <2> DEFINE t == [s EXCEPT !.rxmt = @ \ Entry(@, k)]
             p == [type |-> "ack", lsas |-> {l}]
  <2>1. ~(current < l[2])
    BY <1>1, <1>5
  <2>2. ospf_ls_upd(s, r, l, late) = IF Entry(s.rxmt, k) # {} THEN t ELSE Send(s, p)
    BY <1>5, <2>1, Zenon DEF ospf_ls_upd
  <2>3. /\ t \in RouterState /\ t.rxmt \subseteq s.rxmt
        /\ t.req = s.req /\ t.lsdb = s.lsdb /\ t.state = s.state /\ t.event = s.event
    BY Zenon DEF Good, RouterState
  <2>4. p \in Packets
    BY PacketKinds
  <2> HIDE DEF t, p
  <2>5. Good(t)
    BY <2>3 DEF Good, Lists
  <2> QED
    BY <2>2, <2>4, <2>5, SendGood
<1>6. CASE s.state \in Flooding /\ current > l[2] /\ Entry(s.req, k) = {}
  <2> DEFINE p == Update(<<k, current>>)
  <2>1. ~(current < l[2]) /\ current # l[2]
    BY <1>1, <1>6
  <2>2. ospf_ls_upd(s, r, l, late) = IF late THEN s ELSE Send(s, p)
    BY <1>6, <2>1, Zenon DEF ospf_ls_upd
  <2>3. current \in 1 .. MaxInst
    BY <1>1, <1>6, SMTT(60)
  <2>4. p \in Packets
    BY <1>1, <2>3, LsaPair, PacketKinds, SMTT(60) DEF Update
  <2> HIDE DEF p
  <2> QED
    BY <2>2, <2>4, SendGood
<1>7. current < l[2] \/ current = l[2] \/ current > l[2]
  BY <1>1
<1>8. current = l[2] \/ current > l[2] => current >= l[2]
  BY <1>1
<1> HIDE DEF current
<1> QED
  BY <1>2, <1>3, <1>4, <1>5, <1>6, <1>7, <1>8, SMTT(60)

LEMMA LsAckGood ==
  ASSUME NEW s, Good(s), NEW lsas
  PROVE  Good(ospf_ls_ack(s, lsas))
<1> DEFINE t == [s EXCEPT !.rxmt = @ \ lsas]
<1>1. /\ t \in RouterState /\ t.rxmt \subseteq s.rxmt
      /\ t.req = s.req /\ t.lsdb = s.lsdb /\ t.state = s.state /\ t.event = s.event
  BY Zenon DEF Good, RouterState
<1>2. ospf_ls_ack(s, lsas) = IF s.state \in Flooding THEN t ELSE s
  BY DEF ospf_ls_ack
<1> HIDE DEF t
<1>3. Good(t)
  BY <1>1 DEF Good, Lists
<1> QED
  BY <1>2, <1>3

LEMMA ReadGood ==
  ASSUME NEW s, Good(s), NEW r \in Routers, NEW p \in Packets, NEW late \in BOOLEAN, NEW now \in Nat
  PROVE  Good(ospf_read(s, r, p, late, now))
<1>1. CASE s.state = "Down"
  <2>1. ospf_read(s, r, p, late, now) = s
    BY <1>1, Zenon DEF ospf_read
  <2> QED
    BY <2>1
<1>2. CASE s.state # "Down" /\ p.type = "dd"
  <2>1. ospf_read(s, r, p, late, now) = ospf_db_desc(s, r, p, late, now)
    BY <1>2 DEF ospf_read
  <2> QED
    BY <1>2, <2>1, PacketFields, DescGood, SMTT(60)
<1>3. CASE s.state # "Down" /\ p.type = "req"
  <2>1. ospf_read(s, r, p, late, now) = ospf_ls_req(s, p.key)
    BY <1>3, SMTT(60) DEF ospf_read
  <2> QED
    BY <1>3, <2>1, PacketFields, LsReqGood, SMTT(60)
<1>4. CASE s.state # "Down" /\ p.type = "upd"
  <2>1. ospf_read(s, r, p, late, now) = ospf_ls_upd(s, r, p.lsa, late)
    BY <1>4 DEF ospf_read
  <2> QED
    BY <1>4, <2>1, PacketFields, LsUpdGood, SMTT(60)
<1>5. CASE s.state # "Down" /\ p.type = "ack"
  <2>1. ospf_read(s, r, p, late, now) = ospf_ls_ack(s, p.lsas)
    BY <1>5 DEF ospf_read
  <2> QED
    BY <2>1, LsAckGood
<1> QED
  BY <1>1, <1>2, <1>3, <1>4, <1>5, PacketFields

(***************************************************************************)
(* The actions.                                                            *)
(***************************************************************************)

\* One router takes a step.
LEMMA StepInv ==
  ASSUME Inv, NEW r \in Routers, NEW s, Good(s), node' = [node EXCEPT ![r] = s],
         faults' \in 0 .. MaxFaults
  PROVE  Inv'
<1>1. s \in RouterState
  BY DEF Good
<1>2. \A q \in Routers : node'[q] = IF q = r THEN s ELSE node[q]
  BY DEF Inv
<1>3. \A q \in Routers : Good(node'[q])
  BY <1>2 DEF Inv
<1>4. node' \in [Routers -> RouterState]
  BY <1>1 DEF Inv
<1> QED
  BY <1>3, <1>4 DEF Inv

\* Fewer packets are on the way.
LEMMA OutGood ==
  ASSUME NEW s, Good(s), NEW q \in Seq(Packets)
  PROVE  Good([s EXCEPT !.out = q])
<1> DEFINE t == [s EXCEPT !.out = q]
<1>1. /\ t \in RouterState /\ t.rxmt = s.rxmt
      /\ t.req = s.req /\ t.lsdb = s.lsdb /\ t.state = s.state /\ t.event = s.event
  BY Zenon DEF Good, RouterState
<1> HIDE DEF t
<1>2. Good(t)
  BY <1>1, SameLists DEF Good
<1> QED
  BY <1>2 DEF t

LEMMA FaultCount ==
  ASSUME Inv, NEW b \in BOOLEAN, Fault(b)
  PROVE  faults' \in 0 .. MaxFaults
BY OspfAssumption DEF Inv, Fault

LEMMA PeerRouter ==
  ASSUME NEW r \in Routers
  PROVE  Peer(r) \in Routers /\ Peer(r) # r
BY DEF Peer, Routers

LEMMA ReceiveInv ==
  ASSUME Inv, NEW r \in Routers, Receive(r)
  PROVE  Inv'
<1> DEFINE p == Peer(r)
<1>1. p \in Routers /\ p # r
  BY PeerRouter
<1>2. node[p].out \in Seq(Packets) /\ node[p].out # <<>>
  BY <1>1 DEF Receive, Inv, RouterState
<1>3. Head(node[p].out) \in Packets /\ Tail(node[p].out) \in Seq(Packets)
  BY <1>2
<1>4. Now \in Nat
  BY NowNat DEF Inv
<1>5. PICK late \in BOOLEAN :
        /\ Fault(late)
        /\ node' = [node EXCEPT
             ![r] = RunEvent(ospf_read(@, r, Head(node[p].out), late, Now), r, Now),
             ![p].out = Tail(@)]
  BY Zenon DEF Receive
<1> DEFINE s == RunEvent(ospf_read(node[r], r, Head(node[p].out), late, Now), r, Now)
           t == [node[p] EXCEPT !.out = Tail(node[p].out)]
<1>6. Good(node[r]) /\ Good(node[p])
  BY <1>1 DEF Inv
<1>7. Good(s)
  BY <1>3, <1>4, <1>6, ReadGood, RunEventGood, SMTT(60)
<1>8. Good(t)
  BY <1>3, <1>6, OutGood, Zenon
<1>9. faults' \in 0 .. MaxFaults
  BY <1>5, FaultCount
<1> DEFINE n == [node EXCEPT ![r] = s]
<1> HIDE DEF s
<1>10. node' = [n EXCEPT ![p] = t]
  <2>1. node' = [node EXCEPT ![r] = s, ![p].out = Tail(@)]
    BY <1>5, Zenon DEF s
  <2>2. n[p] = node[p]
    BY <1>1 DEF Inv
  <2> QED
    BY <1>1, <2>1, <2>2 DEF Inv
<1> HIDE DEF p, t
<1>11. node' \in [Routers -> RouterState] /\ \A q \in Routers : Good(node'[q])
  <2>1. s \in RouterState /\ t \in RouterState
    BY <1>7, <1>8 DEF Good
  <2>2. n \in [Routers -> RouterState]
    BY <2>1 DEF Inv
  <2>3. node' \in [Routers -> RouterState]
    BY <1>10, <2>1, <2>2, Zenon
  <2>4. \A q \in Routers : node'[q] \in {s, t, node[q]}
    BY <1>10, <2>2 DEF Inv
  <2> QED
    BY <1>7, <1>8, <2>3, <2>4, SMTT(60) DEF Inv
<1> QED
  BY <1>9, <1>11 DEF Inv

LEMMA HelloInv ==
  ASSUME Inv, NEW r \in Routers, Hello(r)
  PROVE  Inv'
<1> DEFINE up == ospf_nsm_event(node[r], r, "PacketReceived", Now)
           e == IF node[Peer(r)].state # "Down" THEN "TwoWayReceived" ELSE "OneWayReceived"
<1>1. Now \in Nat /\ Good(node[r])
  BY NowNat DEF Inv
<1>2. Good(up)
  BY <1>1, NsmEventGood
<1>3. e # "ExchangeDone" /\ e # "LoadingDone"
  OBVIOUS
<1>4. node' = [node EXCEPT ![r] = ospf_nsm_event(up, r, e, Now)] /\ faults' = faults
  BY Zenon DEF Hello
<1> HIDE DEF up, e
<1>5. Good(ospf_nsm_event(up, r, e, Now))
  BY <1>1, <1>2, <1>3, NsmEventGood, SMTT(60)
<1>6. faults' \in 0 .. MaxFaults
  BY <1>4 DEF Inv
<1> QED
  BY <1>4, <1>5, <1>6, StepInv, Zenon

LEMMA TimersInv ==
  ASSUME Inv, NEW r \in Routers, Timers(r)
  PROVE  Inv'
<1>1. Good(node[r]) /\ node[r] \in RouterState /\ faults \in 0 .. MaxFaults
  BY DEF Inv
<1>2. CASE ospf_db_desc_timer(r)
  <2>1. node' = [node EXCEPT ![r] = ospf_db_desc_resend(node[r])] /\ faults' = faults
    BY <1>2 DEF ospf_db_desc_timer
  <2> QED
    BY <1>1, <2>1, DescResendGood, StepInv, Zenon
<1>3. CASE ospf_ls_req_timer(r)
  <2>1. /\ node[r].req # {} /\ faults' = faults
        /\ node' = [node EXCEPT ![r] = ospf_ls_req_send(node[r])]
    BY <1>3 DEF ospf_ls_req_timer
  <2> QED
    BY <1>1, <2>1, ReqSendGood, StepInv, Zenon
<1>4. CASE ospf_ls_upd_timer(r)
  <2>1. PICK l \in node[r].rxmt : node' = [node EXCEPT ![r] = Send(node[r], Update(l))]
    BY <1>4, Zenon DEF ospf_ls_upd_timer
  <2>2. faults' = faults
    BY <1>4 DEF ospf_ls_upd_timer
  <2>3. l \in LSAs
    BY <1>1 DEF RouterState
  <2>4. Update(l) \in Packets
    BY <2>3, PacketKinds, SMTT(60) DEF Update
  <2> QED
    BY <1>1, <2>1, <2>2, <2>4, SendGood, StepInv, Zenon
<1>5. CASE ospf_ls_ack_timer(r)
  <2> DEFINE s == [node[r] EXCEPT !.acks = {}]
             p == [type |-> "ack", lsas |-> node[r].acks]
  <2>1. node' = [node EXCEPT ![r] = Send(s, p)] /\ faults' = faults
    BY <1>5, Zenon DEF ospf_ls_ack_timer
  <2>2. node[r].acks \in SUBSET LSAs
    BY <1>1, SMTT(60) DEF RouterState
  <2>3. p \in Packets
    BY <2>2, PacketKinds, SMTT(60)
  <2>4. /\ s \in RouterState /\ s.rxmt = node[r].rxmt /\ s.req = node[r].req
        /\ s.lsdb = node[r].lsdb /\ s.state = node[r].state /\ s.event = node[r].event
    BY <1>1, Zenon DEF RouterState
  <2> HIDE DEF s, p
  <2>5. Good(s)
    BY <1>1, <2>4, SameLists DEF Good
  <2> QED
    BY <1>1, <2>1, <2>3, <2>5, SendGood, StepInv, Zenon
<1> QED
  BY <1>2, <1>3, <1>4, <1>5, SMTT(60) DEF Timers

\* The link falls quiet when a router has stopped.
LEMMA QuietInv ==
  ASSUME Inv, NEW r \in Routers, NEW s, Good(s), node' = LinkIsQuiet([node EXCEPT ![r] = s]),
         faults' \in 0 .. MaxFaults
  PROVE  Inv'
<1> DEFINE n == [node EXCEPT ![r] = s]
<1>1. n \in [Routers -> RouterState] /\ \A q \in Routers : Good(n[q])
  BY DEF Inv, Good
<1> HIDE DEF n
<1>2. <<>> \in Seq(Packets)
  OBVIOUS
<1>3. \A q \in Routers : Good([n[q] EXCEPT !.out = <<>>])
  BY <1>1, <1>2, OutGood, Zenon
<1>4. node' = [q \in Routers |-> [n[q] EXCEPT !.out = <<>>]]
  BY DEF LinkIsQuiet, n
<1>5. \A q \in Routers : node'[q] = [n[q] EXCEPT !.out = <<>>]
  BY <1>4, Zenon
<1>6. \A q \in Routers : Good(node'[q])
  BY <1>3, <1>5, Zenon
<1>7. node' \in [Routers -> RouterState]
  BY <1>4, <1>3, Zenon DEF Good
<1> QED
  BY <1>6, <1>7, Zenon DEF Inv

\* The record that ospfd starts with.
LEMMA StartedGood ==
  ASSUME NEW r \in Routers
  PROVE  Good(Started(r))
<1> DEFINE lsdb == [k \in Keys |-> IF k = r THEN Initial ELSE 0]
<1>1. lsdb \in [Keys -> 0 .. MaxInst]
  BY OspfAssumption DEF Initial
<1>2. <<{}, 0>> \in (SUBSET Flags) \X Nat /\ <<>> \in Seq(Packets) /\ "Down" \in States
  BY SMTT(60) DEF States
<1>3. Started(r) \in RouterState
  <2> HIDE DEF lsdb
  <2>1. Started(r) =
          [state |-> "Down", seq |-> 0, flags |-> {}, last |-> <<{}, 0>>, sent |-> <<>>,
           sum |-> {}, req |-> {}, reqLast |-> {}, rxmt |-> {}, event |-> "none",
           lsdb |-> lsdb, acks |-> {}, out |-> <<>>]
    BY DEF Started, lsdb
  <2> QED
    BY <1>1, <1>2, <2>1, SMTT(60) DEF RouterState
<1>4. Started(r).req = {} /\ Started(r).rxmt = {}
  BY DEF Started
<1> QED
  BY <1>3, <1>4 DEF Good, Lists

LEMMA DeadInv ==
  ASSUME Inv, NEW r \in Routers, Dead(r)
  PROVE  Inv'
<1> DEFINE t == nsm_change_state(node[r], r, "Down", Now)
           s == NoNeighbour(t)
<1>1. Now \in Nat /\ Good(node[r]) /\ "Down" \in States
  BY NowNat DEF Inv, States
<1>2. Good(t)
  BY <1>1, ChangeStateGood
<1>3. node' = LinkIsQuiet([node EXCEPT ![r] = s])
  BY Zenon DEF Dead
<1> HIDE DEF t
<1>4. <<{}, 0>> \in (SUBSET Flags) \X Nat /\ <<>> \in Seq(Packets)
  OBVIOUS
<1>5. s \in RouterState /\ s.req = {} /\ s.rxmt = {}
  BY <1>1, <1>2, <1>4, Zenon DEF NoNeighbour, Good, RouterState
<1>6. Good(s)
  <2> HIDE DEF s
  <2> QED
    BY <1>5 DEF Good, Lists
<1>7. faults' \in 0 .. MaxFaults
  BY FaultCount, Zenon DEF Dead
<1> HIDE DEF s
<1> QED
  BY <1>3, <1>6, <1>7, QuietInv, SMTT(60)

LEMMA LearnInv ==
  ASSUME Inv, NEW r \in Routers, NEW k \in Keys, Learn(r, k)
  PROVE  Inv'
<1> DEFINE n == node[r]
           l == <<k, n.lsdb[k] + 1>>
           s == ospf_ls_retransmit_delete_nbr(n, <<k, l[2] - 1>>)
           f == ospf_flood_through_interface(s, l, FALSE)
           t == ospf_lsa_install(f, l)
<1>1. Now \in Nat /\ Good(n) /\ n \in RouterState
  BY NowNat, SMTT(60) DEF Inv
<1>2. n.lsdb[k] \in 0 .. MaxInst /\ n.lsdb[k] < MaxInst
  BY <1>1 DEF Learn, RouterState
<1>3. n.lsdb[k] + 1 \in 1 .. MaxInst /\ l[2] - 1 = n.lsdb[k]
  BY <1>2, OspfAssumption
<1>4. l \in LSAs /\ l[1] = k
  BY <1>3, LsaPair
<1>5. node' = [node EXCEPT ![r] = RunEvent(t, r, Now)] /\ faults' = faults
  BY Zenon DEF Learn, Step
<1> HIDE DEF n, l
<1>6. /\ s \in RouterState /\ s.rxmt = n.rxmt \ {<<k, n.lsdb[k]>>}
      /\ s.lsdb = n.lsdb /\ s.req = n.req /\ s.state = n.state /\ s.event = n.event
  BY <1>1, <1>3, RetransmitDeleteFields
<1> HIDE DEF s
<1>7. Requests(s)
  BY <1>1, <1>6, GoodRequests DEF Requests
<1>8. Flooded(s, l, f)
  BY <1>4, <1>7, FloodFlooded, Zenon
<1> HIDE DEF f
<1>9. f \in RouterState
  BY <1>8 DEF Flooded, Requests
<1>10. /\ t \in RouterState /\ t.lsdb = [f.lsdb EXCEPT ![l[1]] = l[2]]
       /\ t.req = f.req /\ t.rxmt = f.rxmt /\ t.state = f.state /\ t.event = f.event
  BY <1>4, <1>9, InstallFields
<1> HIDE DEF t
<1>11. Requests(t)
  BY <1>8, <1>10 DEF Flooded, Requests
<1>12. /\ t.lsdb = [n.lsdb EXCEPT ![l[1]] = l[2]] /\ t.req \subseteq n.req
       /\ \A q \in t.req : q[1] = l[1] => q[2] > l[2]
  BY <1>6, <1>8, <1>10 DEF Flooded
<1>13. \A m \in t.rxmt : m = l \/ (m \in n.rxmt /\ m # <<l[1], n.lsdb[l[1]]>>)
  BY <1>4, <1>6, <1>8, <1>10, SMTT(60) DEF Flooded
<1>14. Good(t)
  BY <1>1, <1>4, <1>11, <1>12, <1>13, InstalledLists, SMTT(60)
<1>15. Good(RunEvent(t, r, Now)) /\ faults' \in 0 .. MaxFaults
  BY <1>1, <1>5, <1>14, RunEventGood DEF Inv
<1> QED
  BY <1>5, <1>15, StepInv, Zenon

LEMMA InitInv ==
  ASSUME Init
  PROVE  Inv
<1>1. \A r \in Routers : node[r] = Started(r) /\ Good(Started(r))
  BY StartedGood DEF Init
<1>2. node \in [Routers -> RouterState]
  BY <1>1 DEF Init, Good
<1> QED
  BY <1>1, <1>2, OspfAssumption DEF Init, Inv

LEMMA NextInv ==
  ASSUME Inv, [Next]_vars
  PROVE  Inv'
<1>1. CASE UNCHANGED vars
  BY <1>1 DEF Inv, vars
<1>2. ASSUME NEW r \in Routers, Lose(r)
      PROVE  Inv'
  <2>1. Good(node[r]) /\ node[r].out \in Seq(Packets) /\ node[r].out # <<>>
    BY <1>2 DEF Inv, RouterState, Lose
  <2>2. Tail(node[r].out) \in Seq(Packets)
    BY <2>1
  <2> DEFINE s == [node[r] EXCEPT !.out = Tail(node[r].out)]
  <2>3. Good(s)
    BY <2>1, <2>2, OutGood, Zenon
  <2>4. node' = [node EXCEPT ![r] = s]
    BY <1>2 DEF Lose
  <2>5. faults' \in 0 .. MaxFaults
    BY <1>2, FaultCount, Zenon DEF Lose
  <2> QED
    BY <2>3, <2>4, <2>5, StepInv, Zenon
<1>3. ASSUME NEW r \in Routers, Crash(r)
      PROVE  Inv'
  <2>1. node' = LinkIsQuiet([node EXCEPT ![r] = Started(r)])
    BY <1>3 DEF Crash
  <2>2. faults' \in 0 .. MaxFaults
    BY <1>3, FaultCount, Zenon DEF Crash
  <2> QED
    BY <2>1, <2>2, StartedGood, QuietInv
<1> QED
  BY <1>1, <1>2, <1>3, ReceiveInv, HelloInv, TimersInv, DeadInv, LearnInv, Zenon DEF Next

(***************************************************************************)
(* Theorems.                                                               *)
(***************************************************************************)

LEMMA Always == Spec => []Inv
BY InitInv, NextInv, PTL DEF Spec

\* Every router record keeps its type: sequence numbers stay numbers, packets hold
\* LSAs, and ospf_ls_req_send always finds a first LSA to ask for.
THEOREM TypeTheorem == Spec => []TypeOK
<1>1. Inv => TypeOK
  BY DEF Inv, TypeOK
<1> QED
  BY <1>1, Always, PTL

\* What ospf_ls_upd_timer sends again is the database copy, in every topology of
\* LSAs and whatever is lost, late or restarted.
THEOREM RetransmitsTheorem == Spec => []RetransmitsCurrent
<1>1. Inv => RetransmitsCurrent
  BY DEF Inv, Good, Lists, RetransmitsCurrent
<1> QED
  BY <1>1, Always, PTL

\* What is on ls_req is newer than the database copy.
THEOREM RequestsTheorem == Spec => []RequestsNewer
<1>1. Inv => RequestsNewer
  BY DEF Inv, Good, Lists, RequestsNewer
<1> QED
  BY <1>1, Always, PTL

=============================================================================
