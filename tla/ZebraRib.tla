------------------------------ MODULE ZebraRib ------------------------------
(***************************************************************************)
(* The routing table of zebra (zebra/zebra_rib.c): the entries that        *)
(* clients, interfaces and the configuration put on a destination, the     *)
(* meta queue through which destinations are processed, the choice of the  *)
(* entry that goes to the kernel, and what a client that redistributes is  *)
(* told.  The kernel's table and the interfaces are the environment.       *)
(***************************************************************************)
EXTENDS Naturals, Sequences, FiniteSets

CONSTANTS
    NumDests,      (* destinations (route nodes) 1..NumDests, in table order *)
    Ifs,           (* interfaces; a gateway is named by its interface        *)
    ConnOf,        (* [Ifs -> destinations]: the interface's own prefix      *)
    Inside,        (* [Ifs -> sets of destinations]: the longer prefixes     *)
                   (* that contain the gateway                               *)
    ClientTypes,   (* route types of the daemons that send routes            *)
    ClientRoutes,  (* what they may send: set of [type, dest, nhs]           *)
    StaticRoutes,  (* "ip route" lines that may be configured: [dest, nh]    *)
    Distance,      (* [types -> 0..255], rib->distance                       *)
    Metric,        (* [types -> Nat], rib->metric                            *)
    RedistTypes,   (* types that the redistributing client may ask for       *)
    KernelRefuses, (* destinations whose routes the kernel may refuse        *)
    MaxRoutes,     (* bound: entries of a destination, removed ones included *)
    MaxQueue       (* bound: entries that wait when another event comes     *)

Dests == 1..NumDests

\* MQ_SIZE sub-queues, and the sub-queue of a type.
SubQueues == 0..4

RouteTypes == {"connect", "kernel", "static", "ospf", "bgp"}

meta_queue_map ==
    [t \in RouteTypes |-> CASE t \in {"connect", "kernel"} -> 0
                            [] t = "static" -> 1
                            [] t = "ospf" -> 2
                            [] t = "bgp" -> 3]

DISTANCE_INFINITY == 255

ASSUME ZebraAssumption ==
    /\ NumDests \in Nat
    /\ ConnOf \in [Ifs -> Dests]
    /\ \A i, j \in Ifs : ConnOf[i] = ConnOf[j] => i = j
    /\ Inside \in [Ifs -> SUBSET Dests]
    /\ \A i, j \in Ifs : ConnOf[j] \notin Inside[i]
    /\ ClientTypes \subseteq {"ospf", "bgp"}
    /\ ClientRoutes \subseteq [type : ClientTypes, dest : Dests, nhs : SUBSET Ifs]
    /\ StaticRoutes \subseteq [dest : Dests, nh : Ifs]
    /\ Distance \in [RouteTypes -> 0..DISTANCE_INFINITY]
    /\ Metric \in [RouteTypes -> Nat]
    /\ RedistTypes \subseteq RouteTypes
    /\ KernelRefuses \subseteq Dests
    /\ MaxRoutes \in Nat
    /\ MaxQueue \in Nat

VARIABLES
    table,    (* [routes, flags, subq, ribq]: the table and its queues        *)
    ifup,     (* interfaces that are operative                                *)
    statics,  (* the configured static routes                                 *)
    kernel,   (* the kernel's routes that zebra installed: next-hop sets      *)
    redist,   (* types the redistributing client has asked for                *)
    told      (* types of route the client has been told, per destination     *)

vars == <<table, ifup, statics, kernel, redist, told>>

(***************************************************************************)
(* struct rib.  active and fib are the next hops with NEXTHOP_FLAG_ACTIVE  *)
(* and NEXTHOP_FLAG_FIB.                                                   *)
(***************************************************************************)
Rib == [type : RouteTypes, nhs : SUBSET Ifs, removed : BOOLEAN,
        selected : BOOLEAN, active : SUBSET Ifs, fib : SUBSET Ifs]

NewRib(type, nhs) ==
    [type |-> type, nhs |-> nhs, removed |-> FALSE, selected |-> FALSE,
     active |-> {}, fib |-> IF type \in {"connect", "kernel"} THEN nhs ELSE {}]

\* RIB_SYSTEM_ROUTE: the kernel has these without zebra's doing.
SystemRoute(r) == r.type \in {"connect", "kernel"}

EmptyTable ==
    [routes |-> [d \in Dests |-> <<>>],          \* dest->routes, newest first
     flags  |-> [d \in Dests |-> {}],            \* RIB_ROUTE_QUEUED(q)
     subq   |-> [q \in SubQueues |-> <<>>],      \* mq->subq
     ribq   |-> FALSE]                           \* the meta queue is an item of ribq

Waits(t, d, q) == \E n \in DOMAIN t.subq[q] : t.subq[q][n] = d
Queued(t, d) == \E q \in SubQueues : Waits(t, d, q)

-----------------------------------------------------------------------------
(* Queueing.                                                               *)

\* The sub-queues a destination belongs to and is not flagged for.
Lacking(t, d) ==
    {meta_queue_map[t.routes[d][n].type] : n \in DOMAIN t.routes[d]} \ t.flags[d]

\* rib_queue_add and rib_meta_queue_add.
rib_queue_add(t, d) ==
    IF t.routes[d] = <<>>
    THEN t
    ELSE [t EXCEPT !.flags[d] = @ \cup Lacking(t, d),
                   !.subq = [q \in SubQueues |-> IF q \in Lacking(t, d)
                                                 THEN Append(@[q], d) ELSE @[q]],
                   !.ribq = TRUE]

\* Mutant: only the destinations that wait already are looked at again.
rib_updateQueued(t) ==
    LET after[d \in 0..NumDests] ==
            IF d = 0 THEN t
            ELSE IF t.flags[d] = {} THEN after[d - 1] ELSE rib_queue_add(after[d - 1], d)
    IN  after[NumDests]

\* rib_update: every destination that has entries, in table order.
rib_update(t) ==
    LET after[d \in 0..NumDests] ==
            IF d = 0 THEN t ELSE rib_queue_add(after[d - 1], d)
    IN  after[NumDests]

\* Positions of the entries of a type that are not removed yet.
Live(t, d, type) ==
    {n \in DOMAIN t.routes[d] : t.routes[d][n].type = type /\ ~t.routes[d][n].removed}

Remove(t, d, N) ==
    [t EXCEPT !.routes[d] = [n \in DOMAIN @ |-> IF n \in N THEN [@[n] EXCEPT !.removed = TRUE]
                                                           ELSE @[n]]]

\* Mutant: the destination is not queued.
rib_delnodeUnqueued(t, d, N) == Remove(t, d, N)

\* rib_delnode of the entries at positions N.
rib_delnode(t, d, N) ==
    IF N = {} THEN t ELSE rib_queue_add(Remove(t, d, N), d)

\* rib_addnode of a new entry: rib_link puts it at the head of the list.
rib_addnode(t, d, r) ==
    rib_queue_add([t EXCEPT !.routes[d] = <<r>> \o @], d)

\* rib_add_ipv4, rib_add_ipv4_multipath: an entry of the same type is
\* withdrawn, unless it is a connected route.
rib_add_ipv4(t, d, r) ==
    rib_addnode(IF r.type = "connect" THEN t ELSE Remove(t, d, Live(t, d, r.type)), d, r)

\* Bounds: room for one more entry, and not too much that waits already.
Room(t) ==
    /\ \A d \in Dests : Len(t.routes[d]) < MaxRoutes
    /\ Len(t.subq[0]) + Len(t.subq[1]) + Len(t.subq[2]) + Len(t.subq[3])
          + Len(t.subq[4]) <= MaxQueue

-----------------------------------------------------------------------------
(* Processing of a destination.                                            *)

\* The entry of a destination that resolves a gateway, if any.
Match(t, c) ==
    {n \in DOMAIN t.routes[c] : ~t.routes[c][n].removed /\ t.routes[c][n].selected}

\* nexthop_active_ipv4: the longest prefix that contains the gateway and has a
\* selected entry other than BGP's has a connected one, and the destination
\* itself is not met on the way.
GatewayActive(t, d, i) ==
    /\ d \notin Inside[i] \cup {ConnOf[i]}
    /\ \A c \in Inside[i] : \A n \in Match(t, c) : t.routes[c][n].type = "bgp"
    /\ \E n \in Match(t, ConnOf[i]) : t.routes[ConnOf[i]][n].type = "connect"

\* nexthop_active_check over the next hops of an entry.
ActiveHops(t, up, d, r) ==
    {i \in r.nhs : IF r.type = "connect" THEN i \in up ELSE GatewayActive(t, d, i)}

\* nexthop_active_update on the entries that are not removed.
Refreshed(t, up, d) ==
    [n \in DOMAIN t.routes[d] |->
        LET r == t.routes[d][n]
        IN  IF r.removed THEN r ELSE [r EXCEPT !.active = ActiveHops(t, up, d, r)]]

Usable(r) == ~r.removed /\ r.active # {} /\ Distance[r.type] # DISTANCE_INFINITY

\* Does r, further down the list, replace the current choice?
Replaces(r, select) ==
    IF r.type = "connect"
    THEN select.type = "connect" => Metric[r.type] <= Metric[select.type]
    ELSE /\ select.type # "connect"
         /\ \/ Distance[r.type] < Distance[select.type]
            \/ /\ Distance[r.type] = Distance[select.type]
               /\ Metric[r.type] <= Metric[select.type]

\* The loop of rib_process: position of the winner, 0 if there is none.
Selection(rs) ==
    LET select[n \in 0..Len(rs)] ==
            IF n = 0 THEN 0
            ELSE LET s == select[n - 1]
                 IN  IF Usable(rs[n]) /\ (s = 0 \/ Replaces(rs[n], rs[s])) THEN n ELSE s
    IN  select[Len(rs)]

Selected(rs) == {n \in DOMAIN rs : rs[n].selected}

\* Mutant: an entry that is being removed is withdrawn by nobody.
WithdrawnLive(ts, r) == IF r.type \in redist /\ ~r.removed THEN ts \ {r.type} ELSE ts

\* redistribute_delete, redistribute_add: what the client then has been told.
Withdrawn(ts, r) == IF r.type \in redist THEN ts \ {r.type} ELSE ts
Announced(ts, r) == IF r.type \in redist THEN ts \cup {r.type} ELSE ts

\* Mutant: an entry that is being removed stays in the kernel.
KernelWithoutLive(ks, r) == IF SystemRoute(r) \/ r.removed THEN ks ELSE ks \ {r.fib}

\* rib_uninstall_kernel, rib_install_kernel.
KernelWithout(ks, r) == IF SystemRoute(r) THEN ks ELSE ks \ {r.fib}
KernelWith(ks, r, ok) == IF SystemRoute(r) \/ ~ok THEN ks ELSE ks \cup {r.active}
Installed(r, ok) == IF SystemRoute(r) THEN r ELSE [r EXCEPT !.fib = IF ok THEN r.active ELSE {}]
Uninstalled(r) == IF SystemRoute(r) THEN r ELSE [r EXCEPT !.fib = {}]

\* Mutant: the old entry stays selected when the new one takes over.
rib_processKeepsOld(t, d, ok) ==
    LET rs == Refreshed(t, ifup, d)
        s  == Selection(rs)
    IN  [routes |-> [n \in DOMAIN rs |-> IF n = s THEN [Installed(rs[n], ok) EXCEPT !.selected = TRUE]
                                                  ELSE rs[n]],
         kernel |-> IF s = 0 THEN kernel[d] ELSE KernelWith(kernel[d], rs[s], ok),
         told   |-> IF s = 0 THEN told[d] ELSE Announced(told[d], rs[s])]

\* The result of rib_process(d) up to the unlinking of removed entries: the
\* entries, the kernel's routes of d and what the client has been told of d.
\* ok: the kernel takes the route that is installed.
rib_process(t, d, ok) ==
    LET old  == t.routes[d]
        rs   == Refreshed(t, ifup, d)
        s    == Selection(rs)
        fib  == IF Selected(old) = {} THEN 0 ELSE CHOOSE n \in Selected(old) : TRUE
        keep == s # 0 /\ s = fib
        changed == rs[s].active # old[s].active
        reinstall == keep /\ (changed \/ (~SystemRoute(rs[s]) /\ rs[s].fib = {}))
        out  == fib # 0 /\ (~keep \/ changed)
        in   == s # 0 /\ (~keep \/ reinstall)
        k1   == IF out THEN KernelWithout(kernel[d], old[fib]) ELSE kernel[d]
        t1   == IF out THEN Withdrawn(told[d], old[fib]) ELSE told[d]
    IN  [routes |-> [n \in DOMAIN rs |->
                        LET r == IF n = fib /\ out THEN Uninstalled(rs[n]) ELSE rs[n]
                            x == IF n = s /\ in THEN Installed(r, ok) ELSE r
                        IN  [x EXCEPT !.selected = (n = s)]],
         kernel |-> IF in THEN KernelWith(k1, rs[s], ok) ELSE k1,
         told   |-> IF in /\ (~keep \/ changed) THEN Announced(t1, rs[s]) ELSE t1]

\* rib_unlink: the entries that are not removed, in their order.
Kept(rs) ==
    LET kept[n \in 0..Len(rs)] ==
            IF n = 0 THEN <<>>
            ELSE IF rs[n].removed THEN kept[n - 1] ELSE Append(kept[n - 1], rs[n])
    IN  kept[Len(rs)]

\* meta_queue_process and process_subq: the head of the first non-empty
\* sub-queue.  An entry-less destination loses its rib_dest_t, flags and all.
\* The item goes back to ribq while the meta queue has work.
Process ==
    /\ table.ribq
    /\ \E q \in SubQueues, ok \in BOOLEAN :
         /\ table.subq[q] # <<>>
         /\ \A p \in SubQueues : p < q => table.subq[p] = <<>>
         /\ ok \/ Head(table.subq[q]) \in KernelRefuses
         /\ LET d  == Head(table.subq[q])
                x  == rib_process(table, d, ok)
                rs == Kept(x.routes)
                sq == [table.subq EXCEPT ![q] = Tail(@)]
            IN  /\ table' = [routes |-> [table.routes EXCEPT ![d] = rs],
                             flags  |-> [table.flags EXCEPT ![d] =
                                            IF rs = <<>> THEN {} ELSE @ \ {q}],
                             subq   |-> sq,
                             ribq   |-> \E p \in SubQueues : sq[p] # <<>>]
                /\ kernel' = [kernel EXCEPT ![d] = x.kernel]
                /\ told' = [told EXCEPT ![d] = x.told]
    /\ UNCHANGED <<ifup, statics, redist>>

-----------------------------------------------------------------------------
(* Daemons that are clients of zebra.                                      *)

\* zread_ipv4_add.
ClientAdd(c) ==
    /\ Room(table)
    /\ table' = rib_add_ipv4(table, c.dest, NewRib(c.type, c.nhs))
    /\ UNCHANGED <<ifup, statics, kernel, redist, told>>

\* zread_ipv4_delete: rib_delete_ipv4 of the type, if the gateway given is one
\* of the entry's or none is given.
ClientDelete(c) ==
    /\ Room(table)
    /\ \E n \in Live(table, c.dest, c.type) :
          /\ c.nhs = {} \/ c.nhs \cap table.routes[c.dest][n].nhs # {}
          /\ table' = rib_delnode(table, c.dest, {n})
    /\ UNCHANGED <<ifup, statics, kernel, redist, told>>

\* rib_score_proto: the entries of a type, in table order.
rib_score_proto(t, type) ==
    LET after[d \in 0..NumDests] ==
            IF d = 0 THEN t ELSE rib_delnode(after[d - 1], d, Live(t, d, type))
    IN  after[NumDests]

\* zebra_client_close, zebra_score_rib: the daemon went away, its routes go.
ClientClose(type) ==
    /\ Room(table)
    /\ \E d \in Dests : Live(table, d, type) # {}
    /\ table' = rib_score_proto(table, type)
    /\ UNCHANGED <<ifup, statics, kernel, redist, told>>

\* zebra_redistribute_add: the client asks for a type and is told what is
\* selected.
RedistributeAdd(type) ==
    /\ type \notin redist
    /\ redist' = redist \cup {type}
    /\ told' = [d \in Dests |->
                   IF \E n \in Selected(table.routes[d]) : table.routes[d][n].type = type
                   THEN told[d] \cup {type} ELSE told[d]]
    /\ UNCHANGED <<table, ifup, statics, kernel>>

\* zebra_redistribute_delete; the client drops what it was told by itself.
RedistributeDelete(type) ==
    /\ type \in redist
    /\ redist' = redist \ {type}
    /\ told' = [d \in Dests |-> told[d] \ {type}]
    /\ UNCHANGED <<table, ifup, statics, kernel>>

-----------------------------------------------------------------------------
(* Interfaces and configuration.                                           *)

\* if_up: the connected route, then everything is looked at again.
InterfaceUp(i) ==
    /\ Room(table)
    /\ i \notin ifup
    /\ ifup' = ifup \cup {i}
    /\ table' = rib_update(rib_add_ipv4(table, ConnOf[i], NewRib("connect", {i})))
    /\ UNCHANGED <<statics, kernel, redist, told>>

\* The kernel drops the routes all of whose next hops are gone; if_down.
InterfaceDown(i) ==
    /\ Room(table)
    /\ i \in ifup
    /\ ifup' = ifup \ {i}
    /\ kernel' = [d \in Dests |-> {ks \in kernel[d] : ks \cap (ifup \ {i}) # {}}]
    /\ table' = rib_update(rib_delnode(table, ConnOf[i],
                    {n \in Live(table, ConnOf[i], "connect") :
                        table.routes[ConnOf[i]][n].nhs = {i}}))
    /\ UNCHANGED <<statics, redist, told>>

\* nexthop_ipv4_add on the entries at positions N.
Joined(rs, N, nh) ==
    [n \in DOMAIN rs |-> IF n \in N THEN [rs[n] EXCEPT !.nhs = @ \cup {nh}] ELSE rs[n]]

\* static_install_ipv4: a next hop of the static entry, or a new entry.
static_install_ipv4(t, s) ==
    LET live == Live(t, s.dest, "static")
    IN  IF live = {}
        THEN rib_addnode(t, s.dest, NewRib("static", {s.nh}))
        ELSE rib_queue_add([t EXCEPT !.routes[s.dest] = Joined(@, live, s.nh)], s.dest)

\* static_add_ipv4_safi.
StaticAdd(s) ==
    /\ Room(table)
    /\ s \notin statics
    /\ statics' = statics \cup {s}
    /\ table' = static_install_ipv4(table, s)
    /\ UNCHANGED <<ifup, kernel, redist, told>>

\* static_delete_ipv4_safi, static_uninstall_ipv4: the last next hop takes the
\* entry with it; one that is in the kernel is uninstalled first (rib_uninstall
\* withdraws the entry from the client and unselects it).
StaticDelete(s) ==
    /\ Room(table)
    /\ s \in statics
    /\ statics' = statics \ {s}
    /\ \E n \in Live(table, s.dest, "static") :
         LET r     == table.routes[s.dest][n]
             purge == s.nh \in r.fib /\ r.selected
             left  == [r EXCEPT !.nhs = @ \ {s.nh}, !.active = @ \ {s.nh},
                                !.fib = IF purge THEN {} ELSE @ \ {s.nh},
                                !.selected = @ /\ ~purge]
         IN  IF r.nhs = {s.nh}
             THEN /\ table' = rib_delnode(table, s.dest, {n})
                  /\ UNCHANGED <<kernel, told>>
             ELSE /\ table' = rib_queue_add([table EXCEPT !.routes[s.dest][n] = left], s.dest)
                  /\ kernel' = IF purge
                               THEN [kernel EXCEPT ![s.dest] = KernelWithout(@, r)] ELSE kernel
                  /\ told' = IF purge
                             THEN [told EXCEPT ![s.dest] = Withdrawn(@, r)] ELSE told
    /\ UNCHANGED <<ifup, redist>>

-----------------------------------------------------------------------------
(* zebra stops or crashes, and is started again (main).                    *)

\* Some order of a finite set: that of the kernel's answers, of the file.
Order(S) ==
    CHOOSE f \in [1..Cardinality(S) -> S] : \A a, b \in DOMAIN f : f[a] = f[b] => a = b

\* interface_lookup_netlink: the connected routes of the interfaces.
interface_lookup(up) ==
    LET after[n \in 0..Cardinality(up)] ==
            IF n = 0 THEN EmptyTable
            ELSE rib_add_ipv4(after[n - 1], ConnOf[Order(up)[n]],
                              NewRib("connect", {Order(up)[n]}))
    IN  after[Cardinality(up)]

\* The routes that are in the kernel when zebra starts: rib_close takes out
\* those that are selected if zebra stops in order.
LeftInKernel(inOrder) ==
    [d \in Dests |->
        IF ~inOrder THEN kernel[d]
        ELSE kernel[d] \ {table.routes[d][n].fib :
                 n \in {m \in Selected(table.routes[d]) : ~SystemRoute(table.routes[d][m])}}]

\* The one of several routes of a destination that is read last.
LastRead(left, d) == CHOOSE ks \in SUBSET Ifs : left[d] # {} => ks \in left[d]

\* netlink_routing_table on every route of zebra that is left.
netlink_route_read(t, left) ==
    LET after[d \in 0..NumDests] ==
            IF d = 0 THEN t
            ELSE IF left[d] = {} THEN after[d - 1]
            ELSE rib_add_ipv4(after[d - 1], d, NewRib("kernel", LastRead(left, d)))
    IN  after[NumDests]

\* vty_read_config: the "ip route" lines.
vty_read_config(t, S) ==
    LET after[n \in 0..Cardinality(S)] ==
            IF n = 0 THEN t ELSE static_install_ipv4(after[n - 1], Order(S)[n])
    IN  after[Cardinality(S)]

\* rib_sweep_table: the routes of an earlier zebra go.
Swept(t, d) == rib_delnode(t, d, Live(t, d, "kernel"))

rib_sweep_table(t) ==
    LET after[d \in 0..NumDests] ==
            IF d = 0 THEN t ELSE Swept(after[d - 1], d)
    IN  after[NumDests]

(***************************************************************************)
(* The kernel still has the routes, unless zebra stopped in order.         *)
(* Interfaces are read, then the kernel's routes, then the configuration;  *)
(* the routes that an earlier zebra left are swept.  The clients have to   *)
(* connect anew.                                                           *)
(***************************************************************************)
Restart(inOrder) ==
    LET left == LeftInKernel(inOrder)
        read == netlink_route_read(interface_lookup(ifup), left)
    IN  /\ table' = rib_sweep_table(vty_read_config(read, statics))
        /\ kernel' = [d \in Dests |-> left[d] \ {LastRead(left, d)}]
        /\ redist' = {}
        /\ told' = [d \in Dests |-> {}]
        /\ UNCHANGED <<ifup, statics>>

-----------------------------------------------------------------------------

Init ==
    /\ table = EmptyTable
    /\ ifup = {}
    /\ statics = {}
    /\ kernel = [d \in Dests |-> {}]
    /\ redist = {}
    /\ told = [d \in Dests |-> {}]

Next ==
    \/ Process
    \/ \E c \in ClientRoutes : ClientAdd(c) \/ ClientDelete(c)
    \/ \E type \in ClientTypes : ClientClose(type)
    \/ \E type \in RedistTypes : RedistributeAdd(type) \/ RedistributeDelete(type)
    \/ \E i \in Ifs : InterfaceUp(i) \/ InterfaceDown(i)
    \/ \E s \in StaticRoutes : StaticAdd(s) \/ StaticDelete(s)
    \/ \E inOrder \in BOOLEAN : Restart(inOrder)

Spec == Init /\ [][Next]_vars

-----------------------------------------------------------------------------
(* Properties.                                                             *)

\* The table, the queues, the kernel's routes and what the client was told have
\* the types of struct rib, rib_dest_t and struct meta_queue.
TypeOK ==
    /\ table \in [routes : [Dests -> Seq(Rib)], flags : [Dests -> SUBSET SubQueues],
                  subq : [SubQueues -> Seq(Dests)], ribq : BOOLEAN]
    /\ ifup \subseteq Ifs
    /\ statics \subseteq StaticRoutes
    /\ kernel \in [Dests -> SUBSET (SUBSET Ifs)]
    /\ redist \subseteq RouteTypes
    /\ told \in [Dests -> SUBSET RouteTypes]

\* rib_process asserts that at most one entry of a destination is selected,
\* over static updates, restarts and implicit withdrawals in any order.
OneSelected ==
    \A d \in Dests : Cardinality(Selected(table.routes[d])) <= 1

\* No work is lost: an entry that rib_delnode marked belongs to a destination
\* that waits in a sub-queue; a flag RIB_ROUTE_QUEUED(q) means that the
\* destination is in sub-queue q (or it would not be queued again); the meta
\* queue is an item of ribq when it has work; and a configured static route is a
\* next hop of its destination's static entry.
NothingIsLost ==
    /\ \A d \in Dests :
          /\ \A n \in DOMAIN table.routes[d] : table.routes[d][n].removed => Queued(table, d)
          /\ \A q \in table.flags[d] : Waits(table, d, q)
    /\ table.ribq <=> \E q \in SubQueues : table.subq[q] # <<>>
    /\ \A s \in statics : \E n \in Live(table, s.dest, "static") :
          s.nh \in table.routes[s.dest][n].nhs

\* The reference for the choice: connected before others, then distance, then
\* metric, then the older (later in the list) of two.
Better(r, x) ==
    \/ r.type = "connect" /\ x.type # "connect"
    \/ /\ (r.type = "connect") = (x.type = "connect")
       /\ \/ r.type # "connect" /\ Distance[r.type] < Distance[x.type]
          \/ /\ Distance[r.type] = Distance[x.type]
             /\ Metric[r.type] < Metric[x.type]

Best(rs, n) ==
    /\ Usable(rs[n])
    /\ \A m \in DOMAIN rs : Usable(rs[m]) => ~Better(rs[m], rs[n])
                                             /\ (m > n => Better(rs[n], rs[m]))

\* A connected entry has the operative interfaces as active next hops.  A gateway
\* is active only while the connected prefix of its interface is selected, and it
\* is active if that prefix alone contains it and is selected.
Current(t, up, d, r) ==
    IF r.type = "connect" THEN r.active = r.nhs \cap up
    ELSE /\ \A i \in r.active : /\ i \in r.nhs /\ ConnOf[i] # d
                               /\ \E n \in Match(t, ConnOf[i]) :
                                     t.routes[ConnOf[i]][n].type = "connect"
         /\ \A i \in r.nhs : Inside[i] = {} /\ GatewayActive(t, d, i) => i \in r.active

\* A destination that waits in no sub-queue has been decided: the selected entry
\* is the best usable one, and the ACTIVE flags it was chosen by are current,
\* although the connected routes its gateways depend on change in other
\* destinations and rib_process never looks at those that depend on the one it
\* processes.  (A route to a longer prefix that contains the gateway takes effect
\* only when the destination is queued again.)
Settled ==
    \A d \in Dests :
        ~Queued(table, d) =>
            \A n \in DOMAIN table.routes[d] :
                /\ table.routes[d][n].selected <=> Best(table.routes[d], n)
                /\ Current(table, ifup, d, table.routes[d][n])

\* What the redistributing client has been told is what is selected and of a
\* type it asked for: redistribute_add and _delete are paired over updates,
\* subscriptions and changes of the selected entry.
ClientIsTold ==
    \A d \in Dests :
        told[d] = {table.routes[d][n].type : n \in Selected(table.routes[d])} \cap redist

\* Nothing stale in the kernel: what zebra installed there is the selected
\* entry with the next hops flagged FIB, also after a crash and a restart.
KernelIsSelected ==
    \A d \in Dests : \A ks \in kernel[d] :
        \E n \in Selected(table.routes[d]) :
            ~SystemRoute(table.routes[d][n]) /\ table.routes[d][n].fib = ks

\* The housekeeping code of rib_process "makes sure the routes are IN the
\* kernel": an entry flagged FIB is there when nothing is waiting.
FibIsInKernel ==
    \A d \in Dests : \A n \in Selected(table.routes[d]) :
        LET r == table.routes[d][n]
        IN  ~table.ribq /\ ~SystemRoute(r) /\ r.fib # {} => r.fib \in kernel[d]

\* What Settled does not say: the flags are those that rib_process would set now,
\* for gateways that longer prefixes contain as well.
GatewaysAreCurrent ==
    \A d \in Dests : ~Queued(table, d) => Refreshed(table, ifup, d) = table.routes[d]

\* "The queue length is bounded by the maximal size of the routing table, as a
\* route_node will not be requeued, if already queued."
QueuedOnce ==
    \A q \in SubQueues : \A m, n \in DOMAIN table.subq[q] :
        table.subq[q][m] = table.subq[q][n] => m = n

=============================================================================
