# Verification of quagga 0.99.24.1 with D-BGP

This directory holds TLA+ models of parts of the routing suite in
`src/quagga-0.99.24.1`, TLC configurations that check them on small instances,
and proofs that TLAPS checks for every instance. Most of it is about `bgpd`, the
daemon the D-BGP extension changes: its sessions, its routing table and the Wiser
protocol over the lookup service. The work queue under it, zebra's routing table
behind it, the adjacencies of `ospfd` and the route choice of `babeld` have
modules of their own.

`PROJECT.json` lists the components, the runs, the source lines behind every
definition, the hazards and the findings. Source paths below are relative to
`src/quagga-0.99.24.1`.

## 1. Inventory

### The system

Quagga is a set of single-threaded daemons on one library. `bgpd` (76,578 lines)
is where D-BGP lives; `zebra` (27,166) owns the kernel table; `ospfd` (46,595),
`ospf6d` (23,231), `isisd` (25,956), `ripd` (10,546), `ripngd` (7,725), `babeld`
(8,691) and `pimd` (22,016) are further protocols; `watchquagga` (1,390) restarts
daemons; `vtysh` (3,623) and `ospfclient` (1,233) are clients; `lib` (44,843)
has threads, work queues, tables, streams and the command shell. `config/` at
the top level has sample configurations.

| part | state | operations | talks to |
| --- | --- | --- | --- |
| session FSM (`bgp_fsm.c`, `bgp_packet.c`, `bgp_network.c`, `bgpd.c`) | `struct peer`: status, flags, descriptor, ten thread pointers, graceful-restart flags | the handlers of `FSM[][]`, timers, `bgp_read`, `bgp_write`, `bgp_accept`, collision, takeover, shutdown, clear | thread master, neighbour, routing table |
| thread master (`lib/thread.c`) | event, ready, timer and descriptor lists | `thread_add_*`, `thread_cancel`, `thread_cancel_event`, `thread_fetch`, `thread_call` | everything |
| work queues (`lib/workqueue.c`) | items, thread, granularity | `work_queue_add`, `work_queue_run`, completion | `process_main_queue`, `clear_node_queue` |
| routing table (`bgp_route.c`) | `struct bgp_info` per node and peer, flags, `pcount`, schedule flag | update, withdraw, decision, clear, stale sweep | session, adj-out, zebra |
| advertisements (`bgp_advertise.c`) | `bgp_adj_out` with the attribute sent and the queued advertisement; `bgp_adj_in` | set, unset, packets | table, session |
| next hops (`bgp_nexthop.c`) | caches | `bgp_scan` every minute | table |
| dampening (`bgp_damp.c`) | `bgp_damp_info`, reuse lists | withdraw, update, scan, reuse timer | table |
| D-BGP (`dbgp.c`, `dbgp_lookup.c`) | keys in the transit attribute, control information in redis | filter, update control info, compare | table, redis |
| Wiser (`wiser.c`, `wiser_config.cc`) | link costs, two cost counters per pair of ASes in redis | increment, normalise, decide | D-BGP |
| pathlets (`pathlets.c`, `pathlet_internal_state.cpp`) | graph, identifier and address pools | filter, update, announce | D-BGP, table |
| attributes (`bgp_attr.c`, `bgp_aspath.c`, ...) | interned structures with reference counts | parse, intern, dup, unintern | table |
| policy, OPEN and capabilities, multipath, SNMP, vty, dump | configuration | mostly pure functions | |
| zebra (`zebra_rib.c`, `redistribute.c`, `zserv.c`) | entries per destination, five sub-queues, kernel table, what clients were told | add, delete, `rib_process`, interface up and down, static routes, sweep | kernel, daemons |
| OSPF (`ospf_nsm.c`, `ospf_packet.c`, `ospf_flood.c`) | neighbour state, database, summary, request and retransmission lists | packets, hello, three retransmission timers, flooding | neighbour |
| Babel (`route.c`, `source.c`, `message.c`) | routes by neighbour, the list of a prefix, sources, sequence number | updates, cost changes, retractions, expiry, requests | neighbours |
| OSPFv3, RIP, RIPng, IS-IS, PIM, watchquagga | each a system of its own | | zebra |

### What makes it hard

* One thread runs everything, but *in an order nobody chose*: an event is queued
  and runs later, timers and descriptors go on a ready list in batches, and a
  handler may flush what other handlers have queued (`BGP_EVENT_FLUSH`).
* A session has two owners while a connection is taken over from the temporary
  peer of `bgp_accept`.
* Routes outlive the session that announced them: the clear queue visits nodes
  one at a time, and a graceful restart keeps stale routes for the next session.
* The decision process runs on a work queue, later than the handler that changed
  a path, and decides by flags whether there is anything to announce.
* `pcount` is adjusted from flag changes in half a dozen handlers.
* The lookup service is shared by all routers, and nothing makes the accesses of
  one announcement atomic.
* Attributes are shared structures; D-BGP writes into them in place.
* A work queue walks a list that its own callbacks change, and it is scheduled by
  several callers, each of which may leave that to another.
* In zebra a destination depends on others through its gateways, waits in several
  sub-queues at once, and the kernel changes behind zebra's back.
* OSPF and Babel run over links that lose and delay, between routers that fail
  and come back; what one of them has forgotten may still be on the way.

The hazards, each at its line, are in `PROJECT.json`.

### What it should guarantee

A session is read and timed; Clearing ends; an Idle peer starts again; stale
routes are swept; a temporary peer never becomes a session; counts are exact;
what the neighbours and zebra have been told follows the selected path; a removed
path is reaped; no path of a peer that is gone is forgotten; the assertions of the
control-information code hold; the cheapest path is announced; the two ends of a
link agree. Queued work is done, in turn and not too often. zebra decides for the
present next hops, tells its clients so and leaves nothing stale in the kernel.
Two OSPF routers that are Full have the same database, and get there. A Babel
router remembers what it has announced, so that feasible routes form no loops.

## 2. Modules

| module | models | lines |
| --- | --- | --- |
| `BgpFsm` | peers, FSM, threads, OPEN, takeover, clear queue as seen by the session | 740 |
| `BgpFsmProofs` | theorems about `BgpFsm` | 4016 |
| `BgpRib` | table, decision process, adj-out, zebra's view, limit, dampening | 715 |
| `BgpRibProofs` | theorems about `BgpRib`: types, counts and clearing | 2408 |
| `BgpRibSelectionProofs` | theorems about `BgpRib`: selection, zebra and the peers; the theorems of both | 1878 |
| `DbgpWiser` | a network of Wiser and plain ASes with the lookup service | 456 |
| `DbgpWiserProofs` | theorems about `DbgpWiser` | 1200 |
| `TaskQueue` | what a work queue promises | 81 |
| `WorkQueue` | `lib/workqueue.c`, which implements `TaskQueue` | 349 |
| `WorkQueueProofs` | theorems about `WorkQueue`, the refinement included | 470 |
| `ZebraRib` | zebra's table, queues, kernel and redistribution | 569 |
| `ZebraRibProofs` | theorems about `ZebraRib` | 4513 |
| `OspfAdjacency` | two OSPF routers on a link | 498 |
| `OspfAdjacencyProofs` | theorems about `OspfAdjacency` | 1623 |
| `Babel` | Babel routers and one prefix | 396 |
| `BabelProofs` | theorems about `Babel` | 1192 |
| `MCBgpFsm`, `MCBgpRib`, `MCDbgpWiser`, `MCWorkQueue`, `MCZebraRib`, `MCOspfAdjacency`, `MCBabel` | instances for TLC | 7 to 22 |

The specifications of bgpd meet at named points. `BgpFsm` gives `BgpRib` the life
of a session (`session` there is `status` here, reduced to Idle, Established,
Notified, Overflow and Clearing); `BgpRib` gives `DbgpWiser` the table and adj-out (`rib` and `sent`
there are one path per neighbour and what was announced). `process_main_queue` and
`clear_node_queue` of bgpd and `ribq` of zebra are instances of `WorkQueue`; the
modules that use them (`scheduled`, `clearq`, `ribq`) rely on what `TaskQueue` says:
items in turn, each worked on, completion only when nothing waits.

### BgpFsm

`peer[p]` is a record for each `struct peer`: the configured peer `Real` and the
slots `Accept` for the temporary peers that `bgp_accept` makes. Its fields are
the status, flags, the descriptor, the set `ptr` of thread pointers that are set,
the set `armed` of timers and descriptors that the thread master holds, the queue
`event` of BGP events, the list `ready`, and the clear queue.

When the ready list is empty, `thread_fetch` moves the queued events to it and
then at most `MaxBatch` due timers, descriptors and clear queues, in the order in
which the C function looks at them. `Run` runs the head of the list: one BGP event
(`RunEvent`, through the table `FSM`), one timer, one read or write, one visit of
the clear queue. A handler that flushes takes threads off the list again. `RunReadOpen`, `RunReadOpenRefused` and
`RunReadOpenTransfer` are the three outcomes of `bgp_open_receive`; `RunAccept`
is `bgp_accept`; `RunCommand` is a command: clear, shutdown, no shutdown,
deleting and creating the neighbour.

Every handler is a function from a peer's record to its next record, in the order
of the statements of the C function; each ends with what its callees do
(`bgp_stop` with its flush, `bgp_fsm_change_status` with the timers of the new
state, `peer_delete`, ...). The kernel's answers (connect, write) are inputs from
`IO`, the capabilities an OPEN carries are the constant `OpenCaps`, and the
identifier in it is left open, so that a collision may be won by either side.

Bounds: `MaxBatch` (threads taken per fetch), `MaxClearQueue` (nodes
the clear queue gathers before it must run: its hold time is short), the slots of `Accept`, and one route per address
family in `RouteAFs`.

### BgpRib

`info[n][p]` is the path of prefix `n` from peer `p` (attribute, flags, dampening
record), `pcount[p]` the counter, `scheduled` the `process_main_queue`,
`session[p]` the state of the session (Notified: a NOTIFICATION has been queued;
Overflow: the prefix limit has ended it), `limit[p]` whether the overflow of the prefix
limit has been noted, `nsf` and `nsfwait` graceful restart, `clearq[p]` the clear
queue, `adj[n][p]` the adj-out (attribute last sent and the queued
advertisement), `fib[n]` what zebra was told last. `muted` is a history variable:
the nodes with a change of the selected path that an identical update has hidden
from the decision process (`bgpd/bgp_route.c:2341`); it guards no action.

An attribute is a number. `Prefers` is what the steps of `bgp_info_cmp` before the
age rule make of two of them; then the path already selected wins, then the smaller
peer number, which stands for the router id. `Prefers` may be any asymmetric
relation: MEDs are compared only between paths of one neighbouring AS
(`bgpd/bgp_common.c:166-180`), so it need not be transitive, and
which path the loop of `bgp_best_selection` ends with may depend on the order of the
list ("bgp deterministic-med", which would group the paths, is off by default). That order is left open (`Lists`). `Ranked` says that the relation is a ranking,
as with "bgp always-compare-med".

`FirstFamily` says which family the table is. `bgp_clear_route` takes the clearing as
completed when it has queued nothing and the queue is not scheduled
(`bgpd/bgp_route.c:3197-3210`), and `bgp_clear_route_all` then goes on to queue the nodes
of later families. The clearing of a family other than IPv4 unicast, the first, may
therefore be completed before any of its nodes has been visited, and the session may come
up again with nodes still in `clearq`; that of IPv4 unicast completes when no node of the
peer waits. Actions are the handlers: `bgp_update`
(new, changed, duplicate, suppressed), `bgp_update_filtered`,
`bgp_withdraw_receive`, `bgp_process_main`, `bgp_write`, `bgp_establish`,
`bgp_stop`, `ClearRouteNode`, `bgp_clearing_completed`, the graceful-restart and
stale timers, `bgp_scan`, `bgp_reuse_timer`, `bgp_route_refresh_receive`.

Abstractions: the FIFO order within an adj-out and the uptime, synctime and
end-of-RIB deferral are left open (any queued advertisement may be written
first); the re-announcement to zebra for `IGP_CHANGED` and `MULTIPATH_CHG` may or
may not happen; a path is identified with its node and peer; the dampening
penalty has four levels; `bgp_scan` visits all nodes in one step, as the C
function does. Which routes make `Prefers` hold does not change with time (no change
of IGP metric alters the order of two attributes).

### DbgpWiser

One router per AS. `store` is redis' control information by key, `received` its
counters, `chan` the UPDATEs on the way, `rib`, `adjin`, `sent`, `scheduled` and
`changed` (the paths with `BGP_INFO_ATTR_CHANGED`) the tables of each router, and
`work[a]` the announcement router `a` is in the middle of. Processing an
announcement is a sequence of steps, one for each access to redis:
`GetControlInformation`, `IncrementWiserCosts`, `RetrieveWiserCosts`,
`ComputeNormalizationForAdvert` (the second counter and the quotient),
`set_control_info` (SET, the key written in place, the path entered). Other
routers take steps in between; the router itself does not, as bgpd waits for the
reply.

Abstractions and assumptions:
* Keys are taken to be different and numbered in the order of their SET. While
  they differ, a `struct transit` of a router can be identified with the key in
  it, so that "written in place" is: every attribute of the router with the old
  key gets the new one. UPDATEs in the adj-out that are not yet written are
  changed too, those written are not: which of them are is left open.
* The lookup that `dbgp_input_filter` makes just before the one in
  `dbgp_update_control_info` is folded into it: nothing depends on its result.
* The product of cost and normalisation is exact before it is truncated (the code
  multiplies floats), counters stay below `MaxTotal` (no `int` overflow), link
  costs are at least 1 (`WiserAssumption`; with costs of 0 the quotient may be
  0/0), and the stored bytes are the serialised advertisement.
* A withdrawal and a loop are taken at once; sessions stay up; announcing is
  reduced to what each neighbour is sent (the adj-out is in `BgpRib`).

### WorkQueue and TaskQueue

`WorkQueue` follows `work_queue_run` statement by statement: `Start` (the thread
runs), `CallWork` and `RetryNow` (the inner loop), `Return` with `Later`, `Requeue`
and `Remove` (the switch on the result), `GiveUp` (retries used up), `NextCycle` (the
yield test) and `Stats` (granularity, rescheduling, completion). While the work
function runs (`pc = "work"`) it may add items and plug or unplug the queue, as it
may between runs. Pointers into the list are the items they point to. An item is named by its task; a task is in
the queue at most once, as the callers' flags ensure. Whether the time slot is
over is left open at each test. `MaxCycles` keeps one run from going on for ever by adding items.

`TaskQueue` has only the waiting tasks and the last callback; `Refines` maps
`pending` to `items` and `call` to the callback that `WorkQueue` records.

### ZebraRib

`table.routes[d]` is the list of entries of a destination, newest first, with the
flags of its next hops; `table.subq` are the five sub-queues, `table.flags[d]` the
`RIB_ROUTE_QUEUED` flags, `table.ribq` whether the meta queue waits in the work
queue. `kernel` is what the kernel has of zebra, `told` what the redistributing
client believes. `Process` is one item of `meta_queue_process`; the other actions
are the messages of daemons, subscriptions, interfaces, static routes and
`Restart`, which reads back what an earlier zebra left and sweeps it. It starts
from an empty table and folds over the interfaces (`interface_lookup`), the routes in
the kernel (`netlink_route_read`), the configured lines (`vty_read_config`) and at last
the routes read back (`rib_sweep_table`). `Order` lists each of these sets in some order,
since the properties do not depend on which.

A next hop is a gateway, named by its interface. `GatewayActive` is the longest-prefix
match of `nexthop_active_ipv4`: `ConnOf` is the prefix of the interface and `Inside` the
longer prefixes of the table that contain the gateway. The walk goes up the tree from the
longest, stops with failure at the destination itself, passes prefixes without a selected
entry and those whose selected entry is BGP's, and succeeds only at a connected entry; any
other selected entry ends it without success. The C function goes on in one more case,
the recursive one: an entry with ZEBRA_FLAG_INTERNAL may be resolved by another daemon's
route. Only bgpd sets that flag, for iBGP, confederation and multihop peers; such entries
are not modelled, nor are interface prefixes that nest (`ZebraAssumption`). The test for
a blackhole concerns static routes to the null interface, which are not in the model,
and a static entry ends the walk in any case. The next hop of a connected route is
active when the interface is up.

When an interface goes down the kernel drops
the routes that have no other next hop, as Linux does. The kernel may refuse to install a
route to a destination in `KernelRefuses`. A deletion is taken to succeed: only the sweep
after a restart looks at the answer (`zebra/zebra_rib.c:3293-3295`), and a route that the
kernel will not delete is not in the model. `MaxRoutes` bounds the entries
of a destination (removed ones included), and `MaxQueue` the entries that wait, in all
sub-queues together, when another event comes.

### OspfAdjacency

`node[r]` has the state of the neighbour, the sequence number and flags of the
exchange, the last description received and sent, the lists `sum`, `req` and
`rxmt`, the database, and the packets it has sent that have not arrived (`out`). `Receive` dispatches to
the handlers of the four packet types; `Step` is the neighbour state machine;
`Hello`, `ospf_db_desc_timer`, `ospf_ls_req_timer`, `ospf_ls_upd_timer` and
`ospf_ls_ack_timer` send; `Learn` floods an LSA from another interface; `Lose`,
`Dead` and `Crash` are the faults.

Assumptions: an LSA is a key and the number of its instance; a packet other than
an acknowledgment carries one LSA (the smallest MTU, so that a database takes
several packets); an event that a handler schedules runs with the handler, as
`thread_fetch` puts events first; the sequence numbers of exchanges come from the
time of day and grow; the first instance of a router-LSA after a restart has the
number of the very first one; and when a neighbour is declared dead, or is back
after a crash, the packets of the old exchange are no longer on the link
(`LinkIsQuiet`): RouterDeadInterval is forty seconds.

### Babel

`node[n]` has the costs of the neighbours, the routes by neighbour, the order of
the list of routes, and the source entry of the owner. Handlers are functions from record to
record: `update_route` (`UpdateKnown`, `UpdateNew`), `route_changed`, `route_lost`,
`consider_route`, `switch_routes`, `flush_route`, `update_route_metric`, `Retract`.
The actions are sending and receiving an update, a change of link cost
(`update_neighbour_metric`), a vanished neighbour (`flush_neighbour_routes`), a
wildcard retraction, time (`Age`), `expire_routes`, a new number of the owner and the
owner's own redistribution.

What is left open is when updates and requests are sent, so every delay,
repetition and omission of the code's buffers and timers is allowed. Assumptions:
one router originates the prefix; routers do not restart and sources are not
garbage collected (`SOURCE_GC_TIME`); sequence numbers do not wrap; no filters,
diversity or kernel failures.

## 3. Runs

All sizes are of complete explorations.

| run | instance | distinct states | shows |
| --- | --- | --- | --- |
| `fsm_session` | one peer, IPv6 routes, OPENs without graceful restart or with the state preserved, batches of 2 | 748,306 | `TypeOK`, `ClearingCompletes`, `SessionAttended`, `ClearingIsQuiet`, `StaleIsSweepable`, `IdleRestarts` |
| `fsm_accept` | the peer and one accepted connection, graceful restart without the state preserved, batches of 1, one node in the clear queue | 454,956 | `SessionAttended`, `AcceptIsTemporary` |
| `fsm_live` | one peer, batches of 1, with fairness | 1,475 | `ClearingEnds` |
| `rib_path` | two peers, one prefix, two attributes, denied exports, graceful restart, a family other than IPv4 unicast | 407,938 | `TypeOK`, `PcountExact`, `AdjOutFollowsSelection`, `FibFollowsSelection`, `SelectionSettled`, `RemovedIsScheduled`, `IdleIsCleared` |
| `rib_limit` | one peer, two prefixes, maximum-prefix 1, dampening, IPv4 unicast | 56,627 | `PcountExact`, `IdleIsCleared` |
| `wiser_square` | ASes 1 (plain, origin of two prefixes), 2 and 3 (Wiser), 4 (plain) in a square; 3 has soft reconfiguration | 351,343 | `NoAssertionFails`, `KeysUnshared`, `CheapestAnnounced`, `NeighboursAgree` |
| `zebra_table` | four destinations, two interfaces, one gateway inside a longer prefix, OSPF, BGP and static routes, a redistributing client, a kernel that may refuse, crashes | 223,630 | `OneSelected`, `NothingIsLost`, `Settled`, `ClientIsTold`, `KernelIsSelected` |
| `ospf_sync` | three LSAs of three instances, one learned elsewhere, two faults | 1.67 M | `FullIsSynchronised`, `RetransmitsCurrent`, `RequestsNewer`, `InStep` |
| `ospf_live` | two LSAs of two instances, two faults, with fairness | 17,093 | `Converges` |
| `wq_run` | three tasks, two retries, with fairness | 216,134 | `NoLostWakeup`, `PointersLive`, `RetriesBounded`, `Refines` (the abstract specification), `Attended` |
| `babel_routes` | the owner and two routers in a triangle, two sequence numbers, two faults | 635,950 | `AnnouncedIsRemembered`, `LoopsAreUnfeasible`, `InstalledAtHead` |

Why the bounds are enough.

* `fsm_*`: the order of two threads in one batch is what a flush can upset, so
  batches of two contain the cases (a flushed thread and the one that flushes). One
  address family with routes and one without is the case in which the families'
  clearings end at different times. The two kinds of OPEN of `fsm_session` are those
  between which the handling of stale routes differs most (none kept, or kept over
  the next session); the third, a restart whose state is not preserved, is the one of
  `fsm_accept`. The clear queue of `fsm_accept` holds one node, since the takeover does
  not look at its length; in the other runs it holds two. One accepted connection collides with the real
  peer; two accepted connections that collide with each other were explored once
  outside the runs (5.08 M states, 12 minutes, no error).
* `rib_*`: two peers with two attributes give better, worse and equal paths and a
  path's own peer; two prefixes give a count above the limit. `rib_path` never
  exceeds its limit, and the limit together with a graceful restart is beyond TLC here; the
  theorems cover that combination for every property of `rib_path`. Two attributes cannot
  prefer each other in a circle. Three peers whose attributes do were simulated outside the
  runs (9.6 M states, no error), and the theorems hold of every such relation. The two runs
  have one kind of family each, since they end their clearing differently.
* `wiser_square`: the direct link of AS 2 is dear, so that its cheapest path is the
  longer one through AS 4, and both Wiser ASes have counters for each other; four
  keys let each of them process a plain and a keyed announcement. `MaxTotal` is
  never reached. The run switches the deadlock check off: routers that have told
  each other everything are at rest.
* `zebra_table`: destinations 1 and 2 are the prefixes of the interfaces, 3 has static
  routes through both, and 4 is a part of 2 that contains its gateway and has routes of
  OSPF and BGP through 1, so that an OSPF route at 4 takes the gateway of interface 2 away
  and a BGP route does not. The two have equal distance, so that the metric decides;
  three entries per destination hold a new, an old and a removed one. An event comes while
  at most two entries wait, but one event may queue more: `rib_update` queues every
  destination.
* `ospf_*`: with three LSAs a database takes more than one description, and the
  first of them may be replaced while the others are described; two faults are a
  lost packet during the recovery from another fault, or two restarts. The
  liveness check needs the smaller instance.
* `wq_run`: with three tasks one is worked on, one is next and one is added or
  requeued behind them.
* `babel_routes`: the smallest network with a choice and a possible loop away from
  the owner; cost 20000 makes a path of two links finite and one of four infinite,
  so that counting up ends at `INFINITY`. Two faults are enough for the loop that
  is described below.

### Disagreements between the code and its comments or documents

`fsm_v_shutdown` shows one as a run: a takeover flushes the BGP_Stop of "neighbor
shutdown", and the session of a peer that is shut down becomes Established
(`bgpd/bgp_packet.c:1453`; `ShutdownDropsPeer`).

The others have their property in the module. Each is refuted by adding the
property to the cfg named, with the change given.

| property | cfg and change | what happens |
| --- | --- | --- |
| `IdleOnlyWhenCleared` | `BgpFsm_session.cfg` | `bgp_clear_route` raises Clearing_Completed for a family without routes while another family's nodes are queued, although "bgp_fsm.c keeps sessions in state Clearing" until then (`bgpd/bgp_route.c:3137`, `:3197`) |
| `ClearedBeforeUp` | `BgpRib_path.cfg` | the consequence for the table: the session is up again while nodes wait to be cleared, although Clearing "protects against peers which flap faster than we can we clear" (`bgpd/bgp_route.c:3137-3149`); `clear_route_node` then takes a route of the new session |
| `DuplicateIsIgnored` | `BgpRib_path.cfg` | a repeated update, "duplicate ignored" (`bgpd/bgp_route.c:2364`), clears ATTR_CHANGED (`:2341`) before the decision process has seen it, and the change is announced neither to zebra nor to the peers |
| `DampedIsWithdrawn` | `BgpRib_limit.cfg`, `MaxAttr = 2` | a path suppressed on an implicit withdrawal stays selected (`bgpd/bgp_route.c:2438`), although bgp_damp_withdraw says "do annonunce this withdraw" (`bgpd/bgp_damp.c:249`) |
| `AdjInRecordsInput` | `DbgpWiser_square.cfg` | the key in the Adj-RIB-In, which is to "[r]ecord input packet" (`bgpd/bgp_route.c:2185`), is overwritten in place by the router's own (`bgpd/dbgp_lookup.c:328`) |
| `FibIsInKernel` | `ZebraRib_table.cfg` | an interface goes down and up before its destinations are processed: the kernel has dropped the routes, no flag has changed, and the housekeeping that "makes sure the routes are IN the kernel" (`zebra/zebra_rib.c:1488`) tests the flag |
| `QueuedOnce` | `ZebraRib_table.cfg` | `rib_gc_dest` frees the flags of a destination that still waits in another sub-queue, and a new entry queues it again, against "a route_node will not be requeued, if already queued" (`zebra/zebra_rib.c:1766`) |
| `LoopFree` | `Babel_routes.cfg` | see below |

The loop of `LoopFree`. Router `b` has a route through `a` that was retracted and is
still in the table, and loses its neighbour `o`, the owner. `route_lost` finds the
retracted route best, being the only one, and `consider_route` installs it because
nothing else is installed. Then an update of `a` arrives that `a` sent earlier,
when it still reached `o` through `b`: it is unfeasible for `b`, but of the same
source and for an installed route, and it is applied (`babeld/route.c:736-742`)
where the comment at `:720-723` says "[i]f the source remains the same, we ignore the
update". Now `a` and `b` forward to each other until the next sequence number or
the metrics have counted up, although "without ever counting to infinity"
(`doc/babeld.texi:10-13`). With the update ignored as the comment says, `LoopFree`
holds at the same bounds (616,366 states).

`GatewaysAreCurrent` of `ZebraRib` contradicts no comment, but marks the limit of
`Settled`, and `ZebraRib_table.cfg` refutes it: when a route to a longer prefix that
contains a gateway comes or goes, `rib_process` queues none of the destinations that use
the gateway, and they keep their next hops until something else queues them.

`AdjOutFollowsSelection` and `FibFollowsSelection` are checked with the repeated update,
and except from their claim about attributes the nodes that it has muted until the next
change is announced. They are checked without dampening.
`CheapestAnnounced` excludes routers with soft
reconfiguration: reprocessing a keyed path there changes its key and cost in
place and counts as a duplicate, so nothing is decided or announced.

### Fairness

`ClearingEnds` assumes: weak fairness of `thread_fetch` and of running what is on
the ready list, because the main loop of bgpd is `while (thread_fetch) thread_call`
and every handler returns; and strong fairness of a fetch that picks up the
clear queue. The queue's thread is a background thread whose hold time is
measured from when it was added; each `thread_fetch` that finds it due moves it,
so a queue that is due again and again is not passed over for ever. Nothing is
assumed of the network, the timers or the operator. `fsm_live` has batches of one
and no accepted connection, because TLC's liveness check is much dearer than the
search; the corresponding safety property `ClearingCompletes` is checked in
`fsm_session`.

`Converges` assumes that packets that are not lost arrive (weak fairness of
`Receive`), and that Hellos and the four timers, each of which is armed again when
it fires for as long as its condition holds, fire again and again. For Hellos and
descriptions that is strong fairness, because the bound `MaxQueue`, which is not in
the code, switches them on and off. Faults and `Learn` need not happen.

`Attended` assumes that a scheduled run is fetched and goes on until it ends, that
whoever plugs a queue unplugs it some time, and that a work function does not answer
WQ_QUEUE_BLOCKED or WQ_RETRY_LATER for ever: strong fairness of `Start` and
`Return`, weak fairness of the other steps of the run.

## 4. Proofs

`BgpRibProofs` and `BgpRibSelectionProofs`, which extends it and states the theorems,
prove for all finite sets of peers (numbered) and prefixes, all attributes, asymmetric
preferences, policies, limits and families (`RibAssumption`), with dampening and without:

* `TypeCorrect`: `Spec => []TypeOK`. The interesting conjunct is that `pcount`
  stays a natural number: it is unsigned in the code, and a decrement of zero
  would wrap around.
* `PcountIsExact`: `Spec => []PcountExact`: a path is counted exactly when it is
  usable, and the counter is the number of the peer's counted paths.

The inductive invariant is `IInv == TypeOK /\ PcountExact`. Neither half is
inductive alone: that a decrement stays above zero needs the counter to be the
number of counted paths, and that one path is counted needs the types of its
flags. `IInv` needs no further strengthening because every handler is written,
as in the code, as a sequence of operations on one path and the counter. The
argument follows that shape: `Exact(x, b)` says that a path `x` together with the
counter is right over the count `b` of the peer's other paths. Between the
operations of one handler the weaker `Tally` holds (the counter is right for the
COUNTED flag, which may be late). Lemmas show how each operation
(`bgp_info_set_flag`, `bgp_info_delete`, `bgp_damp_withdraw`, ...) moves between
the two. `RouteExact` enters a handler from `IInv`, `CommitExact` leaves it,
using the exchange lemma on cardinalities, and `NextInv` collects the actions.

The second half of `BgpRibProofs` is the argument for `IdlePeersAreCleared`
(`Spec => []IdleIsCleared`), with dampening and without, in any family. `ClearInv` says
where every path of a session that is gone stands: in the clear queue, spent (REMOVED or
kept for its history), or stale while `nsfwait` holds; in IPv4 unicast it is in the clear
queue only in Clearing. It also needs that a peer waits for a restart only while it is
down, that there are no flags without a path, and that a path kept for its history was
withdrawn, since the reuse timer would revive it otherwise. `Edited` says which flags a
handler may set and take away.

`BgpRibSelectionProofs` proves for networks without dampening `RemovedPathsAreReaped`
(`RemovedIsScheduled`), `BestPathIsSelected` (`SelectionSettled`), `FibIsCurrent` and
`PeersAreCurrent` (`FibFollowsSelection`, `AdjOutFollowsSelection`). The hypothesis is
needed: the reuse timer's `bgp_damp_info_free` removes a path and processes nothing. The
properties hold of nodes that wait for nothing; the inductive `SelInv` holds of scheduled
nodes too:

* zebra and the peers know the attribute the selected path has, unless ATTR_CHANGED says
  that they do not or the change is muted (`Told`); in the first case the node is scheduled.
* every usable path is `Settled` (one is selected, and it is this one if it is preferred
  to all others; where paths are ranked, the selected one is at least as good) or
  `Exempt`: it overflowed the limit and was never processed, and clearing will take it, or
  in a family other than IPv4 unicast perhaps make it stale first.
* muted or not, zebra has a route exactly where a path is selected.

Each handler of a route is shown to be `Tame`: it keeps the mark, notes a change of
attribute and schedules the node whenever the choice may change. `BestPath` is about the
loop over the list, for every list of the paths: what it holds after each position is a
usable path, and no path that is preferred to all others is passed over or replaced. As
induction is not available, it goes by the least position that would break this (`Counting`,
`CountingHolds`). `Transitive` shows that `bgp_info_cmp` is an order where paths are ranked.

`DbgpWiserProofs` proves `AssertionsTheorem` (`Spec => []NoAssertionFails`) for
every network of Wiser and plain ASes with positive link costs. The invariant is
that every key in a table, on a link or in a router's work was SET before, that
stored costs and counters are positive, and `Keyed`: a Wiser router has stored
control information for every path but its own. `Keyed` is needed because the best
path is chosen by cost where there are keys and by length elsewhere; only where all
have keys is that an order, and only then has the decision process a result.

`WorkQueueProofs` proves, for every set of tasks and every number of retries
(`WorkQueueAssumption`): `WakeupTheorem`, `PointersTheorem`, `RetriesTheorem`,
`GranularityTheorem` and `RefinementTheorem` (`Spec => Refines`). The inductive
invariant `Inv` is the type invariant, that the list holds no task twice, that the
list pointers are where they should be (`AtFront`: the current item is the first of
the list and the next pointer the second, the work function having been called for
the current one), and the properties themselves. `AtFront` is the heart: the code
deletes and moves items by pointer, and only because the pointer is always at the
head are deletion and requeueing the `Tail` and the rotation of the abstract queue
(`DeleteFirst`). That the list has no duplicates is needed for the position of a task
to be unique. For the refinement, each step of `WorkQueue` is shown under `Inv` to be a
step of `TaskQueue` or a stutter, and liveness of `TaskQueue` is not claimed.

`BabelProofs` proves, for all routers, links and costs and any number of faults
(`BabelAssumption`):

* `AnnouncedTheorem`: `Spec => []AnnouncedIsRemembered`.
* `DescentTheorem`: `Spec => []FeasibleDescends`: along feasible routes in use the
  pair of sequence number and metric that a router has announced gets strictly
  better from hop to hop.
* `LoopsTheorem`: `Spec => []LoopsAreUnfeasible`: no finite set of routers forwards
  only among its members by feasible routes. Of such a set, take the router that
  has announced the best pair; its next hop, in the same set, has announced a
  better one. This is where `BabelAssumption` has to say that the network is finite.

The inductive invariant adds to `AnnouncedIsRemembered` only the shapes of the
records. The argument does not depend on which route is preferred: `Keeps` says of
a handler that it touches no source and invents no finite metric, `Applies` the same
up to one update, and these compose along the call tree (`SwitchKeeps`,
`ConsiderKeeps`, `ChangedKeeps`, `FlushKeeps`, `MetricKeeps`, ..., `UpdateApplies`).
`NotForgotten` says that a source only gets better, and `UpdateSource` that an
announcement is noted in the step that sends it. The descent follows without
induction: a feasible route is better than the router's source and no better than
its neighbour's.

`BgpFsmProofs` proves, for any number of accepted connections, any batch and queue
bounds and any capabilities (`FsmAssumption`), every safety property that the runs
of `BgpFsm` check: `TypeTheorem`, `ClearingTheorem`, `AttendedTheorem`,
`QuietTheorem`, `StaleTheorem`, `TemporaryTheorem` and `RestartsTheorem`. None of
the properties is inductive. `Inv` relates three things that the code keeps apart:

* the pointers in `struct peer` and the lists of the thread master (`Armed`: a
  session pointer that is set stands for a thread that is scheduled. `thread_cancel_event`
  breaks this for an instant, and `bgp_stop` repairs it by resetting the
  pointers; the graceful-restart timers are left out because it is false of them);
* the clear queue and its thread (`Queue`: at most one visit is ready, only while
  there is a node, and a structure that was freed has neither nodes nor a descriptor,
  so that a neighbour configured anew does not inherit a visit);
* the routes and the queue (`Sweep`: a stale route is in NSF mode or its own family
  is queued, which is more than `StaleIsSweepable` says).

`Temp` adds for a temporary peer that no OPEN is pending, which is what would take it
past OpenSent. Inside a handler only `Base` holds; `Reads`, `Completes` and `Timed`
(the timers of the status are on, or an event is pending that sets them) hold again
at its end. A lemma for each C function says which of them it keeps or restores
(`StopKeeps`, `NotifyKeeps`, `TimerSetKeeps`, `DeleteKeeps`, ...), `Table` sums up
the entries of `FSM`, and `Fit` says of a whole handler that what held of the peer
before holds after it. `FilterElems` describes cancelling by least counterexample, since
induction is not available.

`OspfAdjacencyProofs` proves, for any keys, any number of instances and any number
of faults (`OspfAssumption`): `TypeTheorem`, `RetransmitsTheorem` and
`RequestsTheorem`. The invariant `Lists` adds to the two properties that a key is
requested once, that nothing is requested outside Exchange and Loading, and that
LoadingDone is raised only when nothing is left to request: without these a
flooded LSA could leave an older request behind or an adjacency could be Full with
one. It holds between the calls of a handler, so each call has its own lemma; flooding
is the relation `Flooded`, since whether an LSA is retransmitted depends on the state
and on what the neighbour has.

`ZebraRibProofs` proves, for all destinations, interfaces, daemons, static routes and
distances and any bounds (`ZebraAssumption`), every property that `zebra_table` checks:
`AtMostOneSelected` (`OneSelected`), `NoWorkIsLost` (`NothingIsLost`),
`UnqueuedIsSettled` (`Settled`), `RedistributionIsExact` (`ClientIsTold`) and
`NothingStaleInKernel` (`KernelIsSelected`), and `TypeCorrect`. The inductive invariant
is `IInv == TypeOK /\ Queues(table, ifup) /\ RowsOK /\ LinesOK`:

* `RowsOK` is about one destination at a time: its selected entry, what the kernel
  has of it and what the client has been told of it belong together. `rib_process`
  is the only function that changes the three, and its lemmas follow its branches.
* `LinesOK` says that every configured static line is a next hop of a live entry.
* `Queues` is about the whole table. Its flags and sub-queues agree (`Sound`), removed
  entries wait (`RemovedOK`), and destinations that do not wait are decided and have
  current next hops (`Settles`, with `Current`). The last is not inductive, because processing a connected route changes the next
  hops of destinations that it never looks at. What makes it true is the order of the
  sub-queues: `Gates` says that while the connected entry of a destination has
  still to be selected or unselected, it waits in the first sub-queue and everything
  that may depend on it waits in a later one. `if_up` and `if_down` provide for that by
  calling `rib_update`, and `meta_queue_process` preserves it since it takes nothing
  from a later sub-queue before the first is empty.

`Evolves` composes the calls of one handler (`rib_delnode`, `rib_addnode`,
`rib_queue_add`, ...) in the way `Fit` does for `BgpFsm`. `Restart` reads the interfaces, the
kernel and the configuration, each of them one by one. These are folds over finite sets, and as induction is not available, `Fold` constructs them by a least
counterexample (`CountingHolds`); that `Order` lists a finite set (`OrdersHold`) and
that sets stay finite (`FiniteChange`, `Finite`) come from the library's theorems on
finite sets.

Only model-checked: the liveness properties (`ClearingEnds`, `Converges`,
`Attended`), which are out of the prover's reach, as are ENABLED, induction over data
and RECURSIVE operators (no module here has any); `KeysUnshared`,
`CheapestAnnounced` and `NeighboursAgree` of `DbgpWiser`; `InStep` and
`FullIsSynchronised` of `OspfAdjacency`, which need an invariant over all packets on
the way; `InstalledAtHead` of `Babel`.

## 5. What is not modelled

* Contents of packets, parsing and encoding, TCP options, route refresh and ORF
  beyond the re-announcement, dynamic capabilities.
* Static, aggregate and redistributed routes, route-server tables, multipath,
  deterministic-med, adj-in in `BgpRib`; the single steps of `bgp_info_cmp`, and changes
  of MED policy or IGP metric that alter the order of paths already in the table.
* Partial reads of a packet, and the life of two complete daemons against each
  other (the takeover race the comment at `bgpd/bgp_packet.c:1402` describes).
* Thread structures that are used again. A pointer that `thread_cancel_event` leaves
  behind may by then stand for another thread (`lib/thread.c:673`, `:932-947`); in `BgpFsm`
  cancelling through it has no effect. The graceful-restart timers are such pointers:
  `StaleIsSweepable` asks for NSF mode, which every later sweep tests, and not for a timer
  that is still armed.
* Pathlets, the benchmark protocol, equal random keys, errors of redis.
* Reference counts of attributes, paths and nodes.
* zebra: recursive next hops (ZEBRA_FLAG_INTERNAL), interface prefixes that nest,
  failing deletions from the kernel, several tables, the IPv6 copies of the functions,
  route-maps, FPM, reference counts of connected addresses, routes that others
  delete from the kernel.
* OSPF: the interface machine and the election of a designated router, MaxAge and
  flushing, opaque LSAs, mismatched options and MTUs, the tie-break by checksum, SPF.
* Babel: what the assumptions above exclude; liveness (a router without a route
  asks for a new sequence number by requests that are forwarded and resent), which
  depends on timers the model leaves open; several prefixes: the loop of
  `retract_neighbour_routes` increments its index twice (`babeld/route.c:867`, `:880`) and
  visits the routes of every second prefix only, which an instance with one does not show.
* OSPFv3, RIP, RIPng, IS-IS, PIM, watchquagga, and the library beyond threads and
  work queues. They share no state with the modelled parts but zebra's messages.

## 6. Plan

1. `DbgpWiser` proofs: `KeysUnshared`; `Babel`: `InstalledAtHead`.
2. `OspfAdjacency` proofs: `InStep`, then `FullIsSynchronised`.
3. An abstract specification of the table (selected path, what each neighbour
   believes) that `BgpRib` implements, and one of the session (down, up,
   clearing) that `BgpFsm` implements and `BgpRib` assumes.
4. `BgpDecision`: `bgp_info_cmp` and `wiser_info_cmp` as operators, with
   antisymmetry, and the dependence on the order of the list with and without
   deterministic-med, against a reference definition.
5. `Pathlets`: the graph, identifier and address pools, announcements.
6. Two composed routers: open collision and takeover on both sides, equal timers.
7. Adj-in and soft reconfiguration, static routes and interned attributes with
   reference counts in `BgpRib`.
8. watchquagga's restart phases with signals that coalesce, RIP's route timers,
   the OSPF interface machine, Babel's requests with their liveness.

Runs of the plan replace or join those above; bounds as small as here (two or
three actors, one or two data values) are expected to be enough for each.
