------------------------------- MODULE BgpFsm -------------------------------
(***************************************************************************)
(* The session control of one bgpd neighbour: the peer finite state        *)
(* machine of bgp_fsm.c, the read and write handlers of bgp_packet.c that  *)
(* feed it, the accept path of bgp_network.c with its temporary peers, the *)
(* configuration commands of bgpd.c and the work queue that clears the     *)
(* peer's routes, all run by the thread scheduler of lib/thread.c.         *)
(*                                                                         *)
(* bgpd is single-threaded.  thread_fetch moves the pending events, the    *)
(* expired timers, the ready descriptors and the background work, in that  *)
(* order, to the ready list when that list is empty, and every handler     *)
(* then runs to its end.  A handler here is an operator from peer record   *)
(* to peer record; one action runs the head of one peer's ready list.      *)
(***************************************************************************)
EXTENDS Naturals, Sequences

CONSTANTS
  Real,          \* the configured peer
  Accept,        \* slots for the temporary peers bgp_accept creates
  RouteAFs,      \* address families in which the neighbour announces a route
  OpenCaps,      \* graceful-restart capabilities its OPEN may carry
  Passive,       \* PEER_FLAG_PASSIVE is configured
  PmaxRestart,   \* maximum-prefix is configured with a restart timer
  MaxBatch,      \* bound: timers and descriptors that one thread_fetch finds
  MaxClearQueue  \* bound: nodes the clear queue gathers before it must run

ASSUME FsmAssumption ==
  /\ Real \notin Accept
  /\ RouteAFs \subseteq {"ipv4", "ipv6"}
  /\ OpenCaps \subseteq {"none", "restart", "preserve"}
  /\ {Passive, PmaxRestart} \subseteq BOOLEAN
  /\ {MaxBatch, MaxClearQueue} \subseteq Nat \ {0}

VARIABLE peer    \* one record per struct peer

Peers == {Real} \cup Accept

AFs == {"ipv4", "ipv6"}

Timers == {"t_start", "t_connect", "t_holdtime", "t_keepalive", "t_routeadv",
           "t_gr_restart", "t_gr_stale", "t_pmax_restart"}

\* The timers that bgp_timer_set and bgp_stop manage.
SessionTimers == {"t_start", "t_connect", "t_holdtime", "t_keepalive", "t_routeadv"}

Threads == Timers \cup {"t_read", "t_write"}

Events == {"BGP_Start", "BGP_Stop", "TCP_connection_open", "TCP_connection_closed",
           "TCP_connection_open_failed", "TCP_fatal_error", "ConnectRetry_timer_expired",
           "Hold_Timer_expired", "KeepAlive_timer_expired", "Receive_OPEN_message",
           "Receive_KEEPALIVE_message", "Receive_UPDATE_message",
           "Receive_NOTIFICATION_message", "Clearing_Completed"}

\* Threads whose argument is not the peer, so that BGP_EVENT_FLUSH keeps them:
\* the listening socket, a terminal or zebra connection, the clear queue.
Foreign == {"accept", "command", "clear_node_queue"}

Status == {"Idle", "Connect", "Active", "OpenSent", "OpenConfirm", "Established",
           "Clearing", "Deleted", "Free"}

NotifiableStatus == {"OpenSent", "OpenConfirm", "Established"}

\* Outcome of the system call a handler makes.  A connect is refused at once,
\* completes, stays in progress, or gets no socket, in which case the -1 that
\* bgp_connect returns is none of the cases of bgp_start; a write fails,
\* completes or is cut short.
IO == {"ok", "wait", "fail", "nosock"}

Capability == {"none", "restart", "preserve"}

PeerState ==
  [accept : BOOLEAN,           \* PEER_STATUS_ACCEPT_PEER
   status : Status,            \* "Free": the structure does not exist
   fd : BOOLEAN,               \* peer->fd >= 0
   ptr : SUBSET Threads,       \* the thread pointers that are not NULL
   armed : SUBSET Threads,     \* threads on the master's timer and fd lists
   event : Seq(Events),        \* the peer's part of master->event
   ready : Seq(Events \cup Threads \cup Foreign),  \* and of master->ready
   shutdown : BOOLEAN,         \* PEER_FLAG_SHUTDOWN
   overflow : BOOLEAN,         \* PEER_STATUS_PREFIX_OVERFLOW
   nsfWait : BOOLEAN,          \* PEER_STATUS_NSF_WAIT
   nsf : BOOLEAN,              \* PEER_STATUS_NSF_MODE and nsf[afi][safi]
   holdtime : BOOLEAN,         \* v_holdtime is not zero
   cap : Capability,           \* graceful restart as the two OPENs agreed it
   rib : [AFs -> {"none", "fresh", "stale"}], \* the peer's route, per family
   clearq : Seq(AFs)]          \* clear_node_queue: nodes to visit

NoPeer ==
  [accept |-> FALSE, status |-> "Free", fd |-> FALSE, ptr |-> {}, armed |-> {},
   event |-> <<>>, ready |-> <<>>, shutdown |-> FALSE, overflow |-> FALSE,
   nsfWait |-> FALSE, nsf |-> FALSE, holdtime |-> TRUE, cap |-> "none",
   rib |-> [af \in AFs |-> "none"], clearq |-> <<>>]

\* The elements of list q that are in S, in their order.
Filter(q, S) ==
  LET kept[i \in 0 .. Len(q)] ==
        IF i = 0 THEN <<>>
        ELSE IF q[i] \in S THEN Append(kept[i - 1], q[i]) ELSE kept[i - 1]
  IN  kept[Len(q)]

(***************************************************************************)
(* The thread macros of bgp_fsm.h.                                         *)
(***************************************************************************)

\* BGP_READ_ON, BGP_WRITE_ON, BGP_TIMER_ON: nothing if the pointer is set.
ThreadOn(s, T) ==
  IF s.status = "Deleted" THEN s
  ELSE [s EXCEPT !.ptr = @ \cup T, !.armed = @ \cup (T \ s.ptr)]

\* BGP_*_OFF: thread_cancel takes the thread off whatever list it is on.
ThreadOff(s, T) ==
  [s EXCEPT !.ptr = @ \ T, !.armed = @ \ T,
            !.ready = Filter(@, (Events \cup Threads \cup Foreign) \ T)]

EventAdd(s, e) ==
  IF s.status = "Deleted" THEN s ELSE [s EXCEPT !.event = Append(@, e)]

\* thread_cancel_event: also cancels the peer's ready timers and descriptors,
\* whose pointers in struct peer keep their value.
EventFlush(s) ==
  [s EXCEPT !.event = <<>>, !.ready = Filter(@, Foreign)]

Suppressed(s) == s.shutdown \/ s.overflow

\* An accepted peer is configured for no address family: peer_active is false.
WantedTimers(s) ==
  CASE s.status = "Idle" -> IF Suppressed(s) \/ s.accept THEN {} ELSE {"t_start"}
    [] s.status = "Connect" -> {"t_connect"}
    [] s.status = "Active" ->
         IF (Passive /\ ~s.accept) \/ s.nsfWait THEN {} ELSE {"t_connect"}
    [] s.status = "OpenSent" -> IF s.holdtime THEN {"t_holdtime"} ELSE {}
    [] s.status = "OpenConfirm" -> IF s.holdtime THEN {"t_holdtime", "t_keepalive"} ELSE {}
    [] s.status = "Established" ->
         IF s.holdtime THEN {"t_holdtime", "t_keepalive"} ELSE {}
    [] OTHER -> {}

UnwantedTimers(s) ==
  CASE s.status = "Established" -> SessionTimers \ (WantedTimers(s) \cup {"t_routeadv"})
    [] s.status = "Deleted" -> Timers
    [] OTHER -> SessionTimers \ WantedTimers(s)

bgp_timer_set(s) == ThreadOn(ThreadOff(s, UnwantedTimers(s)), WantedTimers(s))

(***************************************************************************)
(* Clearing the peer's routes: bgp_route.c.                                *)
(***************************************************************************)

bgp_clear_stale_route(s) ==
  [s EXCEPT !.rib = [af \in AFs |-> IF @[af] = "stale" THEN "none" ELSE @[af]]]

\* The queue's thread pointer is set exactly while the queue holds a node.  A
\* family without routes completes at once if no earlier family queued a node.
bgp_clear_route(s, af) ==
  LET queued == IF s.rib[af] = "none" THEN s ELSE [s EXCEPT !.clearq = Append(@, af)]
  IN  IF queued.clearq = <<>> THEN EventAdd(queued, "Clearing_Completed") ELSE queued

bgp_clear_route_all(s) == bgp_clear_route(bgp_clear_route(s, "ipv4"), "ipv6")

bgp_clear_route_node(s, af) ==
  [s EXCEPT !.rib[af] =
     IF s.nsfWait /\ s.nsf /\ @ = "fresh" THEN "stale" ELSE "none"]

(***************************************************************************)
(* The functions of the state machine: bgp_fsm.c.                          *)
(***************************************************************************)

bgp_fsm_change_status(s, st) ==
  [(IF st \in {"Clearing", "Deleted"} THEN bgp_clear_route_all(s) ELSE s)
     EXCEPT !.status = st]

\* Mutant: events are flushed in Clearing too, Clearing_Completed among them.
StopFlushesClearing(s) ==
  [ThreadOff(EventFlush(s), SessionTimers \cup {"t_read", "t_write"})
     EXCEPT !.fd = FALSE, !.cap = "none", !.holdtime = TRUE,
            !.nsf = @ /\ (s.status # "Established" \/ s.nsfWait)]

\* Mutant: the read thread is left on.
StopKeepsReading(s) ==
  LET flushed == IF s.status = "Clearing" THEN s ELSE EventFlush(s)
  IN  [ThreadOff(flushed, SessionTimers \cup {"t_write", "t_gr_stale"})
         EXCEPT !.fd = FALSE, !.cap = "none", !.holdtime = TRUE,
                !.nsf = @ /\ (s.status # "Established" \/ s.nsfWait)]

bgp_stop(s) ==
  LET flushed == IF s.status = "Clearing" THEN s ELSE EventFlush(s)
      down == CASE s.status # "Established" -> flushed
                [] s.status = "Established" /\ s.nsfWait ->
                     ThreadOn(ThreadOff(flushed, {"t_gr_stale"}), {"t_gr_restart", "t_gr_stale"})
                [] OTHER -> [ThreadOff(flushed, {"t_gr_stale"}) EXCEPT !.nsf = FALSE]
  IN  [ThreadOff(down, SessionTimers \cup {"t_read", "t_write"})
         EXCEPT !.fd = FALSE, !.cap = "none", !.holdtime = TRUE]

\* bgp_notify_send writes at once; the write's outcome becomes the next event.
bgp_notify_send(s, io) ==
  EventAdd(ThreadOff(s, {"t_write"}), IF io = "fail" THEN "TCP_fatal_error" ELSE "BGP_Stop")

peer_nsf_stop(s) ==
  bgp_clear_route_all([ThreadOff(s, {"t_gr_restart", "t_gr_stale"})
                         EXCEPT !.nsfWait = FALSE, !.nsf = FALSE])

\* The structure is freed when no queued node and no route refers to it.
peer_unlock(s) ==
  IF s.status = "Deleted" /\ s.clearq = <<>>
  THEN [NoPeer EXCEPT !.ready = EventFlush(s).ready]
  ELSE s

peer_delete(s) ==
  LET stopped == bgp_stop(IF s.nsfWait THEN peer_nsf_stop(s) ELSE s)
  IN  peer_unlock(bgp_timer_set(bgp_fsm_change_status(stopped, "Deleted")))

bgp_stop_with_notify(s, io) ==
  LET t == bgp_notify_send(s, io) IN IF s.accept THEN peer_delete(t) ELSE bgp_stop(t)

bgp_connect_success(s) ==
  IF ~s.fd THEN s
  ELSE ThreadOn(s, IF s.accept THEN {"t_read"} ELSE {"t_read", "t_write"})

bgp_start(s, io) ==
  CASE Suppressed(s) -> s
    [] ~Suppressed(s) /\ Passive /\ ~s.accept -> EventAdd(s, "TCP_connection_open_failed")
    [] OTHER ->
         LET t == [s EXCEPT !.fd = io # "nosock"]
         IN  CASE io = "ok" -> EventAdd(t, "TCP_connection_open")
               [] io = "wait" -> ThreadOn(t, {"t_read", "t_write"})
               [] io = "fail" -> EventAdd(t, "TCP_connection_open_failed")
               [] OTHER -> t

\* Mutant: a neighbour that did not preserve its state keeps its stale routes.
EstablishUnswept(s) ==
  ThreadOn(ThreadOff([s EXCEPT !.status = "Established", !.nsfWait = FALSE,
                               !.nsf = (s.cap # "none")],
                     IF s.cap = "none" THEN {"t_gr_stale", "t_gr_restart"} ELSE {"t_gr_restart"}),
           IF s.holdtime THEN {"t_write", "t_routeadv"} ELSE {"t_routeadv"})

bgp_establish(s) ==
  LET up == [s EXCEPT !.status = "Established", !.nsfWait = FALSE, !.nsf = (s.cap # "none")]
      swept == IF s.nsf /\ s.cap # "preserve" THEN bgp_clear_stale_route(up) ELSE up
      gr == IF s.cap = "none" THEN {"t_gr_stale", "t_gr_restart"} ELSE {"t_gr_restart"}
  IN  ThreadOn(ThreadOff(swept, gr),
               IF s.holdtime THEN {"t_write", "t_routeadv"} ELSE {"t_routeadv"})

\* The table FSM[][]: the function to call and the next status.
FSM(st, e) ==
  CASE st = "Idle" ->
         CASE e = "BGP_Start" -> <<"bgp_start", "Connect">>
           [] e \in {"BGP_Stop", "TCP_connection_open", "TCP_connection_closed",
                     "TCP_fatal_error"} -> <<"bgp_stop", "Idle">>
           [] OTHER -> <<"bgp_ignore", "Idle">>
    [] st = "Connect" ->
         CASE e = "BGP_Start" -> <<"bgp_ignore", "Connect">>
           [] e \in {"BGP_Stop", "TCP_connection_closed",
                     "Receive_NOTIFICATION_message"} -> <<"bgp_stop", "Idle">>
           [] e = "TCP_connection_open" -> <<"bgp_connect_success", "OpenSent">>
           [] e = "TCP_connection_open_failed" -> <<"bgp_connect_fail", "Active">>
           [] e = "TCP_fatal_error" -> <<"bgp_connect_fail", "Idle">>
           [] e = "ConnectRetry_timer_expired" -> <<"bgp_reconnect", "Connect">>
           [] OTHER -> <<"bgp_ignore", "Idle">>
    [] st = "Active" ->
         CASE e \in {"BGP_Start", "TCP_connection_open_failed"} -> <<"bgp_ignore", "Active">>
           [] e \in {"BGP_Stop", "TCP_connection_closed"} -> <<"bgp_stop", "Idle">>
           [] e = "TCP_connection_open" -> <<"bgp_connect_success", "OpenSent">>
           [] e = "ConnectRetry_timer_expired" -> <<"bgp_start", "Connect">>
           [] e = "Receive_NOTIFICATION_message" -> <<"bgp_stop_with_error", "Idle">>
           [] OTHER -> <<"bgp_ignore", "Idle">>
    [] st = "OpenSent" ->
         CASE e = "BGP_Start" -> <<"bgp_ignore", "OpenSent">>
           [] e = "BGP_Stop" -> <<"bgp_stop", "Idle">>
           [] e \in {"TCP_connection_open", "TCP_connection_closed",
                     "TCP_connection_open_failed", "TCP_fatal_error"} -> <<"bgp_stop", "Active">>
           [] e = "Hold_Timer_expired" -> <<"bgp_fsm_holdtime_expire", "Idle">>
           [] e = "Receive_OPEN_message" -> <<"bgp_fsm_open", "OpenConfirm">>
           [] e \in {"Receive_KEEPALIVE_message", "Receive_UPDATE_message"} ->
                <<"bgp_fsm_event_error", "Idle">>
           [] e = "Receive_NOTIFICATION_message" -> <<"bgp_stop_with_error", "Idle">>
           [] OTHER -> <<"bgp_ignore", "Idle">>
    [] st = "OpenConfirm" ->
         CASE e \in {"BGP_Start", "KeepAlive_timer_expired"} -> <<"bgp_ignore", "OpenConfirm">>
           [] e \in {"BGP_Stop", "TCP_connection_open", "TCP_connection_closed",
                     "TCP_connection_open_failed", "TCP_fatal_error"} -> <<"bgp_stop", "Idle">>
           [] e = "Hold_Timer_expired" -> <<"bgp_fsm_holdtime_expire", "Idle">>
           [] e = "Receive_KEEPALIVE_message" -> <<"bgp_establish", "Established">>
           [] e = "Receive_NOTIFICATION_message" -> <<"bgp_stop_with_error", "Idle">>
           [] OTHER -> <<"bgp_ignore", "Idle">>
    [] st = "Established" ->
         CASE e = "BGP_Start" -> <<"bgp_ignore", "Established">>
           [] e = "Hold_Timer_expired" -> <<"bgp_fsm_holdtime_expire", "Clearing">>
           [] e = "KeepAlive_timer_expired" -> <<"bgp_fsm_keepalive_expire", "Established">>
           [] e = "Receive_KEEPALIVE_message" -> <<"bgp_fsm_keepalive", "Established">>
           [] e = "Receive_UPDATE_message" -> <<"bgp_fsm_update", "Established">>
           [] e = "Receive_NOTIFICATION_message" -> <<"bgp_stop_with_error", "Clearing">>
           [] e = "Clearing_Completed" -> <<"bgp_ignore", "Idle">>
           [] OTHER -> <<"bgp_stop", "Clearing">>
    [] st = "Clearing" ->
         CASE e = "BGP_Start" -> <<"bgp_ignore", "Clearing">>
           [] e = "Clearing_Completed" -> <<"bgp_clearing_completed", "Idle">>
           [] OTHER -> <<"bgp_stop", "Clearing">>
    [] OTHER -> <<"bgp_ignore", st>>

CallFsm(f, s, io) ==
  CASE f = "bgp_start" -> bgp_start(s, io)
    [] f \in {"bgp_stop", "bgp_connect_fail", "bgp_stop_with_error"} -> bgp_stop(s)
    [] f = "bgp_reconnect" -> bgp_start(bgp_stop(s), io)
    [] f = "bgp_connect_success" -> bgp_connect_success(s)
    [] f \in {"bgp_fsm_holdtime_expire", "bgp_fsm_event_error"} -> bgp_stop_with_notify(s, io)
    [] f = "bgp_fsm_open" -> ThreadOff(ThreadOn(s, {"t_write"}), {"t_holdtime"})
    [] f = "bgp_fsm_keepalive_expire" -> ThreadOn(s, {"t_write"})
    [] f \in {"bgp_fsm_keepalive", "bgp_fsm_update"} -> ThreadOff(s, {"t_holdtime"})
    [] f = "bgp_establish" -> bgp_establish(s)
    [] f = "bgp_clearing_completed" -> EventFlush(bgp_stop(s))
    [] OTHER -> s

\* The function returns -1: bgp_event then changes neither status nor timers.
CallFails(f, s) ==
  \/ f = "bgp_start" /\ Suppressed(s)
  \/ f = "bgp_connect_success" /\ ~s.fd
  \/ f \in {"bgp_fsm_holdtime_expire", "bgp_fsm_event_error"} /\ s.accept

\* Mutant: the columns of the table are taken in the wrong order.
EventColumnsSwapped(s, e, io) ==
  [CallFsm(FSM(s.status, e)[2], s, io) EXCEPT !.status = FSM(s.status, e)[1]]

bgp_event(s, e, io) ==
  LET f == FSM(s.status, e)[1]
      next == FSM(s.status, e)[2]
      t == CallFsm(f, s, io)
  IN  IF CallFails(f, s) THEN t
      ELSE bgp_timer_set(IF next = t.status THEN t ELSE bgp_fsm_change_status(t, next))

(***************************************************************************)
(* Commands and timers.                                                    *)
(***************************************************************************)

\* bgp_notify_send in a state that has a session, a BGP_Stop event otherwise.
NotifyOrStop(s, io) ==
  IF s.status \in NotifiableStatus THEN bgp_notify_send(s, io) ELSE EventAdd(s, "BGP_Stop")

\* Mutant: the overflow is forgiven and the peer is not started.
PeerClearUnstarted(s, io) ==
  CASE s.shutdown -> s
    [] ~s.shutdown /\ s.overflow ->
         [ThreadOff(s, {"t_pmax_restart"}) EXCEPT !.overflow = FALSE]
    [] OTHER -> NotifyOrStop(s, io)

peer_clear(s, io) ==
  CASE s.shutdown -> s
    [] ~s.shutdown /\ s.overflow ->
         EventAdd([ThreadOff(s, {"t_pmax_restart"}) EXCEPT !.overflow = FALSE], "BGP_Start")
    [] OTHER -> NotifyOrStop(s, io)

peer_shutdown(s, io) ==
  LET set == [s EXCEPT !.shutdown = TRUE]
      t == IF s.nsfWait THEN peer_nsf_stop(set) ELSE set
  IN  NotifyOrStop([ThreadOff(t, {"t_pmax_restart"}) EXCEPT !.overflow = FALSE], io)

peer_no_shutdown(s) == EventAdd([s EXCEPT !.shutdown = FALSE], "BGP_Stop")

bgp_graceful_restart_timer_expire(s) ==
  LET swept == IF s.nsf THEN bgp_clear_stale_route(s) ELSE s
  IN  bgp_timer_set(ThreadOff([swept EXCEPT !.nsfWait = FALSE], {"t_gr_stale"}))

\* A timer's handler: the pointer is reset first.
TimerExpire(s, t, io) ==
  LET u == [s EXCEPT !.ptr = @ \ {t}]
  IN  CASE t = "t_start" -> bgp_event(u, "BGP_Start", io)
        [] t = "t_connect" -> bgp_event(u, "ConnectRetry_timer_expired", io)
        [] t = "t_holdtime" -> bgp_event(u, "Hold_Timer_expired", io)
        [] t = "t_keepalive" -> bgp_event(u, "KeepAlive_timer_expired", io)
        [] t = "t_routeadv" -> ThreadOn(u, {"t_write", "t_routeadv"})
        [] t = "t_gr_restart" -> bgp_graceful_restart_timer_expire(u)
        [] t = "t_gr_stale" -> IF u.nsf THEN bgp_clear_stale_route(u) ELSE u
        [] OTHER -> peer_clear(u, io)

(***************************************************************************)
(* Reading and writing: bgp_packet.c.                                      *)
(***************************************************************************)

bgp_connect_check(s, io) ==
  EventAdd(ThreadOff(s, {"t_read", "t_write"}),
           CASE io = "nosock" -> "TCP_fatal_error"
             [] io = "fail" -> "TCP_connection_open_failed"
             [] OTHER -> "TCP_connection_open")

bgp_write(s, io) ==
  LET t == [s EXCEPT !.ptr = @ \ {"t_write"}]
  IN  CASE s.status = "Connect" -> bgp_connect_check(t, io)
        [] s.status # "Connect" /\ io = "fail" -> EventAdd(t, "TCP_fatal_error")
        [] s.status # "Connect" /\ io = "wait" -> ThreadOn(t, {"t_write"})
        [] OTHER -> t

\* The connection broke: graceful restart begins if it was negotiated.
LostSession(s, e) ==
  EventAdd([s EXCEPT !.nsfWait = @ \/ (s.status = "Established" /\ s.nsf)], e)

\* A received message other than OPEN; "part" is an incomplete one, "bad" one
\* that a header, length or attribute check rejects.
Messages == {"part", "error", "eof", "bad", "notification", "keepalive", "eor"}
              \cup ({"reach", "overflow", "withdraw"} \X RouteAFs)

\* bgp_maximum_prefix_overflow: the limit is passed.
PrefixOverflow(s, io) ==
  ThreadOn(bgp_notify_send([s EXCEPT !.overflow = TRUE], io),
           IF PmaxRestart THEN {"t_pmax_restart"} ELSE {})

\* Mutant: the hold timer is stopped and not set again.
UpdateStopsHoldTimer(s, m, io) ==
  IF s.status # "Established" THEN bgp_notify_send(s, io) ELSE ThreadOff(s, {"t_holdtime"})

bgp_update_receive(s, m, io) ==
  LET t == CASE m = "eor" -> IF s.nsf THEN bgp_clear_stale_route(s) ELSE s
             [] m # "eor" /\ m[1] = "withdraw" -> [s EXCEPT !.rib[m[2]] = "none"]
             [] m # "eor" /\ m[1] = "overflow" -> PrefixOverflow([s EXCEPT !.rib[m[2]] = "fresh"], io)
             [] OTHER -> [s EXCEPT !.rib[m[2]] = "fresh"]
  IN  IF s.status # "Established" THEN bgp_notify_send(s, io)
      ELSE bgp_timer_set(ThreadOff(t, {"t_holdtime"}))

Receive(s, m, io) ==
  CASE m = "part" -> s
    [] m = "error" -> LostSession(s, "TCP_fatal_error")
    [] m = "eof" -> LostSession(s, "TCP_connection_closed")
    [] m = "bad" -> bgp_notify_send(s, io)
    [] m = "notification" -> EventAdd(s, "Receive_NOTIFICATION_message")
    [] m = "keepalive" -> EventAdd(s, "Receive_KEEPALIVE_message")
    [] OTHER -> bgp_update_receive(s, m, io)

\* bgp_open_receive after the collision check: the OPEN is good, or a check
\* of the identifier, version, AS or hold time ("early") or of the options
\* ("late", the hold time and some capabilities are taken) refuses it.
Opens == [fate : {"good", "early", "late"}, holdtime : BOOLEAN, cap : OpenCaps]

OpenChecks(s, o, io) ==
  LET t == [s EXCEPT !.holdtime = o.holdtime, !.cap = o.cap]
  IN  CASE o.fate = "early" -> bgp_notify_send(s, io)
        [] o.fate = "late" -> bgp_notify_send(t, io)
        [] OTHER -> EventAdd(t, "Receive_OPEN_message")

\* Mutant: nothing reads from the connection that was taken over.
TransferUnread(r, a) ==
  ThreadOn([bgp_stop(r) EXCEPT !.fd = a.fd, !.status = a.status], {"t_write"})

\* The "hack part": the connection of accepted peer a becomes the real peer's.
TransferAccept(r, a) ==
  LET waiting == [r EXCEPT !.nsfWait = @ \/ (r.status = "Established" /\ r.nsf)]
  IN  ThreadOn([bgp_stop(waiting) EXCEPT !.fd = a.fd, !.status = a.status],
               {"t_read", "t_write"})

(***************************************************************************)
(* Actions: the scheduler and one action per kind of ready thread.         *)
(***************************************************************************)

\* The order in which thread_fetch fills the ready list.
ScheduleClass(x) ==
  CASE x \in Timers -> 1
    [] x \in {"t_read", "accept", "command"} -> 2
    [] x = "t_write" -> 3
    [] OTHER -> 4

\* A connection comes in only if the model has a slot for it.
Due == {d \in Peers \X (Threads \cup Foreign) :
          \/ d[2] \in peer[d[1]].armed
          \/ d[1] = Real /\ d[2] = "command"
          \/ d[1] = Real /\ d[2] = "accept" /\ Accept # {}
          \/ d[2] = "clear_node_queue" /\ peer[d[1]].clearq # <<>>}

Batches == {b \in UNION {[1..n -> Due] : n \in 0..MaxBatch} :
              \A i, j \in DOMAIN b :
                i < j => b[i] # b[j] /\ ScheduleClass(b[i][2]) <= ScheduleClass(b[j][2])}

BatchOf(p, b) ==
  LET mine == Filter(b, {p} \X (Threads \cup Foreign)) IN [i \in DOMAIN mine |-> mine[i][2]]

Fetched(s, b) ==
  [s EXCEPT !.ready = s.event \o b, !.event = <<>>, !.armed = @ \ {b[i] : i \in DOMAIN b}]

\* The clear queue's hold time is over before it has gathered more nodes.
ClearQueueDue(b) ==
  \A p \in Peers : Len(peer[p].clearq) >= MaxClearQueue =>
    \E i \in DOMAIN b : b[i] = <<p, "clear_node_queue">>

\* thread_fetch with an empty ready list: events, then timers, descriptors
\* and background work.  select blocks when nothing at all is due.
thread_fetch ==
  /\ \A p \in Peers : peer[p].ready = <<>>
  /\ \E b \in Batches :
       /\ b # <<>> \/ \E p \in Peers : peer[p].event # <<>>
       /\ ClearQueueDue(b)
       /\ peer' = [p \in Peers |-> Fetched(peer[p], BatchOf(p, b))]

Ready(p, X) == peer[p].ready # <<>> /\ Head(peer[p].ready) \in X

\* The thread that runs is off the ready list.
Running(p) == [peer[p] EXCEPT !.ready = Tail(@)]

RunEvent(p) ==
  /\ Ready(p, Events)
  /\ \E io \in IO :
       peer' = [peer EXCEPT ![p] = bgp_event(Running(p), Head(peer[p].ready), io)]

RunTimer(p) ==
  /\ Ready(p, Timers)
  /\ \E io \in IO :
       peer' = [peer EXCEPT ![p] = TimerExpire(Running(p), Head(peer[p].ready), io)]

RunWrite(p) ==
  /\ Ready(p, {"t_write"})
  /\ \E io \in IO : peer' = [peer EXCEPT ![p] = bgp_write(Running(p), io)]

\* bgp_read deletes a temporary peer at its end, whatever it has read.
EndRead(s) == IF s.accept THEN peer_delete(s) ELSE s

\* bgp_read on a connection still being set up, or without a descriptor.
RunReadConnecting(p) ==
  LET s == [Running(p) EXCEPT !.ptr = @ \ {"t_read"}]
  IN  /\ Ready(p, {"t_read"})
      /\ s.status = "Connect" \/ ~s.fd
      /\ \E io \in IO :
           peer' = [peer EXCEPT ![p] =
                      IF s.status = "Connect" THEN EndRead(bgp_connect_check(s, io)) ELSE s]

\* The peer as bgp_read leaves it once its read thread is on again.
Reading(p) == ThreadOn([Running(p) EXCEPT !.ptr = @ \ {"t_read"}], {"t_read"})

ReadsMessage(p) == Ready(p, {"t_read"}) /\ peer[p].status # "Connect" /\ peer[p].fd

RunReadMessage(p) ==
  /\ ReadsMessage(p)
  /\ \E m \in Messages, io \in IO :
       peer' = [peer EXCEPT ![p] = EndRead(Receive(Reading(p), m, io))]

\* bgp_collision_detect: the other connections with the neighbour that have
\* sent their OPEN.
Colliding(p) == {q \in Peers \ {p} : peer[q].status \in {"OpenSent", "OpenConfirm"}}

RealKnown == peer[Real].status \notin {"Deleted", "Free"}

\* bgp_open_receive finds no configured peer for an accepted connection.
UnknownPeer(p) == p # Real /\ ~RealKnown

\* Nothing collides, and the real peer is in no state to take p's connection over.
NotTakenOver(p) ==
  /\ p # Real
  /\ Colliding(p) = {}
  /\ peer[Real].status \notin {"Active", "OpenSent", "OpenConfirm", "Connect"}
  /\ ~(peer[Real].status = "Established" /\ peer[Real].nsf)

\* bgp_open_receive turns the OPEN down before any transfer.  The identifier in
\* the OPEN decides which of two colliding connections wins, so that a
\* collision allows both OpenRefused and OpenTaken.
OpenRefused(p) == UnknownPeer(p) \/ Colliding(p) # {} \/ NotTakenOver(p)

OpenTaken(p) == ~UnknownPeer(p) /\ ~NotTakenOver(p)

RunReadOpenRefused(p) ==
  /\ ReadsMessage(p)
  /\ OpenRefused(p)
  /\ \E io \in IO :
       peer' = [peer EXCEPT ![p] = EndRead(bgp_notify_send(Reading(p), io))]

\* The connections after bgp_collision_detect has closed one that p's wins over.
AfterCollision(p, io) ==
  IF Colliding(p) = {} THEN {peer}
  ELSE {IF peer[q].fd THEN [peer EXCEPT ![q] = bgp_notify_send(@, io)] ELSE peer :
          q \in Colliding(p)}

\* An OPEN on the real peer's own connection.
RunReadOpen ==
  /\ ReadsMessage(Real)
  /\ OpenTaken(Real)
  /\ \E o \in Opens, io \in IO : \E after \in AfterCollision(Real, io) :
       peer' = [after EXCEPT ![Real] = OpenChecks(Reading(Real), o, io)]

\* Mutant: the temporary peer goes on with the session itself.
OpenWithoutTransfer(p) ==
  /\ p # Real
  /\ ReadsMessage(p)
  /\ OpenTaken(p)
  /\ \E o \in Opens, io \in IO : peer' = [peer EXCEPT ![p] = OpenChecks(Reading(p), o, io)]

\* An OPEN on an accepted connection, which the real peer takes over.
RunReadOpenTransfer(p) ==
  /\ p # Real
  /\ ReadsMessage(p)
  /\ OpenTaken(p)
  /\ \E o \in Opens, io \in IO : \E after \in AfterCollision(p, io) :
       peer' = [after EXCEPT
                  ![Real] = OpenChecks(TransferAccept(@, Reading(p)), o, io),
                  ![p] = EndRead(bgp_stop(Reading(p)))]

\* bgp_accept: the accept call fails, the peer is unknown or Idle, or a
\* temporary peer is made.  Accept bounds how many there are at a time.
RunAccept ==
  /\ Ready(Real, {"accept"})
  /\ LET listened == [peer EXCEPT ![Real] = Running(Real)]
     IN  \/ peer' = listened
         \/ /\ RealKnown /\ peer[Real].status # "Idle"
            /\ \E a \in Accept :
                 /\ peer[a].status = "Free"
                 /\ peer' = [listened EXCEPT ![a] =
                       [NoPeer EXCEPT !.accept = TRUE, !.status = "Active", !.fd = TRUE,
                                      !.holdtime = peer[Real].holdtime,
                                      !.event = <<"TCP_connection_open">>]]

\* peer_create, activated for its address families.
NewPeer == bgp_timer_set([NoPeer EXCEPT !.status = "Idle"])

\* A terminal command, or zebra's report that the peer's interface is down.
RunCommand ==
  LET s == Running(Real)
  IN  /\ Ready(Real, {"command"})
      /\ \E io \in IO :
           \/ RealKnown /\ peer' = [peer EXCEPT ![Real] = peer_clear(s, io)]
           \/ RealKnown /\ ~s.shutdown
              /\ peer' = [peer EXCEPT ![Real] = peer_shutdown(s, io)]
           \/ RealKnown /\ s.shutdown /\ peer' = [peer EXCEPT ![Real] = peer_no_shutdown(s)]
           \/ RealKnown /\ peer' = [peer EXCEPT ![Real] = EventAdd(s, "BGP_Stop")]
           \/ RealKnown /\ peer' = [peer EXCEPT ![Real] = peer_delete(s)]
           \/ s.status = "Free"
              /\ peer' = [peer EXCEPT ![Real] = [NewPeer EXCEPT !.ready = s.ready]]
           \/ s.status = "Deleted" /\ peer' = [peer EXCEPT ![Real] = s]

\* Mutant: the queue has no completion function.
ClearQueueUncompleted(p) ==
  LET s == Running(p)
      t == [bgp_clear_route_node(s, Head(s.clearq)) EXCEPT !.clearq = Tail(@)]
  IN  /\ Ready(p, {"clear_node_queue"})
      /\ peer' = [peer EXCEPT ![p] = IF t.clearq = <<>> THEN peer_unlock(t) ELSE t]

\* work_queue_run of clear_node_queue: one node, then the completion function
\* if it was the last.
RunClearQueue(p) ==
  LET s == Running(p)
      t == [bgp_clear_route_node(s, Head(s.clearq)) EXCEPT !.clearq = Tail(@)]
  IN  /\ Ready(p, {"clear_node_queue"})
      /\ peer' = [peer EXCEPT ![p] =
            IF t.clearq = <<>> THEN peer_unlock(EventAdd(t, "Clearing_Completed")) ELSE t]

Run(p) ==
  \/ RunEvent(p)
  \/ RunTimer(p)
  \/ RunWrite(p)
  \/ RunReadConnecting(p)
  \/ RunReadMessage(p)
  \/ RunReadOpenRefused(p)
  \/ RunReadOpenTransfer(p)
  \/ RunClearQueue(p)

Init == peer = [p \in Peers |-> IF p = Real THEN NewPeer ELSE NoPeer]

Next == thread_fetch \/ RunReadOpen \/ RunAccept \/ RunCommand \/ \E p \in Peers : Run(p)

Spec == Init /\ [][Next]_peer

\* bgpd keeps running its ready threads; the clear queue's background thread
\* is due again and again, so a thread_fetch picks it up.
Fairness ==
  /\ WF_peer(thread_fetch)
  /\ WF_peer(RunReadOpen \/ RunAccept \/ RunCommand \/ \E p \in Peers : Run(p))
  /\ SF_peer(thread_fetch /\ \E i \in DOMAIN peer'[Real].ready :
                                peer'[Real].ready[i] = "clear_node_queue")

FairSpec == Spec /\ Fairness

(***************************************************************************)
(* Properties.                                                             *)
(***************************************************************************)

Scheduled(s, t) == t \in s.armed \/ \E i \in DOMAIN s.ready : s.ready[i] = t

Pending(s, e) == \E q \in {s.event, s.ready} : \E i \in DOMAIN q : q[i] = e

AnyPending(s) == \E e \in Events : Pending(s, e)

\* Every peer structure has the type of struct peer.
TypeOK == peer \in [Peers -> PeerState]

\* A peer in Clearing can leave it: nodes are left on its clear queue, whose
\* completion raises Clearing_Completed, or that event is pending already
\* (bgp_fsm_change_status, bgp_clear_route, bgp_clear_node_complete).
ClearingCompletes ==
  \A p \in Peers : peer[p].status = "Clearing" =>
    peer[p].clearq # <<>> \/ Pending(peer[p], "Clearing_Completed")

\* A session from OpenSent on is attended to: it has its connection, its
\* read thread is scheduled and, if a hold time is in force, so is its hold
\* timer, unless a pending event is about to end the session or set the timers
\* (bgp_timer_set, the re-arming in bgp_update_receive, the transfer in
\* bgp_open_receive, BGP_EVENT_FLUSH).
SessionAttended ==
  \A p \in Peers : peer[p].status \in NotifiableStatus =>
    /\ peer[p].fd
    /\ Scheduled(peer[p], "t_read")
    /\ peer[p].holdtime => Scheduled(peer[p], "t_holdtime") \/ AnyPending(peer[p])

\* While its routes are cleared a peer has no connection and no thread of the
\* old session is scheduled, so nothing of that session can still arrive
\* (bgp_stop before bgp_fsm_change_status).
ClearingIsQuiet ==
  \A p \in Peers : peer[p].status = "Clearing" =>
    ~peer[p].fd /\ \A t \in SessionTimers \cup {"t_read", "t_write"} : ~Scheduled(peer[p], t)

\* A stale route kept for a graceful restart is never orphaned: the peer is
\* still in NSF mode, in which End-of-RIB, the stale timer or the next OPEN
\* sweeps it, or the clear queue is about to visit it (bgp_clear_route_node,
\* bgp_stop, bgp_establish, peer_nsf_stop).
StaleIsSweepable ==
  \A p \in Peers : \A af \in AFs :
    peer[p].rib[af] = "stale" => peer[p].nsf \/ peer[p].clearq # <<>>

\* A temporary peer of bgp_accept never gets past OpenSent and never holds
\* routes: its connection is transferred to the configured peer before that
\* (bgp_open_receive, and the peer_delete at the end of bgp_read).
AcceptIsTemporary ==
  \A p \in Accept :
    /\ peer[p].status \notin {"OpenConfirm", "Established", "Clearing"}
    /\ \A af \in AFs : peer[p].rib[af] = "none"

\* A configured peer in Idle that is neither shut down nor over its prefix
\* limit will start again: its start timer is scheduled or an event that
\* makes bgp_timer_set run is pending (bgp_timer_set, peer_clear).
IdleRestarts ==
  LET s == peer[Real]
  IN  s.status = "Idle" /\ ~Suppressed(s) => Scheduled(s, "t_start") \/ AnyPending(s)

\* A peer that went into Clearing leaves it (bgp_clear_node_complete).
ClearingEnds == peer[Real].status = "Clearing" ~> peer[Real].status # "Clearing"

(***************************************************************************)
(* What comments and documents say and the code does not keep.             *)
(***************************************************************************)

\* The peer does not become Idle, from where it could start again, while its
\* clear queue still has nodes to visit (the comment in bgp_clear_route).
IdleOnlyWhenCleared == peer[Real].status = "Idle" => peer[Real].clearq = <<>>

\* "neighbor shutdown" drops the peer (doc/bgpd.texi): a peer that is shut
\* down has no Established session, or the event that ends it is pending.
ShutdownDropsPeer ==
  peer[Real].shutdown /\ peer[Real].status = "Established" =>
    Pending(peer[Real], "BGP_Stop") \/ Pending(peer[Real], "TCP_fatal_error")

=============================================================================
