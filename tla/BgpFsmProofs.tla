---------------------------- MODULE BgpFsmProofs ----------------------------
(***************************************************************************)
(* Proofs about BgpFsm for any number of accepted connections, any length  *)
(* of the ready list and all capabilities.                                 *)
(*                                                                         *)
(* Inv relates what the code keeps apart: the thread pointers of a peer    *)
(* and the lists of the thread master (Armed), the clear queue and its     *)
(* thread (Queue), the stale routes and the queue (Sweep).  These make up  *)
(* Base, which holds inside a handler too.  At the end of a handler the    *)
(* session is read, clearing completes and the timers of the status are    *)
(* on (Reads, Completes, Timed), and a temporary peer stays short of an    *)
(* OPEN (Temp).  There is a lemma for each C function; Fit says of a whole *)
(* handler that what held of the peer before holds after it.               *)
(***************************************************************************)
EXTENDS BgpFsm, Integers, TLAPS

(***************************************************************************)
(* Lists and what they hold.                                               *)
(***************************************************************************)

Elems(q) == {q[i] : i \in DOMAIN q}

\* At most one position of q holds v.
Once(q, v) == \A i, j \in DOMAIN q : q[i] = v /\ q[j] = v => i = j

LEMMA ElemsEmpty == Elems(<<>>) = {} /\ \A v : Once(<<>>, v)
BY DEF Elems, Once

LEMMA ElemsAppend ==
  ASSUME NEW S, NEW q \in Seq(S), NEW e \in S
  PROVE  /\ Append(q, e) \in Seq(S) /\ Append(q, e) # <<>>
         /\ Elems(Append(q, e)) = Elems(q) \cup {e}
         /\ \A v : Once(q, v) /\ ~(e = v /\ v \in Elems(q)) => Once(Append(q, e), v)
<1> DEFINE a == Append(q, e)
<1>1. /\ Len(q) \in Nat /\ DOMAIN q = 1 .. Len(q) /\ a \in Seq(S) /\ DOMAIN a = 1 .. Len(q) + 1
      /\ a[Len(q) + 1] = e /\ \A i \in 1 .. Len(q) : a[i] = q[i]
  OBVIOUS
<1>2. a # <<>>
  BY <1>1
<1> HIDE DEF a
<1>3. Elems(a) = Elems(q) \cup {e}
  <2>1. \A i \in DOMAIN a : i = Len(q) + 1 \/ i \in DOMAIN q
    BY <1>1
  <2>2. \A i \in DOMAIN q : i \in DOMAIN a
    BY <1>1
  <2>3. Len(q) + 1 \in DOMAIN a
    BY <1>1
  <2> QED
    BY <1>1, <2>1, <2>2, <2>3, Zenon DEF Elems
<1>4. ASSUME NEW v, Once(q, v), ~(e = v /\ v \in Elems(q))
      PROVE  Once(a, v)
  <2> SUFFICES ASSUME NEW i \in DOMAIN a, NEW j \in DOMAIN a, a[i] = v, a[j] = v
               PROVE  i = j
    BY Zenon DEF Once
  <2>1. i \in DOMAIN q \/ i = Len(q) + 1
    BY <1>1
  <2>2. j \in DOMAIN q \/ j = Len(q) + 1
    BY <1>1
  <2>3. CASE i \in DOMAIN q /\ j \in DOMAIN q
    BY <1>1, <1>4, <2>3, Zenon DEF Once
  <2>4. CASE i = Len(q) + 1 \/ j = Len(q) + 1
    BY <1>1, <1>4, <2>1, <2>2, <2>4, Zenon DEF Elems
  <2> QED
    BY <2>1, <2>2, <2>3, <2>4, Zenon
<1> QED
  BY <1>1, <1>2, <1>3, <1>4, Zenon DEF a

LEMMA ElemsTail ==
  ASSUME NEW S, NEW q \in Seq(S), q # <<>>
  PROVE  /\ Head(q) \in S /\ Tail(q) \in Seq(S)
         /\ Elems(q) = Elems(Tail(q)) \cup {Head(q)}
         /\ \A v : Once(q, v) => Once(Tail(q), v) /\ (Head(q) = v => v \notin Elems(Tail(q)))
<1> DEFINE t == Tail(q)
<1>1. /\ Len(q) \in Nat \ {0} /\ DOMAIN q = 1 .. Len(q) /\ t \in Seq(S)
      /\ DOMAIN t = 1 .. Len(q) - 1 /\ \A i \in 1 .. Len(q) - 1 : t[i] = q[i + 1]
      /\ Head(q) = q[1] /\ q[1] \in S
  OBVIOUS
<1> HIDE DEF t
<1>2. Elems(q) = Elems(t) \cup {Head(q)}
  <2>1. \A i \in DOMAIN q : i = 1 \/ (i - 1 \in DOMAIN t /\ t[i - 1] = q[i])
    BY <1>1
  <2>2. \A i \in DOMAIN t : i + 1 \in DOMAIN q
    BY <1>1
  <2>3. 1 \in DOMAIN q
    BY <1>1
  <2> QED
    BY <1>1, <2>1, <2>2, <2>3, SMTT(60) DEF Elems
<1>3. ASSUME NEW v, Once(q, v)
      PROVE  Once(t, v) /\ (Head(q) = v => v \notin Elems(t))
  <2>1. \A i \in DOMAIN t : i + 1 \in DOMAIN q /\ t[i] = q[i + 1] /\ i + 1 # 1 /\ i \in Nat
    BY <1>1
  <2>2. 1 \in DOMAIN q
    BY <1>1
  <2>3. \A i, j \in DOMAIN t : t[i] = v /\ t[j] = v => i + 1 = j + 1
    BY <1>3, <2>1, Zenon DEF Once
  <2>4. Once(t, v)
    BY <2>1, <2>3 DEF Once
  <2>5. Head(q) = v => \A i \in DOMAIN t : t[i] # v
    BY <1>1, <1>3, <2>1, <2>2, Zenon DEF Once
  <2> QED
    BY <2>4, <2>5, Zenon DEF Elems
<1> QED
  BY <1>1, <1>2, <1>3, Zenon DEF t

LEMMA ElemsConcat ==
  ASSUME NEW S, NEW p \in Seq(S), NEW q \in Seq(S)
  PROVE  /\ p \o q \in Seq(S)
         /\ Elems(p \o q) = Elems(p) \cup Elems(q)
         /\ \A v : v \notin Elems(p) /\ Once(q, v) => Once(p \o q, v)
<1> DEFINE c == p \o q
           m == Len(p)
           n == Len(q)
<1>1. /\ m \in Nat /\ n \in Nat /\ DOMAIN p = 1 .. m /\ DOMAIN q = 1 .. n /\ c \in Seq(S)
      /\ DOMAIN c = 1 .. m + n
      /\ \A i \in 1 .. m + n : c[i] = IF i <= m THEN p[i] ELSE q[i - m]
  OBVIOUS
<1> HIDE DEF c, m, n
<1>2. \A i \in DOMAIN c : (i \in DOMAIN p /\ c[i] = p[i]) \/ (i - m \in DOMAIN q /\ c[i] = q[i - m] /\ i \in Int)
  BY <1>1
<1>3. \A i \in DOMAIN p : i \in DOMAIN c /\ c[i] = p[i]
  BY <1>1
<1>4. \A i \in DOMAIN q : i + m \in DOMAIN c /\ c[i + m] = q[i]
  BY <1>1
<1>5. Elems(c) = Elems(p) \cup Elems(q)
  BY <1>2, <1>3, <1>4 DEF Elems
<1>6. ASSUME NEW v, v \notin Elems(p), Once(q, v)
      PROVE  Once(c, v)
  <2> SUFFICES ASSUME NEW i \in DOMAIN c, NEW j \in DOMAIN c, c[i] = v, c[j] = v
               PROVE  i = j
    BY Zenon DEF Once
  <2>1. i - m \in DOMAIN q /\ q[i - m] = v /\ i \in Int
    BY <1>2, <1>6, Zenon DEF Elems
  <2>2. j - m \in DOMAIN q /\ q[j - m] = v /\ j \in Int
    BY <1>2, <1>6, Zenon DEF Elems
  <2>3. i - m = j - m
    BY <1>6, <2>1, <2>2, Zenon DEF Once
  <2> QED
    BY <1>1, <2>1, <2>2, <2>3
<1> QED
  BY <1>1, <1>5, <1>6, Zenon DEF c

\* Filter keeps the elements of S.  This takes an induction, so it is an
\* assumption of the lemmas that need it; FilterLists proves it at the end of
\* the module, where the library of well-founded relations comes in.
Lists ==
  \A Z : \A q \in Seq(Z) : \A S :
    /\ Filter(q, S) \in Seq(Z)
    /\ Elems(Filter(q, S)) = Elems(q) \cap S
    /\ \A v : Once(q, v) => Once(Filter(q, S), v)

LEMMA FilterElems ==
  ASSUME Lists, NEW Z, NEW q \in Seq(Z), NEW S
  PROVE  /\ Filter(q, S) \in Seq(Z)
         /\ Elems(Filter(q, S)) = Elems(q) \cap S
         /\ \A v : Once(q, v) => Once(Filter(q, S), v)
BY Zenon DEF Lists

(***************************************************************************)
(* What is scheduled and pending for a peer, and the invariant in these    *)
(* terms.                                                                  *)
(***************************************************************************)

Sessional == SessionTimers \cup {"t_read", "t_write"}

Work == Events \cup Threads \cup Foreign

Ev(s) == Elems(s.event)

Rd(s) == Elems(s.ready)

On(s) == s.armed \cup Rd(s)

Waits(s) == Ev(s) \cup Rd(s)

\* A thread pointer of the session that is set stands for a scheduled thread.
Armed(s) == s.ptr \cap Sessional \subseteq On(s)

Reads(s) == s.status \in NotifiableStatus => s.fd /\ "t_read" \in On(s)

Completes(s) ==
  s.status = "Clearing" => s.clearq # <<>> \/ "Clearing_Completed" \in Waits(s)

Quiet(s) == s.status = "Clearing" => ~s.fd /\ Sessional \cap On(s) = {}

Sweep(s) == \A af \in AFs : s.rib[af] = "stale" => s.nsf \/ af \in Elems(s.clearq)

Queue(s) ==
  /\ "clear_node_queue" \in Rd(s) => s.clearq # <<>>
  /\ Once(s.ready, "clear_node_queue")
  /\ s.status = "Free" => s.clearq = <<>> /\ ~s.fd /\ ~s.accept

Timed(s) ==
  /\ s.status \in NotifiableStatus /\ s.holdtime =>
       "t_holdtime" \in On(s) \/ Waits(s) \cap Events # {}
  /\ s.status = "Idle" /\ ~Suppressed(s) /\ ~s.accept =>
       "t_start" \in On(s) \/ Waits(s) \cap Events # {}

\* What holds of a peer inside a handler too.
Base(s) == s \in PeerState /\ Armed(s) /\ Quiet(s) /\ Sweep(s) /\ Queue(s)

Local(s) == Base(s) /\ Reads(s) /\ Completes(s) /\ Timed(s)

NoRoutes(s) == \A af \in AFs : s.rib[af] = "none"

\* From s to t no OPEN was noted and no route taken.
Tame(s, t) ==
  /\ "Receive_OPEN_message" \in Waits(t) => "Receive_OPEN_message" \in Waits(s)
  /\ NoRoutes(s) => NoRoutes(t)

Late == {"OpenConfirm", "Established", "Clearing"}

Temp(s) ==
  /\ s.accept \/ s.status = "Free"
  /\ s.status \notin Late
  /\ "Receive_OPEN_message" \notin Waits(s)
  /\ NoRoutes(s)

Inv ==
  /\ TypeOK
  /\ \A p \in Peers : Local(peer[p])
  /\ ~peer[Real].accept
  /\ \A p \in Accept : Temp(peer[p])

(***************************************************************************)
(* The thread macros.                                                      *)
(***************************************************************************)

\* The three kinds of entries of a list are different.
LEMMA Kinds ==
  /\ SessionTimers \subseteq Timers /\ Timers \subseteq Threads /\ Sessional \subseteq Threads
  /\ Threads \cap Events = {} /\ Threads \cap Foreign = {} /\ Events \cap Foreign = {}
  /\ "clear_node_queue" \in Foreign /\ "Clearing_Completed" \in Events
  /\ "Receive_OPEN_message" \in Events /\ "t_read" \in Sessional /\ "t_write" \in Sessional
  /\ "t_holdtime" \in SessionTimers /\ "t_start" \in SessionTimers
  /\ "Receive_OPEN_message" # "Clearing_Completed"
  /\ SessionTimers \subseteq Sessional
BY Zenon DEF SessionTimers, Timers, Threads, Sessional, Events, Foreign

LEMMA Typed ==
  ASSUME NEW s \in PeerState
  PROVE  /\ s.ptr \subseteq Threads /\ s.armed \subseteq Threads
         /\ s.event \in Seq(Events) /\ s.ready \in Seq(Work)
         /\ Ev(s) \subseteq Events /\ Rd(s) \subseteq Work
         /\ s.status \in Status /\ s.clearq \in Seq(AFs) /\ s.rib \in [AFs -> {"none", "fresh", "stale"}]
         /\ {s.accept, s.fd, s.shutdown, s.overflow, s.nsfWait, s.nsf, s.holdtime} \subseteq BOOLEAN
         /\ s.cap \in Capability
<1>1. s.event \in Seq(Events) /\ s.ready \in Seq(Work)
  BY Zenon DEF PeerState, Work
<1>2. Ev(s) \subseteq Events /\ Rd(s) \subseteq Work
  BY <1>1 DEF Ev, Rd, Elems
<1> QED
  BY <1>1, <1>2 DEF PeerState

\* The fields that hold no list.
Plain(s, t) ==
  /\ t.accept = s.accept /\ t.status = s.status /\ t.fd = s.fd
  /\ t.shutdown = s.shutdown /\ t.overflow = s.overflow /\ t.nsfWait = s.nsfWait
  /\ t.nsf = s.nsf /\ t.holdtime = s.holdtime /\ t.cap = s.cap /\ t.rib = s.rib

LEMMA OffFields ==
  ASSUME Lists, NEW s \in PeerState, NEW T, T \subseteq Threads
  PROVE  /\ ThreadOff(s, T) \in PeerState /\ Plain(s, ThreadOff(s, T))
         /\ ThreadOff(s, T).ptr = s.ptr \ T /\ ThreadOff(s, T).armed = s.armed \ T
         /\ ThreadOff(s, T).event = s.event /\ ThreadOff(s, T).clearq = s.clearq
         /\ Rd(ThreadOff(s, T)) = Rd(s) \ T
         /\ Once(s.ready, "clear_node_queue") => Once(ThreadOff(s, T).ready, "clear_node_queue")
<1> DEFINE t == ThreadOff(s, T)
<1>1. s.ready \in Seq(Work) /\ Rd(s) \subseteq Work
  BY Typed, Zenon
<1>2. /\ Filter(s.ready, Work \ T) \in Seq(Work)
      /\ Elems(Filter(s.ready, Work \ T)) = Elems(s.ready) \cap (Work \ T)
      /\ Once(s.ready, "clear_node_queue") => Once(Filter(s.ready, Work \ T), "clear_node_queue")
  BY <1>1, FilterElems, Zenon
<1>3. t = [s EXCEPT !.ptr = s.ptr \ T, !.armed = s.armed \ T, !.ready = Filter(s.ready, Work \ T)]
  BY Zenon DEF ThreadOff, Work
<1> HIDE DEF t
<1>4. t \in PeerState
  BY <1>2, <1>3, Zenon DEF PeerState, Work
<1>5. /\ Plain(s, t) /\ t.ptr = s.ptr \ T /\ t.armed = s.armed \ T /\ t.event = s.event
      /\ t.clearq = s.clearq /\ t.ready = Filter(s.ready, Work \ T)
  BY <1>3, Zenon DEF Plain, PeerState
<1>6. Rd(t) = Rd(s) \ T
  BY <1>1, <1>2, <1>5, Zenon DEF Rd
<1> QED
  BY <1>2, <1>4, <1>5, <1>6, Zenon DEF t

LEMMA OnFields ==
  ASSUME NEW s \in PeerState, NEW T, T \subseteq Threads
  PROVE  /\ ThreadOn(s, T) \in PeerState /\ Plain(s, ThreadOn(s, T))
         /\ ThreadOn(s, T).event = s.event /\ ThreadOn(s, T).clearq = s.clearq
         /\ ThreadOn(s, T).ready = s.ready
         /\ s.status = "Deleted" => ThreadOn(s, T) = s
         /\ s.status # "Deleted" => /\ ThreadOn(s, T).ptr = s.ptr \cup T
                                    /\ ThreadOn(s, T).armed = s.armed \cup (T \ s.ptr)
<1> DEFINE t == ThreadOn(s, T)
<1>1. CASE s.status = "Deleted"
  BY <1>1, Zenon DEF ThreadOn, Plain
<1>2. CASE s.status # "Deleted"
  <2>1. t = [s EXCEPT !.ptr = s.ptr \cup T, !.armed = s.armed \cup (T \ s.ptr)]
    BY <1>2, Zenon DEF ThreadOn
  <2> HIDE DEF t
  <2>2. t \in PeerState
    BY <2>1, Zenon DEF PeerState
  <2>3. /\ Plain(s, t) /\ t.event = s.event /\ t.clearq = s.clearq /\ t.ready = s.ready
        /\ t.ptr = s.ptr \cup T /\ t.armed = s.armed \cup (T \ s.ptr)
    BY <2>1, Zenon DEF Plain, PeerState
  <2> QED
    BY <1>2, <2>2, <2>3, Zenon DEF t
<1> QED
  BY <1>1, <1>2, Zenon

LEMMA AddFields ==
  ASSUME NEW s \in PeerState, NEW e \in Events
  PROVE  /\ EventAdd(s, e) \in PeerState /\ Plain(s, EventAdd(s, e))
         /\ EventAdd(s, e).ptr = s.ptr /\ EventAdd(s, e).armed = s.armed
         /\ EventAdd(s, e).clearq = s.clearq /\ EventAdd(s, e).ready = s.ready
         /\ s.status = "Deleted" => EventAdd(s, e) = s
         /\ s.status # "Deleted" => Ev(EventAdd(s, e)) = Ev(s) \cup {e}
<1> DEFINE t == EventAdd(s, e)
<1>1. CASE s.status = "Deleted"
  BY <1>1, Zenon DEF EventAdd, Plain
<1>2. CASE s.status # "Deleted"
  <2>1. t = [s EXCEPT !.event = Append(s.event, e)]
    BY <1>2, Zenon DEF EventAdd
  <2>2. s.event \in Seq(Events)
    BY Typed, Zenon
  <2>3. Append(s.event, e) \in Seq(Events) /\ Elems(Append(s.event, e)) = Elems(s.event) \cup {e}
    BY <2>2, ElemsAppend
  <2> HIDE DEF t
  <2>4. t \in PeerState
    BY <2>1, <2>3, Zenon DEF PeerState
  <2>5. /\ Plain(s, t) /\ t.event = Append(s.event, e) /\ t.clearq = s.clearq /\ t.ready = s.ready
        /\ t.ptr = s.ptr /\ t.armed = s.armed
    BY <2>1, Zenon DEF Plain, PeerState
  <2>6. Ev(t) = Ev(s) \cup {e}
    BY <2>3, <2>5, Zenon DEF Ev
  <2> QED
    BY <1>2, <2>4, <2>5, <2>6, Zenon DEF t
<1> QED
  BY <1>1, <1>2, Zenon

LEMMA FlushFields ==
  ASSUME Lists, NEW s \in PeerState
  PROVE  /\ EventFlush(s) \in PeerState /\ Plain(s, EventFlush(s))
         /\ EventFlush(s).ptr = s.ptr /\ EventFlush(s).armed = s.armed
         /\ EventFlush(s).clearq = s.clearq
         /\ Ev(EventFlush(s)) = {} /\ Rd(EventFlush(s)) = Rd(s) \cap Foreign
         /\ Once(s.ready, "clear_node_queue") => Once(EventFlush(s).ready, "clear_node_queue")
<1> DEFINE t == EventFlush(s)
<1>1. s.ready \in Seq(Work) /\ <<>> \in Seq(Events)
  BY Typed
<1>2. /\ Filter(s.ready, Foreign) \in Seq(Work)
      /\ Elems(Filter(s.ready, Foreign)) = Elems(s.ready) \cap Foreign
      /\ Once(s.ready, "clear_node_queue") => Once(Filter(s.ready, Foreign), "clear_node_queue")
  BY <1>1, FilterElems, Zenon
<1>3. t = [s EXCEPT !.event = <<>>, !.ready = Filter(s.ready, Foreign)]
  BY Zenon DEF EventFlush
<1> HIDE DEF t
<1>4. t \in PeerState
  BY <1>1, <1>2, <1>3, Zenon DEF PeerState, Work
<1>5. /\ Plain(s, t) /\ t.event = <<>> /\ t.clearq = s.clearq /\ t.ready = Filter(s.ready, Foreign)
      /\ t.ptr = s.ptr /\ t.armed = s.armed
  BY <1>3, Zenon DEF Plain, PeerState
<1> QED
  BY <1>2, <1>4, <1>5, ElemsEmpty, Zenon DEF t, Ev, Rd

\* Cancelling threads keeps the invariant, but for the read thread and the
\* timers that were promised.
LEMMA OffKeeps ==
  ASSUME Lists, NEW s, Base(s), NEW T, T \subseteq Threads
  PROVE  /\ Base(ThreadOff(s, T)) /\ Tame(s, ThreadOff(s, T)) /\ Plain(s, ThreadOff(s, T))
         /\ "t_read" \notin T /\ Reads(s) => Reads(ThreadOff(s, T))
         /\ Completes(s) => Completes(ThreadOff(s, T))
         /\ {"t_holdtime", "t_start"} \cap T = {} /\ Timed(s) => Timed(ThreadOff(s, T))
<1> DEFINE t == ThreadOff(s, T)
<1>1. s \in PeerState
  BY Zenon DEF Base
<1>2. /\ t \in PeerState /\ Plain(s, t)
      /\ t.ptr = s.ptr \ T /\ t.armed = s.armed \ T
      /\ t.event = s.event /\ t.clearq = s.clearq /\ Rd(t) = Rd(s) \ T
      /\ Once(s.ready, "clear_node_queue") => Once(t.ready, "clear_node_queue")
  BY <1>1, OffFields, Zenon
<1> HIDE DEF t
<1>3. On(t) = On(s) \ T /\ Waits(t) = Ev(s) \cup (Rd(s) \ T)
  BY <1>2, Zenon DEF On, Waits, Ev
<1>4. Base(t)
  <2>1. Armed(t)
    BY <1>2, <1>3, Zenon DEF Base, Armed
  <2>2. Quiet(t)
    BY <1>2, <1>3, Zenon DEF Base, Quiet, Plain
  <2>3. Sweep(t)
    BY <1>2, Zenon DEF Base, Sweep, Plain
  <2>4. Queue(t)
    BY <1>2, Zenon DEF Base, Queue, Plain
  <2> QED
    BY <1>2, <2>1, <2>2, <2>3, <2>4, Zenon DEF Base
<1>5. Tame(s, t)
  BY <1>2, <1>3, Zenon DEF Tame, Plain, NoRoutes, Waits
<1>6. ASSUME "t_read" \notin T, Reads(s)
      PROVE  Reads(t)
  BY <1>2, <1>3, <1>6, Zenon DEF Reads, Plain
<1>7. ASSUME NEW e \in Events, e \in Waits(s)
      PROVE  e \in Waits(t)
  BY <1>3, <1>7, Kinds, Zenon DEF Waits
<1>8. Completes(s) => Completes(t)
  BY <1>2, <1>7, Kinds, Zenon DEF Completes, Plain
<1>9. ASSUME {"t_holdtime", "t_start"} \cap T = {}, Timed(s)
      PROVE  Timed(t)
  <2>1. Waits(s) \cap Events # {} => Waits(t) \cap Events # {}
    BY <1>7, Zenon
  <2>2. ("t_holdtime" \in On(s) => "t_holdtime" \in On(t)) /\ ("t_start" \in On(s) => "t_start" \in On(t))
    BY <1>3, <1>9, Zenon
  <2> QED
    BY <1>2, <1>9, <2>1, <2>2, Zenon DEF Timed, Plain, Suppressed
<1> QED
  BY <1>2, <1>4, <1>5, <1>6, <1>8, <1>9, Zenon DEF t

LEMMA OnKeeps ==
  ASSUME NEW s, Base(s), NEW T, T \subseteq Threads,
         s.status = "Clearing" => T \cap Sessional = {}
  PROVE  /\ Base(ThreadOn(s, T)) /\ Tame(s, ThreadOn(s, T)) /\ Plain(s, ThreadOn(s, T))
         /\ Reads(s) => Reads(ThreadOn(s, T))
         /\ Completes(s) => Completes(ThreadOn(s, T))
         /\ Timed(s) => Timed(ThreadOn(s, T))
         /\ s.status # "Deleted" => T \cap Sessional \subseteq On(ThreadOn(s, T))
<1> DEFINE t == ThreadOn(s, T)
<1>1. s \in PeerState
  BY Zenon DEF Base
<1>2. /\ t \in PeerState /\ Plain(s, t)
      /\ t.event = s.event /\ t.clearq = s.clearq /\ t.ready = s.ready
      /\ s.status = "Deleted" => t = s
      /\ s.status # "Deleted" => t.ptr = s.ptr \cup T /\ t.armed = s.armed \cup (T \ s.ptr)
  BY <1>1, OnFields, Zenon
<1> HIDE DEF t
<1>3. Rd(t) = Rd(s) /\ Waits(t) = Waits(s) /\ On(s) \subseteq On(t)
  BY <1>2, Zenon DEF On, Waits, Ev, Rd
<1>4. s.status # "Deleted" => On(t) = On(s) \cup (T \ s.ptr)
  BY <1>2, <1>3, Zenon DEF On
<1>5. Base(t)
  <2>1. Armed(t)
    BY <1>2, <1>4, Zenon DEF Base, Armed
  <2>2. Quiet(t)
    BY <1>2, <1>3, <1>4, Zenon DEF Base, Quiet, Plain
  <2>3. Sweep(t)
    BY <1>2, Zenon DEF Base, Sweep, Plain
  <2>4. Queue(t)
    BY <1>2, <1>3, Zenon DEF Base, Queue, Plain
  <2> QED
    BY <1>2, <2>1, <2>2, <2>3, <2>4, Zenon DEF Base
<1>6. Tame(s, t)
  BY <1>2, <1>3, Zenon DEF Tame, Plain, NoRoutes
<1>7. Reads(s) => Reads(t)
  BY <1>2, <1>3, Zenon DEF Reads, Plain
<1>8. Completes(s) => Completes(t)
  BY <1>2, <1>3, Zenon DEF Completes, Plain
<1>9. Timed(s) => Timed(t)
  BY <1>2, <1>3, Zenon DEF Timed, Plain, Suppressed
<1>10. s.status # "Deleted" => T \cap Sessional \subseteq On(t)
  BY <1>4, Zenon DEF Base, Armed
<1> QED
  BY <1>2, <1>5, <1>6, <1>7, <1>8, <1>9, <1>10, Zenon DEF t

\* Any pending event stands for the timers: it will set them.
LEMMA AddKeeps ==
  ASSUME NEW s, Base(s), NEW e \in Events
  PROVE  /\ Base(EventAdd(s, e)) /\ Plain(s, EventAdd(s, e))
         /\ e # "Receive_OPEN_message" => Tame(s, EventAdd(s, e))
         /\ Reads(s) => Reads(EventAdd(s, e))
         /\ Completes(s) => Completes(EventAdd(s, e))
         /\ Timed(EventAdd(s, e))
<1> DEFINE t == EventAdd(s, e)
<1>1. s \in PeerState
  BY Zenon DEF Base
<1>2. /\ t \in PeerState /\ Plain(s, t)
      /\ t.ptr = s.ptr /\ t.armed = s.armed /\ t.clearq = s.clearq /\ t.ready = s.ready
      /\ s.status = "Deleted" => t = s
      /\ s.status # "Deleted" => Ev(t) = Ev(s) \cup {e}
  BY <1>1, AddFields, Zenon
<1> HIDE DEF t
<1>3. Rd(t) = Rd(s) /\ On(s) = On(t) /\ Ev(s) \subseteq Ev(t)
  BY <1>2, Zenon DEF On, Rd
<1>4. Waits(s) \subseteq Waits(t) /\ Waits(t) \subseteq Waits(s) \cup {e}
  BY <1>2, <1>3, Zenon DEF Waits
<1>5. Base(t)
  <2>1. Armed(t)
    BY <1>2, <1>3, Zenon DEF Base, Armed
  <2>2. Quiet(t)
    BY <1>2, <1>3, Zenon DEF Base, Quiet, Plain
  <2>3. Sweep(t)
    BY <1>2, Zenon DEF Base, Sweep, Plain
  <2>4. Queue(t)
    BY <1>2, <1>3, Zenon DEF Base, Queue, Plain
  <2> QED
    BY <1>2, <2>1, <2>2, <2>3, <2>4, Zenon DEF Base
<1>6. e # "Receive_OPEN_message" => Tame(s, t)
  BY <1>2, <1>4, Zenon DEF Tame, Plain, NoRoutes
<1>7. Reads(s) => Reads(t)
  BY <1>2, <1>3, Zenon DEF Reads, Plain
<1>8. Completes(s) => Completes(t)
  BY <1>2, <1>4, Zenon DEF Completes, Plain
<1>9. Timed(t)
  <2>1. CASE s.status = "Deleted"
    BY <1>2, <2>1, Zenon DEF Timed, NotifiableStatus
  <2>2. CASE s.status # "Deleted"
    <3>1. e \in Waits(t) \cap Events
      BY <1>2, <2>2, Zenon DEF Waits
    <3> QED
      BY <3>1, Zenon DEF Timed
  <2> QED
    BY <2>1, <2>2, Zenon
<1> QED
  BY <1>2, <1>5, <1>6, <1>7, <1>8, <1>9, Zenon DEF t

LEMMA TameStep ==
  ASSUME NEW s, NEW t, NEW u, Tame(s, t), Tame(t, u)
  PROVE  Tame(s, u)
BY Zenon DEF Tame

LEMMA PlainStep ==
  ASSUME NEW s, NEW t, NEW u, Plain(s, t), Plain(t, u)
  PROVE  Plain(s, u)
BY Zenon DEF Plain

(***************************************************************************)
(* bgp_timer_set.                                                          *)
(***************************************************************************)

LEMMA TimerSets ==
  ASSUME NEW s \in PeerState
  PROVE  /\ WantedTimers(s) \subseteq SessionTimers /\ UnwantedTimers(s) \subseteq Timers
         /\ WantedTimers(s) \cap UnwantedTimers(s) = {}
         /\ s.status = "Clearing" => WantedTimers(s) = {}
         /\ s.status \in NotifiableStatus /\ s.holdtime => "t_holdtime" \in WantedTimers(s)
         /\ s.status = "Idle" /\ ~Suppressed(s) /\ ~s.accept => "t_start" \in WantedTimers(s)
<1>1. s.status \in Status
  BY Typed, Zenon
<1>2. CASE s.status = "Deleted"
  BY <1>2, Zenon DEF WantedTimers, UnwantedTimers, NotifiableStatus
<1>3. CASE s.status # "Deleted"
  <2>1. WantedTimers(s) \subseteq SessionTimers
    BY <1>1, Zenon DEF WantedTimers, Status, SessionTimers
  <2>2. UnwantedTimers(s) \subseteq SessionTimers \ WantedTimers(s)
    <3> HIDE DEF WantedTimers
    <3> QED
      BY <1>3, Zenon DEF UnwantedTimers
  <2>3. s.status = "Clearing" => WantedTimers(s) = {}
    BY Zenon DEF WantedTimers
  <2>4. s.status \in NotifiableStatus /\ s.holdtime => "t_holdtime" \in WantedTimers(s)
    BY Zenon DEF WantedTimers, NotifiableStatus
  <2>5. s.status = "Idle" /\ ~Suppressed(s) /\ ~s.accept => "t_start" \in WantedTimers(s)
    BY Zenon DEF WantedTimers
  <2> QED
    BY <2>1, <2>2, <2>3, <2>4, <2>5, Kinds, Zenon
<1> QED
  BY <1>2, <1>3, Zenon

\* bgp_timer_set restores the promise about the timers from nothing.
LEMMA TimerSetKeeps ==
  ASSUME Lists, NEW s, Base(s)
  PROVE  /\ Base(bgp_timer_set(s)) /\ Tame(s, bgp_timer_set(s)) /\ Plain(s, bgp_timer_set(s))
         /\ Reads(s) => Reads(bgp_timer_set(s))
         /\ Completes(s) => Completes(bgp_timer_set(s))
         /\ Timed(bgp_timer_set(s))
         /\ bgp_timer_set(s).clearq = s.clearq
<1> DEFINE U == UnwantedTimers(s)
           W == WantedTimers(s)
           t == ThreadOff(s, U)
           u == ThreadOn(t, W)
<1>1. s \in PeerState
  BY Zenon DEF Base
<1>2. /\ W \subseteq SessionTimers /\ U \subseteq Timers /\ W \cap U = {}
      /\ s.status = "Clearing" => W = {}
      /\ s.status \in NotifiableStatus /\ s.holdtime => "t_holdtime" \in W
      /\ s.status = "Idle" /\ ~Suppressed(s) /\ ~s.accept => "t_start" \in W
  BY <1>1, TimerSets, Zenon
<1>3. bgp_timer_set(s) = u
  BY Zenon DEF bgp_timer_set
<1> HIDE DEF U, W
<1>4. U \subseteq Threads /\ W \subseteq Threads /\ W \subseteq Sessional /\ "t_read" \notin U
  <2>1. "t_read" \notin Timers
    BY Zenon DEF Timers
  <2> QED
    BY <1>2, <2>1, Kinds, Zenon
<1>5. /\ Base(t) /\ Tame(s, t) /\ Plain(s, t)
      /\ Reads(s) => Reads(t)
      /\ Completes(s) => Completes(t)
  BY <1>4, OffKeeps, Zenon
<1>6. t.clearq = s.clearq
  BY <1>1, <1>4, OffFields, Zenon
<1> HIDE DEF t
<1>7. t.status = "Clearing" => W \cap Sessional = {}
  BY <1>2, <1>5, Zenon DEF Plain
<1>8. /\ Base(u) /\ Tame(t, u) /\ Plain(t, u)
      /\ Reads(t) => Reads(u)
      /\ Completes(t) => Completes(u)
      /\ t.status # "Deleted" => W \cap Sessional \subseteq On(u)
  BY <1>4, <1>5, <1>7, OnKeeps, Zenon
<1>9. u.clearq = s.clearq
  BY <1>4, <1>5, <1>6, OnFields DEF Base
<1> HIDE DEF u
<1>10. Plain(s, u) /\ Tame(s, u)
  BY <1>5, <1>8, PlainStep, TameStep, Zenon
<1>11. Timed(u)
  <2>1. CASE u.status = "Deleted"
    BY <2>1, Zenon DEF Timed, NotifiableStatus
  <2>2. CASE u.status # "Deleted"
    <3>1. W \subseteq On(u)
      BY <1>4, <1>8, <2>2, Zenon DEF Plain
    <3> QED
      BY <1>2, <1>10, <3>1, Zenon DEF Timed, Plain, Suppressed
  <2> QED
    BY <2>1, <2>2, Zenon
<1> QED
  BY <1>3, <1>5, <1>8, <1>9, <1>10, <1>11, Zenon

(***************************************************************************)
(* Clearing routes and stopping a session.                                 *)
(***************************************************************************)

\* From s to t nodes were put on the clear queue, or Clearing_Completed was.
Cleared(s, t) ==
  /\ t \in PeerState /\ Plain(s, t)
  /\ t.ptr = s.ptr /\ t.armed = s.armed /\ t.ready = s.ready
  /\ Ev(s) \subseteq Ev(t) /\ Ev(t) \subseteq Ev(s) \cup {"Clearing_Completed"}
  /\ Elems(s.clearq) \subseteq Elems(t.clearq)
  /\ s.clearq # <<>> => t.clearq # <<>>
  /\ s.status # "Deleted" => t.clearq # <<>> \/ "Clearing_Completed" \in Ev(t)

LEMMA ClearOne ==
  ASSUME NEW s \in PeerState, NEW af \in AFs
  PROVE  /\ Cleared(s, bgp_clear_route(s, af))
         /\ s.rib[af] # "none" => af \in Elems(bgp_clear_route(s, af).clearq)
<1> DEFINE t == IF s.rib[af] = "none" THEN s ELSE [s EXCEPT !.clearq = Append(s.clearq, af)]
           u == bgp_clear_route(s, af)
<1>1. s.clearq \in Seq(AFs)
  BY Typed, Zenon
<1>2. /\ Append(s.clearq, af) \in Seq(AFs) /\ Append(s.clearq, af) # <<>>
      /\ Elems(Append(s.clearq, af)) = Elems(s.clearq) \cup {af}
  BY <1>1, ElemsAppend
<1>3. /\ t \in PeerState /\ Plain(s, t) /\ t.ptr = s.ptr /\ t.armed = s.armed /\ t.ready = s.ready
      /\ t.event = s.event /\ Elems(s.clearq) \subseteq Elems(t.clearq)
      /\ s.clearq # <<>> => t.clearq # <<>>
      /\ s.rib[af] # "none" => af \in Elems(t.clearq)
  <2>1. CASE s.rib[af] = "none"
    BY <2>1, Zenon DEF Plain
  <2>2. CASE s.rib[af] # "none"
    <3>1. t = [s EXCEPT !.clearq = Append(s.clearq, af)]
      BY <2>2, Zenon
    <3> HIDE DEF t
    <3>2. t \in PeerState
      BY <1>2, <3>1, Zenon DEF PeerState
    <3>3. /\ Plain(s, t) /\ t.ptr = s.ptr /\ t.armed = s.armed /\ t.ready = s.ready
          /\ t.event = s.event /\ t.clearq = Append(s.clearq, af)
      BY <3>1, Zenon DEF Plain, PeerState
    <3> QED
      BY <1>2, <3>2, <3>3, Zenon
  <2> QED
    BY <2>1, <2>2, Zenon
<1>4. u = IF t.clearq = <<>> THEN EventAdd(t, "Clearing_Completed") ELSE t
  BY Zenon DEF bgp_clear_route
<1> HIDE DEF t, u
<1>5. CASE t.clearq = <<>>
  <2>1. u = EventAdd(t, "Clearing_Completed")
    BY <1>4, <1>5, Zenon
  <2>2. /\ u \in PeerState /\ Plain(t, u)
        /\ u.ptr = t.ptr /\ u.armed = t.armed /\ u.clearq = t.clearq /\ u.ready = t.ready
        /\ t.status = "Deleted" => u = t
        /\ t.status # "Deleted" => Ev(u) = Ev(t) \cup {"Clearing_Completed"}
    BY <1>3, <2>1, AddFields, Kinds, SMTT(60)
  <2>3. Plain(s, u)
    BY <1>3, <2>2, PlainStep, Zenon
  <2>4. Ev(t) = Ev(s) /\ t.status = s.status
    BY <1>3, Zenon DEF Ev, Plain
  <2>5. /\ Ev(s) \subseteq Ev(u) /\ Ev(u) \subseteq Ev(s) \cup {"Clearing_Completed"}
        /\ s.status # "Deleted" => "Clearing_Completed" \in Ev(u)
    BY <2>2, <2>4, Zenon
  <2> QED
    BY <1>3, <2>2, <2>3, <2>5, Zenon DEF Cleared, u
<1>6. CASE t.clearq # <<>>
  <2>1. u = t
    BY <1>4, <1>6, Zenon
  <2>2. Ev(u) = Ev(s)
    BY <1>3, <2>1, Zenon DEF Ev
  <2> QED
    BY <1>3, <1>6, <2>1, <2>2, Zenon DEF Cleared, u
<1> QED
  BY <1>5, <1>6, Zenon

LEMMA ClearAll ==
  ASSUME NEW s \in PeerState
  PROVE  /\ Cleared(s, bgp_clear_route_all(s)) /\ Sweep(bgp_clear_route_all(s))
<1> DEFINE t == bgp_clear_route(s, "ipv4")
           u == bgp_clear_route(t, "ipv6")
<1>1. "ipv4" \in AFs /\ "ipv6" \in AFs /\ \A af \in AFs : af = "ipv4" \/ af = "ipv6"
  BY Zenon DEF AFs
<1>2. u = bgp_clear_route_all(s)
  BY Zenon DEF bgp_clear_route_all
<1>3. Cleared(s, t) /\ (s.rib["ipv4"] # "none" => "ipv4" \in Elems(t.clearq))
  BY <1>1, ClearOne, Zenon
<1>4. t \in PeerState
  BY <1>3, Zenon DEF Cleared
<1> HIDE DEF t
<1>5. Cleared(t, u) /\ (t.rib["ipv6"] # "none" => "ipv6" \in Elems(u.clearq))
  BY <1>1, <1>4, ClearOne, Zenon
<1> HIDE DEF u
<1>6. Plain(s, u)
  BY <1>3, <1>5, PlainStep, Zenon DEF Cleared
<1>7. t.status = s.status
  BY <1>3, Zenon DEF Cleared, Plain
<1>8. Cleared(s, u)
  BY <1>3, <1>5, <1>6, <1>7, Zenon DEF Cleared
<1>9. \A af \in AFs : u.rib[af] = "stale" => af \in Elems(u.clearq)
  <2>1. u.rib = s.rib /\ u.rib = t.rib
    BY <1>5, <1>6, Zenon DEF Cleared, Plain
  <2>2. Elems(t.clearq) \subseteq Elems(u.clearq)
    BY <1>5, Zenon DEF Cleared
  <2> QED
    BY <1>1, <1>3, <1>5, <2>1, <2>2, Zenon
<1> QED
  BY <1>2, <1>8, <1>9, Zenon DEF Sweep

\* From s to t the session was closed.
Stopped(s, t) ==
  /\ t \in PeerState
  /\ t.accept = s.accept /\ t.status = s.status /\ t.rib = s.rib /\ t.clearq = s.clearq
  /\ t.shutdown = s.shutdown /\ t.overflow = s.overflow /\ t.nsfWait = s.nsfWait
  /\ ~t.fd
  /\ Sessional \cap (t.ptr \cup On(t)) = {}
  /\ Waits(t) \subseteq Waits(s) /\ Rd(t) \subseteq Rd(s)
  /\ s.status = "Clearing" => Waits(t) \cap Events = Waits(s) \cap Events
  /\ (s.status = "Established" /\ s.nsf => s.nsfWait) => t.nsf = s.nsf
  /\ Once(s.ready, "clear_node_queue") => Once(t.ready, "clear_node_queue")

LEMMA StopFields ==
  ASSUME Lists, NEW s \in PeerState
  PROVE  Stopped(s, bgp_stop(s))
<1> DEFINE a == IF s.status = "Clearing" THEN s ELSE EventFlush(s)
           b == ThreadOff(a, {"t_gr_stale"})
           c == CASE s.status # "Established" -> a
                  [] s.status = "Established" /\ s.nsfWait ->
                       ThreadOn(b, {"t_gr_restart", "t_gr_stale"})
                  [] OTHER -> [b EXCEPT !.nsf = FALSE]
           d == ThreadOff(c, Sessional)
           t == bgp_stop(s)
<1>1. t = [d EXCEPT !.fd = FALSE, !.cap = "none", !.holdtime = TRUE]
  BY Zenon DEF bgp_stop, Sessional
<1>2. /\ a \in PeerState /\ Plain(s, a) /\ a.clearq = s.clearq
      /\ Waits(a) \subseteq Waits(s) /\ Rd(a) \subseteq Rd(s)
      /\ s.status = "Clearing" => Waits(a) = Waits(s)
      /\ Once(s.ready, "clear_node_queue") => Once(a.ready, "clear_node_queue")
  <2>1. CASE s.status = "Clearing"
    BY <2>1, Zenon DEF Plain
  <2>2. CASE s.status # "Clearing"
    <3>1. a = EventFlush(s)
      BY <2>2, Zenon
    <3> HIDE DEF a
    <3> QED
      BY <2>2, <3>1, FlushFields, Zenon DEF Waits
  <2> QED
    BY <2>1, <2>2, Zenon
<1> HIDE DEF a
<1>3. {"t_gr_restart", "t_gr_stale"} \subseteq Threads /\ {"t_gr_stale"} \subseteq Threads
  BY Zenon DEF Threads, Timers
<1>4. /\ b \in PeerState /\ Plain(a, b) /\ b.clearq = a.clearq /\ b.event = a.event
      /\ Rd(b) = Rd(a) \ {"t_gr_stale"}
      /\ Once(a.ready, "clear_node_queue") => Once(b.ready, "clear_node_queue")
  BY <1>2, <1>3, OffFields, Zenon
<1> HIDE DEF b
<1> DEFINE Next1(x) ==
             /\ x \in PeerState /\ x.accept = s.accept /\ x.status = s.status /\ x.rib = s.rib
             /\ x.clearq = s.clearq /\ x.shutdown = s.shutdown /\ x.overflow = s.overflow
             /\ x.nsfWait = s.nsfWait
             /\ Waits(x) \subseteq Waits(s) /\ Rd(x) \subseteq Rd(s)
             /\ s.status = "Clearing" => Waits(x) \cap Events = Waits(s) \cap Events
             /\ (s.status = "Established" /\ s.nsf => s.nsfWait) => x.nsf = s.nsf
             /\ Once(s.ready, "clear_node_queue") => Once(x.ready, "clear_node_queue")
<1>5. Next1(c)
  <2>1. CASE s.status # "Established"
    <3>1. c = a
      BY <2>1, Zenon
    <3> HIDE DEF c
    <3> QED
      BY <1>2, <3>1, Zenon DEF Plain
  <2>2. CASE s.status = "Established" /\ s.nsfWait
    <3>1. c = ThreadOn(b, {"t_gr_restart", "t_gr_stale"})
      BY <2>2, Zenon
    <3> HIDE DEF c
    <3>2. c \in PeerState /\ Plain(b, c) /\ c.event = b.event /\ c.clearq = b.clearq /\ c.ready = b.ready
      BY <1>3, <1>4, <3>1, OnFields, SMTT(60)
    <3>3. Plain(s, c)
      BY <1>2, <1>4, <3>2, PlainStep, Zenon
    <3>4. Rd(c) = Rd(b) /\ Ev(c) = Ev(a)
      BY <1>4, <3>2, Zenon DEF Rd, Ev
    <3>5. Waits(c) \subseteq Waits(s) /\ Rd(c) \subseteq Rd(s)
      BY <1>2, <1>4, <3>4, Zenon DEF Waits
    <3> QED
      BY <1>2, <1>4, <2>2, <3>2, <3>3, <3>5, Zenon DEF Plain
  <2>3. CASE s.status = "Established" /\ ~s.nsfWait
    <3>1. c = [b EXCEPT !.nsf = FALSE]
      BY <2>3, Zenon
    <3> HIDE DEF c
    <3>2. c \in PeerState
      BY <1>4, <3>1, Zenon DEF PeerState
    <3>3. /\ c.accept = b.accept /\ c.status = b.status /\ c.rib = b.rib /\ c.clearq = b.clearq
          /\ c.shutdown = b.shutdown /\ c.overflow = b.overflow /\ c.nsfWait = b.nsfWait
          /\ c.event = b.event /\ c.ready = b.ready /\ c.nsf = FALSE
      BY <1>4, <3>1, Zenon DEF PeerState
    <3>4. Rd(c) = Rd(b) /\ Ev(c) = Ev(a)
      BY <1>4, <3>3, Zenon DEF Rd, Ev
    <3>5. Waits(c) \subseteq Waits(s) /\ Rd(c) \subseteq Rd(s)
      BY <1>2, <1>4, <3>4, Zenon DEF Waits
    <3>6. s.nsf \in BOOLEAN
      BY Typed, Zenon
    <3>7. (s.status = "Established" /\ s.nsf => s.nsfWait) => c.nsf = s.nsf
      BY <2>3, <3>3, <3>6, Zenon
    <3>8. Plain(s, b)
      BY <1>2, <1>4, PlainStep, Zenon
    <3> QED
      BY <1>2, <1>4, <2>3, <3>2, <3>3, <3>5, <3>7, <3>8, SMTT(60) DEF Plain
  <2> QED
    BY <2>1, <2>2, <2>3, Zenon
<1> HIDE DEF c
<1>6. Sessional \subseteq Threads /\ Sessional \cap Events = {}
  BY Kinds, Zenon
<1>7. /\ d \in PeerState /\ Plain(c, d)
      /\ d.ptr = c.ptr \ Sessional /\ d.armed = c.armed \ Sessional
      /\ d.event = c.event /\ d.clearq = c.clearq /\ Rd(d) = Rd(c) \ Sessional
      /\ Once(c.ready, "clear_node_queue") => Once(d.ready, "clear_node_queue")
  BY <1>5, <1>6, OffFields
<1> HIDE DEF d, t
<1>8. t \in PeerState
  BY <1>1, <1>7, Zenon DEF PeerState, Capability
<1>9. /\ t.accept = d.accept /\ t.status = d.status /\ t.rib = d.rib /\ t.clearq = d.clearq
      /\ t.shutdown = d.shutdown /\ t.overflow = d.overflow /\ t.nsfWait = d.nsfWait /\ t.nsf = d.nsf
      /\ t.ptr = d.ptr /\ t.armed = d.armed /\ t.event = d.event /\ t.ready = d.ready /\ t.fd = FALSE
  BY <1>1, <1>7, Zenon DEF PeerState
<1>10. Ev(t) = Ev(c) /\ Rd(t) = Rd(c) \ Sessional /\ t.armed \cap Sessional = {}
  BY <1>7, <1>9, Zenon DEF Ev, Rd
<1>11. Sessional \cap (t.ptr \cup On(t)) = {}
  BY <1>7, <1>9, <1>10, Zenon DEF On
<1>12. /\ Waits(t) \subseteq Waits(s) /\ Rd(t) \subseteq Rd(s)
       /\ s.status = "Clearing" => Waits(t) \cap Events = Waits(s) \cap Events
  <2>1. Waits(t) \cap Events = Waits(c) \cap Events
    BY <1>6, <1>10, Zenon DEF Waits
  <2> QED
    BY <1>5, <1>10, <2>1, Zenon DEF Waits
<1> QED
  BY <1>5, <1>7, <1>8, <1>9, <1>11, <1>12, Zenon DEF Stopped, Plain, t

\* From s to t a peer stays what it is: a temporary peer temporary, a
\* configured one configured.
Tempered(s, t) ==
  /\ Tame(s, t)
  /\ ~s.accept => ~t.accept
  /\ s.accept \/ s.status = "Free" => t.accept \/ t.status = "Free"
  /\ s.status \notin Late => t.status \notin Late

LEMMA TemperedStep ==
  ASSUME NEW s, NEW t, NEW u, Tempered(s, t), Tempered(t, u)
  PROVE  Tempered(s, u)
BY TameStep, Zenon DEF Tempered

LEMMA TemperedPlain ==
  ASSUME NEW s, NEW t, Tame(s, t), Plain(s, t)
  PROVE  Tempered(s, t)
BY Zenon DEF Tempered, Plain

\* A peer without connection and threads is good whatever its status.
LEMMA ClosedBase ==
  ASSUME NEW s \in PeerState, ~s.fd, Sessional \cap (s.ptr \cup On(s)) = {}, Sweep(s), Queue(s)
  PROVE  Base(s)
BY Zenon DEF Base, Armed, Quiet

LEMMA StopKeeps ==
  ASSUME Lists, NEW s, Base(s), s.status = "Established" /\ s.nsf => s.nsfWait
  PROVE  /\ Base(bgp_stop(s)) /\ Tempered(s, bgp_stop(s))
         /\ Completes(s) => Completes(bgp_stop(s))
<1> DEFINE t == bgp_stop(s)
<1>1. s \in PeerState /\ Queue(s) /\ Sweep(s)
  BY Zenon DEF Base
<1>2. Stopped(s, t)
  BY <1>1, StopFields, Zenon
<1> HIDE DEF t
<1>3. Sweep(t) /\ Queue(t)
  BY <1>1, <1>2, Zenon DEF Stopped, Sweep, Queue
<1>4. Base(t)
  BY <1>2, <1>3, ClosedBase, Zenon DEF Stopped
<1>5. Tempered(s, t)
  BY <1>2, Zenon DEF Tempered, Tame, Stopped, NoRoutes
<1>6. Completes(s) => Completes(t)
  BY <1>2, Kinds, Zenon DEF Stopped, Completes
<1> QED
  BY <1>4, <1>5, <1>6, Zenon DEF t

\* The status changes and nothing else does.
LEMMA StatusFields ==
  ASSUME NEW s \in PeerState, NEW st \in Status, NEW t, t = [s EXCEPT !.status = st]
  PROVE  /\ t \in PeerState /\ t.status = st
         /\ t.accept = s.accept /\ t.fd = s.fd /\ t.shutdown = s.shutdown /\ t.overflow = s.overflow
         /\ t.nsfWait = s.nsfWait /\ t.nsf = s.nsf /\ t.holdtime = s.holdtime /\ t.cap = s.cap
         /\ t.rib = s.rib /\ t.clearq = s.clearq /\ t.ptr = s.ptr /\ t.armed = s.armed
         /\ t.event = s.event /\ t.ready = s.ready
         /\ On(t) = On(s) /\ Rd(t) = Rd(s) /\ Ev(t) = Ev(s) /\ Waits(t) = Waits(s)
<1>1. t \in PeerState
  BY Zenon DEF PeerState
<1>2. /\ t.status = st
      /\ t.accept = s.accept /\ t.fd = s.fd /\ t.shutdown = s.shutdown /\ t.overflow = s.overflow
      /\ t.nsfWait = s.nsfWait /\ t.nsf = s.nsf /\ t.holdtime = s.holdtime /\ t.cap = s.cap
      /\ t.rib = s.rib /\ t.clearq = s.clearq /\ t.ptr = s.ptr /\ t.armed = s.armed
      /\ t.event = s.event /\ t.ready = s.ready
  BY Zenon DEF PeerState
<1> QED
  BY <1>1, <1>2, Zenon DEF On, Rd, Ev, Waits

\* A stopped peer goes to Clearing, or is deleted, in order: every route it has
\* is on the clear queue.
LEMMA ClearedStatus ==
  ASSUME NEW s \in PeerState, ~s.fd, Sessional \cap (s.ptr \cup On(s)) = {}, Queue(s),
         NEW st \in {"Clearing", "Deleted"}
  PROVE  LET t == bgp_fsm_change_status(s, st)
         IN  /\ Base(t) /\ Tame(s, t) /\ t.accept = s.accept /\ t.status = st
             /\ s.status # "Deleted" => Completes(t)
<1> DEFINE a == bgp_clear_route_all(s)
           t == bgp_fsm_change_status(s, st)
<1>1. Cleared(s, a) /\ Sweep(a)
  BY ClearAll, Zenon
<1>2. t = [a EXCEPT !.status = st]
  BY Zenon DEF bgp_fsm_change_status
<1>3. a \in PeerState /\ st \in Status
  BY <1>1, Zenon DEF Cleared, Status
<1> HIDE DEF a, t
<1>4. /\ t \in PeerState /\ t.status = st
      /\ t.accept = a.accept /\ t.fd = a.fd /\ t.nsf = a.nsf /\ t.rib = a.rib /\ t.clearq = a.clearq
      /\ t.ptr = a.ptr /\ t.armed = a.armed /\ t.ready = a.ready
      /\ On(t) = On(a) /\ Rd(t) = Rd(a) /\ Ev(t) = Ev(a) /\ Waits(t) = Waits(a)
  BY <1>2, <1>3, StatusFields
<1>5. On(a) = On(s) /\ Rd(a) = Rd(s)
  BY <1>1, Zenon DEF Cleared, On, Rd
<1>6. Sweep(t) /\ Queue(t)
  BY <1>1, <1>4, <1>5, Zenon DEF Sweep, Queue, Cleared
<1>7. Base(t)
  <2>1. ~t.fd /\ Sessional \cap (t.ptr \cup On(t)) = {}
    BY <1>1, <1>4, <1>5, Zenon DEF Cleared, Plain
  <2> QED
    BY <1>4, <1>6, <2>1, ClosedBase, Zenon
<1>8. Tame(s, t)
  BY <1>1, <1>4, <1>5, Kinds, SMTT(60) DEF Tame, Cleared, Plain, NoRoutes, Waits
<1>9. s.status # "Deleted" => Completes(t)
  BY <1>1, <1>4, Zenon DEF Cleared, Completes, Waits
<1>10. t.accept = s.accept
  BY <1>1, <1>4, Zenon DEF Cleared, Plain
<1> QED
  BY <1>4, <1>7, <1>8, <1>9, <1>10, Zenon DEF t

LEMMA NotifyKeeps ==
  ASSUME Lists, NEW s, Base(s), NEW io
  PROVE  LET t == bgp_notify_send(s, io)
         IN  /\ Base(t) /\ Plain(s, t) /\ Tame(s, t)
             /\ Reads(s) => Reads(t)
             /\ Completes(s) => Completes(t)
             /\ Timed(t)
<1> DEFINE a == ThreadOff(s, {"t_write"})
           e == IF io = "fail" THEN "TCP_fatal_error" ELSE "BGP_Stop"
           t == bgp_notify_send(s, io)
<1>1. t = EventAdd(a, e)
  BY Zenon DEF bgp_notify_send
<1>2. {"t_write"} \subseteq Threads /\ "t_read" \notin {"t_write"}
  BY Zenon DEF Threads
<1>3. /\ Base(a) /\ Tame(s, a) /\ Plain(s, a)
      /\ Reads(s) => Reads(a)
      /\ Completes(s) => Completes(a)
  BY <1>2, OffKeeps, Zenon
<1>4. e \in Events /\ e # "Receive_OPEN_message"
  BY Zenon DEF Events
<1> HIDE DEF a, e, t
<1>5. /\ Base(t) /\ Plain(a, t) /\ Tame(a, t)
      /\ Reads(a) => Reads(t)
      /\ Completes(a) => Completes(t)
      /\ Timed(t)
  BY <1>1, <1>3, <1>4, AddKeeps, Zenon
<1> QED
  BY <1>3, <1>5, PlainStep, TameStep, Zenon DEF t

LEMMA NsfStopKeeps ==
  ASSUME Lists, NEW s, Base(s), s.status # "Free"
  PROVE  LET t == peer_nsf_stop(s)
         IN  /\ Base(t) /\ Tempered(s, t) /\ t.status = s.status /\ ~t.nsf
             /\ t.accept = s.accept
             /\ Reads(s) => Reads(t)
             /\ Completes(s) => Completes(t)
<1> DEFINE T == {"t_gr_restart", "t_gr_stale"}
           a == ThreadOff(s, T)
           b == [a EXCEPT !.nsfWait = FALSE, !.nsf = FALSE]
           t == peer_nsf_stop(s)
<1>1. t = bgp_clear_route_all(b)
  BY Zenon DEF peer_nsf_stop
<1>2. T \subseteq Threads /\ "t_read" \notin T
  BY Zenon DEF Threads, Timers
<1>3. /\ Base(a) /\ Tame(s, a) /\ Plain(s, a)
      /\ Reads(s) => Reads(a)
      /\ Completes(s) => Completes(a)
  BY <1>2, OffKeeps, Zenon
<1> HIDE DEF a, t
<1>4. a \in PeerState
  BY <1>3, Zenon DEF Base
<1>5. b \in PeerState
  BY <1>4, Zenon DEF PeerState
<1>6. /\ b.accept = a.accept /\ b.status = a.status /\ b.fd = a.fd /\ b.rib = a.rib
      /\ b.clearq = a.clearq /\ b.ptr = a.ptr /\ b.armed = a.armed /\ b.event = a.event
      /\ b.ready = a.ready /\ b.nsf = FALSE
  BY <1>4, Zenon DEF PeerState
<1> HIDE DEF b
<1>7. Cleared(b, t) /\ Sweep(t)
  BY <1>1, <1>5, ClearAll, Zenon
<1>8. /\ t.accept = s.accept /\ t.status = s.status /\ t.fd = s.fd /\ t.rib = s.rib /\ ~t.nsf
  BY <1>3, <1>6, <1>7, Zenon DEF Cleared, Plain
<1>9. /\ t.ptr = a.ptr /\ On(t) = On(a) /\ Rd(t) = Rd(a) /\ t.ready = a.ready
      /\ Waits(a) \subseteq Waits(t) /\ Waits(t) \subseteq Waits(a) \cup {"Clearing_Completed"}
      /\ a.clearq # <<>> => t.clearq # <<>>
      /\ t.status = a.status /\ t.fd = a.fd
  BY <1>6, <1>7, Zenon DEF Cleared, Plain, On, Rd, Ev, Waits
<1>10. Base(t)
  <2>1. Armed(t) /\ Quiet(t)
    BY <1>3, <1>9, Zenon DEF Base, Armed, Quiet
  <2>2. Queue(t)
    BY <1>3, <1>9, Zenon DEF Base, Queue, Plain
  <2> QED
    BY <1>7, <2>1, <2>2, Zenon DEF Base, Cleared
<1>11. Tempered(s, t)
  <2>1. Tame(s, t)
    BY <1>3, <1>8, <1>9, Kinds, Zenon DEF Tame, NoRoutes
  <2> QED
    BY <1>8, <2>1, Zenon DEF Tempered
<1>12. (Reads(s) => Reads(t)) /\ (Completes(s) => Completes(t))
  BY <1>3, <1>9, Zenon DEF Reads, Completes
<1> QED
  BY <1>8, <1>10, <1>11, <1>12, Zenon DEF t

\* A deleted peer is freed once its clear queue is empty.
LEMMA UnlockKeeps ==
  ASSUME Lists, NEW d, Local(d)
  PROVE  Local(peer_unlock(d)) /\ Tempered(d, peer_unlock(d))
<1> DEFINE t == peer_unlock(d)
<1>7. Base(d)
  BY Zenon DEF Local
<1>8. d \in PeerState
  BY <1>7, Zenon DEF Base
<1>10. CASE d.status = "Deleted" /\ d.clearq = <<>>
  <2> DEFINE f == EventFlush(d)
  <2>1. t = [NoPeer EXCEPT !.ready = f.ready]
    BY <1>10, Zenon DEF peer_unlock
  <2>2. /\ f \in PeerState /\ Rd(f) = Rd(d) \cap Foreign
        /\ Once(d.ready, "clear_node_queue") => Once(f.ready, "clear_node_queue")
    BY <1>8, FlushFields, Zenon
  <2> HIDE DEF f
  <2>3. f.ready \in Seq(Work)
    BY <2>2, Typed, Zenon
  <2> HIDE DEF t
  <2>4. t = [accept |-> FALSE, status |-> "Free", fd |-> FALSE, ptr |-> {}, armed |-> {},
             event |-> <<>>, ready |-> f.ready, shutdown |-> FALSE, overflow |-> FALSE,
             nsfWait |-> FALSE, nsf |-> FALSE, holdtime |-> TRUE, cap |-> "none",
             rib |-> [af \in AFs |-> "none"], clearq |-> <<>>]
    BY <2>1, Zenon DEF NoPeer
  <2>5. t \in PeerState
    <3>1. <<>> \in Seq(Events) /\ <<>> \in Seq(AFs) /\ [af \in AFs |-> "none"] \in [AFs -> {"none", "fresh", "stale"}]
      OBVIOUS
    <3>2. "Free" \in Status /\ "none" \in Capability
      BY Zenon DEF Status, Capability
    <3> QED
      BY <2>3, <2>4, <3>1, <3>2, Zenon DEF PeerState, Work
  <2>6. /\ ~t.accept /\ t.status = "Free" /\ ~t.fd /\ t.ptr = {} /\ t.armed = {}
        /\ t.event = <<>> /\ t.ready = f.ready /\ t.clearq = <<>> /\ NoRoutes(t)
    BY <2>4, Zenon DEF NoRoutes
  <2>7. Rd(t) = Rd(d) \cap Foreign /\ Ev(t) = {}
    BY <2>2, <2>6, ElemsEmpty, Zenon DEF Rd, Ev
  <2>8. "clear_node_queue" \notin Rd(d) /\ Once(d.ready, "clear_node_queue")
    BY <1>7, <1>10, Zenon DEF Base, Queue
  <2>9. Queue(t)
    BY <2>2, <2>6, <2>7, <2>8, Zenon DEF Queue
  <2>10. Base(t)
    <3>1. Sessional \cap (t.ptr \cup On(t)) = {}
      BY <2>6, <2>7, Kinds, Zenon DEF On
    <3>2. Sweep(t)
      BY <2>6, Zenon DEF Sweep, NoRoutes
    <3> QED
      BY <2>5, <2>6, <2>9, <3>1, <3>2, ClosedBase, Zenon
  <2>11. Local(t)
    BY <2>6, <2>10, Zenon DEF Local, Reads, Completes, Timed, NotifiableStatus
  <2>12. Tempered(d, t)
    <3>1. "Receive_OPEN_message" \notin Waits(t)
      BY <2>7, Kinds, Zenon DEF Waits
    <3> QED
      BY <2>6, <3>1, Zenon DEF Tempered, Tame, Late
  <2> QED
    BY <2>11, <2>12, Zenon DEF t
<1>11. CASE ~(d.status = "Deleted" /\ d.clearq = <<>>)
  BY <1>11, Zenon DEF peer_unlock, Tempered, Tame
<1> QED
  BY <1>10, <1>11, Zenon

\* peer_delete leaves nothing of the session, and no promise to keep.
LEMMA DeleteKeeps ==
  ASSUME Lists, NEW s, Base(s), s.accept \/ s.status # "Free"
  PROVE  /\ Local(peer_delete(s)) /\ Tempered(s, peer_delete(s))
<1> DEFINE a == IF s.nsfWait THEN peer_nsf_stop(s) ELSE s
           b == bgp_stop(a)
           c == bgp_fsm_change_status(b, "Deleted")
           d == bgp_timer_set(c)
           t == peer_unlock(d)
<1>1. t = peer_delete(s)
  BY Zenon DEF peer_delete
<1>s. s.status # "Free"
  BY Zenon DEF Base, Queue
<1>2. Base(a) /\ Tame(s, a) /\ a.accept = s.accept
  <2>1. CASE s.nsfWait
    BY <1>s, <2>1, NsfStopKeeps, Zenon DEF Tempered
  <2>2. CASE ~s.nsfWait
    BY <2>2, Zenon DEF Tame
  <2> QED
    BY <2>1, <2>2, Zenon
<1> HIDE DEF a
<1>3. Stopped(a, b)
  BY <1>2, StopFields, Zenon DEF Base
<1> HIDE DEF b
<1>4. b \in PeerState /\ ~b.fd /\ Sessional \cap (b.ptr \cup On(b)) = {} /\ Queue(b)
  BY <1>2, <1>3, Zenon DEF Stopped, Base, Queue
<1>5. Tame(a, b) /\ b.accept = a.accept
  BY <1>3, Zenon DEF Stopped, Tame, NoRoutes
<1>6. Base(c) /\ Tame(b, c) /\ c.accept = b.accept /\ c.status = "Deleted"
  BY <1>4, ClearedStatus, Zenon
<1> HIDE DEF c
<1>7. Base(d) /\ Tame(c, d) /\ Plain(c, d)
  BY <1>6, TimerSetKeeps, Zenon
<1> HIDE DEF d
<1>8. d.status = "Deleted" /\ d.accept = s.accept /\ d \in PeerState
  BY <1>2, <1>5, <1>6, <1>7, Zenon DEF Plain, Base
<1>9. Tame(s, d)
  BY <1>2, <1>5, <1>6, <1>7, TameStep, Zenon
<1>10. Local(d) /\ Tempered(s, d)
  <2>1. Local(d)
    BY <1>7, <1>8, Zenon DEF Local, Reads, Completes, Timed, NotifiableStatus
  <2>2. Tempered(s, d)
    BY <1>8, <1>9, Zenon DEF Tempered, Late
  <2> QED
    BY <2>1, <2>2, Zenon
<1>11. Local(t) /\ Tempered(d, t)
  BY <1>10, UnlockKeeps, Zenon
<1> QED
  BY <1>1, <1>10, <1>11, TemperedStep, Zenon

(***************************************************************************)
(* The state machine.                                                      *)
(***************************************************************************)

Stops == {"bgp_stop", "bgp_connect_fail", "bgp_stop_with_error"}

Notifies == {"bgp_fsm_holdtime_expire", "bgp_fsm_event_error"}

\* What the table FSM[][] has in the rows of a status and an event: f is called
\* and the status becomes st2.
Entry(st, e, f, st2) ==
  \/ f = "bgp_start" /\ st \in {"Idle", "Active"} /\ st2 = "Connect"
  \/ f \in Stops /\ st = "Established" /\ st2 = "Clearing"
  \/ f \in Stops /\ st = "Clearing" /\ st2 = "Clearing" /\ e # "Clearing_Completed"
  \/ f \in Stops /\ st \notin {"Established", "Clearing", "Free"} /\ st2 \in {"Idle", "Active"}
  \/ f = "bgp_reconnect" /\ st = "Connect" /\ st2 = "Connect"
  \/ f = "bgp_connect_success" /\ st \in {"Connect", "Active"} /\ st2 = "OpenSent"
  \/ f \in Notifies /\ st \in {"OpenSent", "OpenConfirm"} /\ st2 = "Idle"
  \/ f \in Notifies /\ st = "Established" /\ st2 = "Clearing"
  \/ f = "bgp_fsm_open" /\ st = "OpenSent" /\ st2 = "OpenConfirm" /\ e = "Receive_OPEN_message"
  \/ f \in {"bgp_fsm_keepalive_expire", "bgp_fsm_keepalive", "bgp_fsm_update"}
     /\ st = "Established" /\ st2 = "Established"
  \/ f = "bgp_establish" /\ st = "OpenConfirm" /\ st2 = "Established"
  \/ f = "bgp_clearing_completed" /\ st = "Clearing" /\ st2 = "Idle"
  \/ f = "bgp_ignore" /\ st2 = st /\ (st = "Clearing" => e # "Clearing_Completed")
  \/ f = "bgp_ignore" /\ st \notin {"Clearing", "Deleted", "Free"} /\ st2 = "Idle"

LEMMA Table ==
  ASSUME NEW st \in Status, NEW e \in Events
  PROVE  Entry(st, e, FSM(st, e)[1], FSM(st, e)[2])
<1>1. CASE st = "Idle"
  BY <1>1, Zenon DEF FSM, Entry, Stops, Notifies
<1>2. CASE st = "Connect"
  BY <1>2, SMTT(30) DEF FSM, Entry, Stops, Notifies
<1>3. CASE st = "Active"
  BY <1>3, SMTT(30) DEF FSM, Entry, Stops, Notifies
<1>4. CASE st = "OpenSent"
  BY <1>4, SMTT(30) DEF FSM, Entry, Stops, Notifies
<1>5. CASE st = "OpenConfirm"
  BY <1>5, SMTT(30) DEF FSM, Entry, Stops, Notifies
<1>6. CASE st = "Established"
  BY <1>6, SMTT(30) DEF FSM, Entry, Stops, Notifies
<1>7. CASE st = "Clearing"
  BY <1>7, SMTT(30) DEF FSM, Entry, Stops, Notifies
<1>8. CASE st \in {"Deleted", "Free"}
  <2>1. /\ st # "Idle" /\ st # "Connect" /\ st # "Active" /\ st # "OpenSent" /\ st # "OpenConfirm"
        /\ st # "Established" /\ st # "Clearing"
    BY <1>8, Zenon
  <2>2. FSM(st, e) = <<"bgp_ignore", st>>
    BY <2>1, Zenon DEF FSM
  <2> QED
    BY <2>1, <2>2 DEF Entry
<1> QED
  BY <1>1, <1>2, <1>3, <1>4, <1>5, <1>6, <1>7, <1>8, Zenon DEF Status

\* Moving to a status that clears no routes.
LEMMA MoveKeeps ==
  ASSUME NEW s, Base(s), NEW st \in Status \ {"Clearing", "Deleted", "Free"},
         st \in NotifiableStatus => s.fd /\ "t_read" \in On(s)
  PROVE  LET t == bgp_fsm_change_status(s, st)
         IN  Base(t) /\ Reads(t) /\ Completes(t) /\ Tame(s, t) /\ t.accept = s.accept /\ t.status = st
<1> DEFINE t == bgp_fsm_change_status(s, st)
<1>1. s \in PeerState
  BY Zenon DEF Base
<1>2. t = [s EXCEPT !.status = st]
  BY Zenon DEF bgp_fsm_change_status
<1> HIDE DEF t
<1>3. /\ t \in PeerState /\ t.status = st
      /\ t.accept = s.accept /\ t.fd = s.fd /\ t.nsf = s.nsf /\ t.rib = s.rib /\ t.clearq = s.clearq
      /\ t.ptr = s.ptr /\ t.armed = s.armed /\ t.ready = s.ready
      /\ On(t) = On(s) /\ Rd(t) = Rd(s) /\ Waits(t) = Waits(s)
  BY <1>1, <1>2, StatusFields, SMTT(60)
<1>4. Base(t)
  <2>1. Armed(t) /\ Quiet(t)
    BY <1>3, Zenon DEF Base, Armed, Quiet
  <2>2. Sweep(t) /\ Queue(t)
    BY <1>3, Zenon DEF Base, Sweep, Queue
  <2> QED
    BY <1>3, <2>1, <2>2, Zenon DEF Base
<1>5. Reads(t) /\ Completes(t)
  BY <1>3, Zenon DEF Reads, Completes
<1>6. Tame(s, t)
  BY <1>3, Zenon DEF Tame, NoRoutes
<1> QED
  BY <1>3, <1>4, <1>5, <1>6, Zenon DEF t

\* The descriptor of a peer that has no session changes.
LEMMA FdKeeps ==
  ASSUME NEW s, Base(s), s.status \notin {"Clearing", "Free"}, NEW b \in BOOLEAN,
         NEW t, t = [s EXCEPT !.fd = b]
  PROVE  Base(t) /\ Tame(s, t) /\ t.accept = s.accept /\ t.status = s.status
<1>1. s \in PeerState
  BY Zenon DEF Base
<1>2. t \in PeerState
  BY <1>1, Zenon DEF PeerState
<1>3. /\ t.status = s.status
      /\ t.accept = s.accept /\ t.nsf = s.nsf /\ t.rib = s.rib /\ t.clearq = s.clearq
      /\ t.ptr = s.ptr /\ t.armed = s.armed /\ t.ready = s.ready /\ t.event = s.event
  BY <1>1, Zenon DEF PeerState
<1>4. On(t) = On(s) /\ Rd(t) = Rd(s) /\ Waits(t) = Waits(s)
  BY <1>3, Zenon DEF On, Rd, Ev, Waits
<1>5. Armed(t) /\ Quiet(t)
  BY <1>3, <1>4, Zenon DEF Base, Armed, Quiet
<1>6. Sweep(t) /\ Queue(t)
  BY <1>3, <1>4, Zenon DEF Base, Sweep, Queue
<1> QED
  BY <1>2, <1>3, <1>4, <1>5, <1>6, Zenon DEF Base, Tame, NoRoutes

LEMMA StartKeeps ==
  ASSUME NEW s, Base(s), s.status \notin {"Clearing", "Free"}, NEW io \in IO
  PROVE  LET t == bgp_start(s, io)
         IN  Base(t) /\ Tame(s, t) /\ t.accept = s.accept /\ t.status = s.status
<1> DEFINE t == bgp_start(s, io)
           r == [s EXCEPT !.fd = io # "nosock"]
<1>1. Base(r) /\ Tame(s, r) /\ r.accept = s.accept /\ r.status = s.status
  <2>1. (io # "nosock") \in BOOLEAN
    BY Zenon
  <2> QED
    BY <2>1, FdKeeps, Zenon
<1>2. "TCP_connection_open_failed" \in Events /\ "TCP_connection_open" \in Events
  BY Zenon DEF Events
<1>3. {"t_read", "t_write"} \subseteq Threads
  BY Zenon DEF Threads
<1>4. \/ t = s
      \/ t = EventAdd(s, "TCP_connection_open_failed")
      \/ t = EventAdd(r, "TCP_connection_open")
      \/ t = ThreadOn(r, {"t_read", "t_write"})
      \/ t = EventAdd(r, "TCP_connection_open_failed")
      \/ t = r
  <2> HIDE DEF r
  <2>1. t = CASE Suppressed(s) -> s
              [] ~Suppressed(s) /\ Passive /\ ~s.accept -> EventAdd(s, "TCP_connection_open_failed")
              [] OTHER -> CASE io = "ok" -> EventAdd(r, "TCP_connection_open")
                            [] io = "wait" -> ThreadOn(r, {"t_read", "t_write"})
                            [] io = "fail" -> EventAdd(r, "TCP_connection_open_failed")
                            [] OTHER -> r
    BY Zenon DEF bgp_start, r
  <2> HIDE DEF t
  <2>2. CASE Suppressed(s)
    BY <2>1, <2>2, Zenon
  <2>3. CASE ~Suppressed(s) /\ Passive /\ ~s.accept
    BY <2>1, <2>3, Zenon
  <2>4. CASE ~Suppressed(s) /\ ~(Passive /\ ~s.accept)
    <3>1. t = CASE io = "ok" -> EventAdd(r, "TCP_connection_open")
                [] io = "wait" -> ThreadOn(r, {"t_read", "t_write"})
                [] io = "fail" -> EventAdd(r, "TCP_connection_open_failed")
                [] OTHER -> r
      BY <2>1, <2>4, Zenon
    <3> QED
      BY <3>1, Zenon DEF IO
  <2> QED
    BY <2>2, <2>3, <2>4, Zenon
<1> HIDE DEF r, t
<1>5. CASE t = s
  BY <1>5, Zenon DEF Tame, t
<1>6. CASE t = EventAdd(s, "TCP_connection_open_failed")
  BY <1>2, <1>6, AddKeeps, SMTT(60) DEF Plain, t
<1>7. CASE t = EventAdd(r, "TCP_connection_open") \/ t = EventAdd(r, "TCP_connection_open_failed")
  <2>1. Base(t) /\ Tame(r, t) /\ Plain(r, t)
    BY <1>1, <1>2, <1>7, AddKeeps, Zenon
  <2> QED
    BY <1>1, <2>1, TameStep, Zenon DEF Plain, t
<1>8. CASE t = ThreadOn(r, {"t_read", "t_write"})
  <2>1. Base(t) /\ Tame(r, t) /\ Plain(r, t)
    BY <1>1, <1>3, <1>8, OnKeeps, Zenon
  <2> QED
    BY <1>1, <2>1, TameStep, Zenon DEF Plain, t
<1>9. CASE t = r
  BY <1>1, <1>9, Zenon DEF t
<1> QED
  BY <1>4, <1>5, <1>6, <1>7, <1>8, <1>9, Zenon

\* Sweeping the stale routes disturbs nothing else.
LEMMA StaleFields ==
  ASSUME NEW s \in PeerState
  PROVE  LET t == bgp_clear_stale_route(s)
         IN  /\ t \in PeerState
             /\ t.accept = s.accept /\ t.status = s.status /\ t.fd = s.fd /\ t.shutdown = s.shutdown
             /\ t.overflow = s.overflow /\ t.nsfWait = s.nsfWait /\ t.nsf = s.nsf
             /\ t.holdtime = s.holdtime /\ t.cap = s.cap /\ t.clearq = s.clearq
             /\ t.ptr = s.ptr /\ t.armed = s.armed /\ t.event = s.event /\ t.ready = s.ready
             /\ \A af \in AFs : t.rib[af] # "stale"
             /\ NoRoutes(s) => NoRoutes(t)
<1> DEFINE t == bgp_clear_stale_route(s)
           r == [af \in AFs |-> IF s.rib[af] = "stale" THEN "none" ELSE s.rib[af]]
<1>1. t = [s EXCEPT !.rib = r]
  BY Zenon DEF bgp_clear_stale_route
<1>2. s.rib \in [AFs -> {"none", "fresh", "stale"}]
  BY Typed, Zenon
<1>3. r \in [AFs -> {"none", "fresh", "stale"}] /\ \A af \in AFs : r[af] # "stale"
  BY <1>2, Zenon
<1>4. NoRoutes(s) => \A af \in AFs : r[af] = "none"
  BY Zenon DEF NoRoutes
<1> HIDE DEF r, t
<1>5. t \in PeerState
  BY <1>1, <1>3, ZenonT(60) DEF PeerState
<1>6. /\ t.accept = s.accept /\ t.status = s.status /\ t.fd = s.fd /\ t.shutdown = s.shutdown
      /\ t.overflow = s.overflow /\ t.nsfWait = s.nsfWait /\ t.nsf = s.nsf
      /\ t.holdtime = s.holdtime /\ t.cap = s.cap /\ t.clearq = s.clearq
      /\ t.ptr = s.ptr /\ t.armed = s.armed /\ t.event = s.event /\ t.ready = s.ready
      /\ t.rib = r
  BY <1>1, Zenon DEF PeerState
<1> QED
  BY <1>3, <1>4, <1>5, <1>6, Zenon DEF t, NoRoutes

LEMMA StaleKeeps ==
  ASSUME NEW s, Base(s)
  PROVE  LET t == bgp_clear_stale_route(s)
         IN  /\ Base(t) /\ Tempered(s, t) /\ t.status = s.status /\ t.accept = s.accept
             /\ Reads(s) => Reads(t)
             /\ Completes(s) => Completes(t)
             /\ Timed(s) => Timed(t)
<1> DEFINE t == bgp_clear_stale_route(s)
<1>1. s \in PeerState
  BY Zenon DEF Base
<1>2. /\ t \in PeerState
      /\ t.accept = s.accept /\ t.status = s.status /\ t.fd = s.fd /\ t.shutdown = s.shutdown
      /\ t.overflow = s.overflow /\ t.holdtime = s.holdtime /\ t.clearq = s.clearq
      /\ t.ptr = s.ptr /\ t.armed = s.armed /\ t.event = s.event /\ t.ready = s.ready
      /\ \A af \in AFs : t.rib[af] # "stale"
      /\ NoRoutes(s) => NoRoutes(t)
  BY <1>1, StaleFields, Zenon
<1> HIDE DEF t
<1>3. On(t) = On(s) /\ Rd(t) = Rd(s) /\ Waits(t) = Waits(s)
  BY <1>2, Zenon DEF On, Rd, Ev, Waits
<1>4. Base(t)
  <2>1. Armed(t) /\ Quiet(t)
    BY <1>2, <1>3, Zenon DEF Base, Armed, Quiet
  <2>2. Sweep(t) /\ Queue(t)
    BY <1>2, <1>3, Zenon DEF Base, Sweep, Queue
  <2> QED
    BY <1>2, <2>1, <2>2, Zenon DEF Base
<1>5. Tempered(s, t)
  BY <1>2, <1>3, Zenon DEF Tempered, Tame
<1>6. (Reads(s) => Reads(t)) /\ (Completes(s) => Completes(t))
  BY <1>2, <1>3, Zenon DEF Reads, Completes
<1>7. Timed(s) => Timed(t)
  BY <1>2, <1>3, Zenon DEF Timed, Suppressed
<1> QED
  BY <1>2, <1>4, <1>5, <1>6, <1>7, Zenon DEF t

LEMMA EstablishKeeps ==
  ASSUME Lists, NEW s, Base(s), Reads(s), s.status = "OpenConfirm"
  PROVE  LET t == bgp_establish(s)
         IN  Base(t) /\ Reads(t) /\ Tame(s, t) /\ t.accept = s.accept /\ t.status = "Established"
<1> DEFINE a == [s EXCEPT !.status = "Established", !.nsfWait = FALSE, !.nsf = (s.cap # "none")]
           b == IF s.nsf /\ s.cap # "preserve" THEN bgp_clear_stale_route(a) ELSE a
           G == IF s.cap = "none" THEN {"t_gr_stale", "t_gr_restart"} ELSE {"t_gr_restart"}
           W == IF s.holdtime THEN {"t_write", "t_routeadv"} ELSE {"t_routeadv"}
           c == ThreadOff(b, G)
           t == ThreadOn(c, W)
<1>1. t = bgp_establish(s)
  BY Zenon DEF bgp_establish
<1>2. s \in PeerState
  BY Zenon DEF Base
<1>3. a \in PeerState
  BY <1>2, ZenonT(60) DEF PeerState, Status
<1>4. /\ a.status = "Established" /\ a.nsf = (s.cap # "none")
      /\ a.accept = s.accept /\ a.fd = s.fd /\ a.rib = s.rib /\ a.clearq = s.clearq
      /\ a.ptr = s.ptr /\ a.armed = s.armed /\ a.event = s.event /\ a.ready = s.ready
  BY <1>2, Zenon DEF PeerState
<1> HIDE DEF a
<1>5. /\ b \in PeerState
      /\ b.status = "Established" /\ b.accept = s.accept /\ b.fd = s.fd /\ b.clearq = s.clearq
      /\ b.ptr = s.ptr /\ b.armed = s.armed /\ b.event = s.event /\ b.ready = s.ready
      /\ NoRoutes(s) => NoRoutes(b)
      /\ Sweep(b)
  <2>1. NoRoutes(s) => NoRoutes(a)
    BY <1>4, Zenon DEF NoRoutes
  <2>2. CASE s.nsf /\ s.cap # "preserve"
    <3>1. b = bgp_clear_stale_route(a)
      BY <2>2, Zenon
    <3> HIDE DEF b
    <3>2. /\ b \in PeerState
          /\ b.accept = a.accept /\ b.status = a.status /\ b.fd = a.fd /\ b.clearq = a.clearq
          /\ b.ptr = a.ptr /\ b.armed = a.armed /\ b.event = a.event /\ b.ready = a.ready
          /\ \A af \in AFs : b.rib[af] # "stale"
          /\ NoRoutes(a) => NoRoutes(b)
      BY <1>3, <3>1, StaleFields, Zenon
    <3> QED
      BY <1>4, <2>1, <3>2, Zenon DEF Sweep
  <2>3. CASE ~(s.nsf /\ s.cap # "preserve")
    <3>1. b = a
      BY <2>3, Zenon
    <3> HIDE DEF b
    <3>2. s.nsf => a.nsf
      BY <1>4, <2>3, Zenon
    <3>3. Sweep(a)
      BY <1>4, <3>2, Zenon DEF Base, Sweep
    <3> QED
      BY <1>3, <1>4, <2>1, <3>1, <3>3, Zenon
  <2> QED
    BY <2>2, <2>3, Zenon
<1> HIDE DEF b
<1>6. On(b) = On(s) /\ Rd(b) = Rd(s) /\ Waits(b) = Waits(s)
  BY <1>5, Zenon DEF On, Rd, Ev, Waits
<1>7. Base(b) /\ Reads(b) /\ Tame(s, b)
  <2>1. Armed(b) /\ Quiet(b)
    BY <1>5, <1>6, Zenon DEF Base, Armed, Quiet
  <2>2. Queue(b)
    BY <1>5, <1>6, Zenon DEF Base, Queue
  <2>3. Reads(b)
    BY <1>5, <1>6, Zenon DEF Reads, NotifiableStatus
  <2>4. Tame(s, b)
    BY <1>5, <1>6, Zenon DEF Tame
  <2> QED
    BY <1>5, <2>1, <2>2, <2>3, <2>4, Zenon DEF Base
<1>8. G \subseteq Threads /\ "t_read" \notin G /\ W \subseteq Threads
  BY Zenon DEF Threads, Timers
<1> HIDE DEF G, W
<1>9. Base(c) /\ Reads(c) /\ Tame(b, c) /\ Plain(b, c)
  BY <1>7, <1>8, OffKeeps, Zenon
<1> HIDE DEF c
<1>10. c.status # "Clearing"
  BY <1>5, <1>9, Zenon DEF Plain
<1>11. Base(t) /\ Reads(t) /\ Tame(c, t) /\ Plain(c, t)
  BY <1>8, <1>9, <1>10, OnKeeps, Zenon
<1> HIDE DEF t
<1> QED
  BY <1>1, <1>5, <1>7, <1>9, <1>11, TameStep, Zenon DEF Plain

\* bgp_event, before bgp_timer_set: every function of the state machine leaves
\* a good peer, and so does the change of status after it.
LEMMA CallKeeps ==
  ASSUME Lists, NEW s, Base(s), Reads(s), NEW e \in Events, NEW io \in IO,
         e # "Clearing_Completed" => Completes(s),
         NEW f, NEW st2, Entry(s.status, e, f, st2), ~CallFails(f, s),
         NEW t, t = CallFsm(f, s, io),
         NEW u, u = IF st2 = t.status THEN t ELSE bgp_fsm_change_status(t, st2)
  PROVE  /\ Base(u) /\ Reads(u) /\ Completes(u) /\ Tame(s, u)
         /\ u.accept = s.accept /\ u.status = st2
<1>1. s \in PeerState /\ s.status \in Status
  BY Typed, Zenon DEF Base
<1>2. ASSUME Base(t), Tame(s, t), t.accept = s.accept, t.status # st2,
             st2 \in Status \ {"Clearing", "Deleted", "Free"},
             st2 \in NotifiableStatus => t.fd /\ "t_read" \in On(t)
      PROVE  /\ Base(u) /\ Reads(u) /\ Completes(u) /\ Tame(s, u)
             /\ u.accept = s.accept /\ u.status = st2
  <2>1. u = bgp_fsm_change_status(t, st2)
    BY <1>2, Zenon
  <2>2. Base(u) /\ Reads(u) /\ Completes(u) /\ Tame(t, u) /\ u.accept = t.accept /\ u.status = st2
    BY <1>2, <2>1, MoveKeeps, SMTT(60)
  <2> QED
    BY <1>2, <2>2, TameStep, Zenon
<1>3. ASSUME Base(t), Tame(s, t), t.accept = s.accept, t.status = st2, Reads(t), Completes(t)
      PROVE  /\ Base(u) /\ Reads(u) /\ Completes(u) /\ Tame(s, u)
             /\ u.accept = s.accept /\ u.status = st2
  <2>1. u = t
    BY <1>3, Zenon
  <2> QED
    BY <1>3, <2>1, Zenon
<1>4. ASSUME NEW r, Stopped(r, t), Queue(r), Tame(s, r), r.accept = s.accept, r.status = "Established",
             st2 = "Clearing"
      PROVE  /\ Base(u) /\ Reads(u) /\ Completes(u) /\ Tame(s, u)
             /\ u.accept = s.accept /\ u.status = st2
  <2>1. u = bgp_fsm_change_status(t, "Clearing")
    BY <1>4, Zenon DEF Stopped
  <2>2. t \in PeerState /\ ~t.fd /\ Sessional \cap (t.ptr \cup On(t)) = {} /\ Queue(t)
    BY <1>4, ZenonT(60) DEF Stopped, Queue
  <2>3. /\ Base(u) /\ Tame(t, u) /\ u.accept = t.accept /\ u.status = "Clearing"
        /\ t.status # "Deleted" => Completes(u)
    BY <2>1, <2>2, ClearedStatus, ZenonT(60)
  <2>4. t.status # "Deleted" /\ t.accept = s.accept /\ Tame(r, t)
    BY <1>4, Zenon DEF Stopped, Tame, NoRoutes
  <2>5. Reads(u)
    BY <2>3, Zenon DEF Reads, NotifiableStatus
  <2> QED
    BY <1>4, <2>3, <2>4, <2>5, TameStep, Zenon
<1>5. CASE f = "bgp_start" /\ s.status \in {"Idle", "Active"} /\ st2 = "Connect"
  <2>1. t = bgp_start(s, io)
    BY <1>5, Zenon DEF CallFsm
  <2>2. Base(t) /\ Tame(s, t) /\ t.accept = s.accept /\ t.status = s.status
    BY <1>5, <2>1, StartKeeps, Zenon
  <2> QED
    BY <1>2, <1>5, <2>2, Zenon DEF Status, NotifiableStatus
<1>6. ASSUME f \in Stops
      PROVE  t = bgp_stop(s) /\ Stopped(s, t)
  <2>1. t = bgp_stop(s)
    BY <1>6, Zenon DEF CallFsm, Stops
  <2> QED
    BY <1>1, <2>1, StopFields, Zenon
<1>7. CASE f \in Stops /\ s.status = "Established" /\ st2 = "Clearing"
  BY <1>4, <1>6, <1>7, Zenon DEF Base, Tame
<1>8. CASE f \in Stops /\ s.status = "Clearing" /\ st2 = "Clearing" /\ e # "Clearing_Completed"
  <2>1. Base(t) /\ Tempered(s, t) /\ Completes(t)
    BY <1>6, <1>8, StopKeeps, Zenon
  <2>2. t.accept = s.accept /\ t.status = "Clearing" /\ Reads(t) /\ Tame(s, t)
    BY <1>6, <1>8, <2>1, ZenonT(60) DEF Stopped, Reads, NotifiableStatus, Tempered
  <2> QED
    BY <1>3, <1>8, <2>1, <2>2, Zenon
<1>9. CASE f \in Stops /\ s.status \notin {"Established", "Clearing", "Free"} /\ st2 \in {"Idle", "Active"}
  <2>1. Base(t) /\ Tempered(s, t)
    BY <1>6, <1>9, StopKeeps, Zenon
  <2>2. t.accept = s.accept /\ t.status = s.status /\ Tame(s, t)
    BY <1>6, <1>9, <2>1, Zenon DEF Stopped, Tempered
  <2>3. CASE t.status = st2
    <3>1. Reads(t) /\ Completes(t)
      BY <1>9, <2>3, Zenon DEF Reads, Completes, NotifiableStatus
    <3> QED
      BY <1>3, <2>1, <2>2, <2>3, <3>1, Zenon
  <2>4. CASE t.status # st2
    BY <1>2, <1>9, <2>1, <2>2, <2>4, Zenon DEF Status, NotifiableStatus
  <2> QED
    BY <2>3, <2>4, Zenon
<1>10. CASE f = "bgp_reconnect" /\ s.status = "Connect" /\ st2 = "Connect"
  <2> DEFINE r == bgp_stop(s)
  <2>1. t = bgp_start(r, io)
    BY <1>10, Zenon DEF CallFsm
  <2>2. Base(r) /\ Tempered(s, r) /\ Stopped(s, r)
    BY <1>1, <1>10, StopKeeps, StopFields, Zenon
  <2> HIDE DEF r
  <2>3. r.status = "Connect" /\ r.accept = s.accept
    BY <1>10, <2>2, Zenon DEF Stopped
  <2>4. Base(t) /\ Tame(r, t) /\ t.accept = r.accept /\ t.status = r.status
    BY <2>1, <2>2, <2>3, StartKeeps, Zenon
  <2>5. Tame(s, t)
    BY <2>2, <2>4, TameStep, Zenon DEF Tempered
  <2>6. Reads(t) /\ Completes(t)
    BY <2>3, <2>4, Zenon DEF Reads, Completes, NotifiableStatus
  <2> QED
    BY <1>3, <1>10, <2>3, <2>4, <2>5, <2>6, Zenon
<1>11. CASE f = "bgp_connect_success" /\ s.status \in {"Connect", "Active"} /\ st2 = "OpenSent"
  <2> DEFINE T == IF s.accept THEN {"t_read"} ELSE {"t_read", "t_write"}
  <2>1. s.fd
    BY <1>11, Zenon DEF CallFails
  <2>2. t = ThreadOn(s, T)
    BY <1>11, <2>1, Zenon DEF CallFsm, bgp_connect_success
  <2>3. T \subseteq Threads /\ "t_read" \in T
    BY Zenon DEF Threads
  <2> HIDE DEF T
  <2>4. Base(t) /\ Tame(s, t) /\ Plain(s, t) /\ T \cap Sessional \subseteq On(t)
    BY <1>11, <2>2, <2>3, OnKeeps, Zenon
  <2>5. "t_read" \in On(t) /\ t.fd /\ t.accept = s.accept /\ t.status = s.status
    BY <2>1, <2>3, <2>4, Kinds, Zenon DEF Plain
  <2> QED
    BY <1>2, <1>11, <2>4, <2>5, Zenon DEF Status
<1>12. ASSUME f \in Notifies
       PROVE  \E r : /\ Base(r) /\ Plain(s, r) /\ Tame(s, r)
                     /\ t = bgp_stop(r)
  <2> DEFINE r == bgp_notify_send(s, io)
  <2>1. ~s.accept
    BY <1>12, Zenon DEF CallFails, Notifies
  <2>2. t = bgp_stop_with_notify(s, io)
    BY <1>12, Zenon DEF CallFsm, Notifies
  <2>3. t = bgp_stop(r)
    BY <2>1, <2>2, Zenon DEF bgp_stop_with_notify
  <2>4. Base(r) /\ Plain(s, r) /\ Tame(s, r)
    BY NotifyKeeps, Zenon
  <2> QED
    BY <2>3, <2>4, Zenon
<1>13. CASE f \in Notifies /\ s.status \in {"OpenSent", "OpenConfirm"} /\ st2 = "Idle"
  <2>1. PICK r : Base(r) /\ Plain(s, r) /\ Tame(s, r) /\ t = bgp_stop(r)
    BY <1>12, <1>13, Zenon
  <2>2. r.status = s.status /\ r.accept = s.accept
    BY <2>1, Zenon DEF Plain
  <2>3. Base(t) /\ Tempered(r, t) /\ Stopped(r, t)
    BY <1>13, <2>1, <2>2, StopKeeps, StopFields, Zenon DEF Base
  <2>4. t.accept = s.accept /\ t.status = s.status /\ Tame(r, t)
    BY <2>2, <2>3, Zenon DEF Stopped, Tempered
  <2>5. Tame(s, t)
    BY <2>1, <2>4, TameStep, Zenon
  <2> QED
    BY <1>2, <1>13, <2>3, <2>4, <2>5, Zenon DEF Status, NotifiableStatus
<1>14. CASE f \in Notifies /\ s.status = "Established" /\ st2 = "Clearing"
  <2>1. PICK r : Base(r) /\ Plain(s, r) /\ Tame(s, r) /\ t = bgp_stop(r)
    BY <1>12, <1>14, Zenon
  <2>2. r.status = "Established" /\ r.accept = s.accept /\ Queue(r)
    BY <1>14, <2>1, Zenon DEF Plain, Base
  <2>3. Stopped(r, t)
    BY <2>1, StopFields, Zenon DEF Base
  <2> QED
    BY <1>4, <1>14, <2>1, <2>2, <2>3, Zenon
<1>15. CASE f = "bgp_fsm_open" /\ s.status = "OpenSent" /\ st2 = "OpenConfirm"
  <2> DEFINE r == ThreadOn(s, {"t_write"})
  <2>1. t = ThreadOff(r, {"t_holdtime"})
    BY <1>15, Zenon DEF CallFsm
  <2>2. {"t_write"} \subseteq Threads /\ {"t_holdtime"} \subseteq Threads /\ "t_read" \notin {"t_holdtime"}
    BY Zenon DEF Threads, Timers
  <2>3. Base(r) /\ Tame(s, r) /\ Plain(s, r) /\ Reads(r)
    BY <1>15, <2>2, OnKeeps, Zenon
  <2> HIDE DEF r
  <2>4. Base(t) /\ Tame(r, t) /\ Plain(r, t) /\ Reads(t)
    BY <2>1, <2>2, <2>3, OffKeeps, Zenon
  <2>5. t.status = "OpenSent" /\ t.accept = s.accept /\ Tame(s, t)
    BY <1>15, <2>3, <2>4, TameStep, Zenon DEF Plain
  <2>6. t.fd /\ "t_read" \in On(t)
    BY <2>4, <2>5, Zenon DEF Reads, NotifiableStatus
  <2> QED
    BY <1>2, <1>15, <2>4, <2>5, <2>6, Zenon DEF Status
<1>16. CASE /\ f \in {"bgp_fsm_keepalive_expire", "bgp_fsm_keepalive", "bgp_fsm_update"}
            /\ s.status = "Established" /\ st2 = "Established"
  <2>1. {"t_write"} \subseteq Threads /\ {"t_holdtime"} \subseteq Threads /\ "t_read" \notin {"t_holdtime"}
    BY Zenon DEF Threads, Timers
  <2>2. t = ThreadOn(s, {"t_write"}) \/ t = ThreadOff(s, {"t_holdtime"})
    BY <1>16, Zenon DEF CallFsm
  <2>3. Base(t) /\ Tame(s, t) /\ Plain(s, t) /\ Reads(t)
    <3>1. CASE t = ThreadOn(s, {"t_write"})
      BY <1>16, <2>1, <3>1, OnKeeps, SMTT(60)
    <3>2. CASE t = ThreadOff(s, {"t_holdtime"})
      BY <2>1, <3>2, OffKeeps, Zenon
    <3> QED
      BY <2>2, <3>1, <3>2, Zenon
  <2>4. t.status = "Established" /\ t.accept = s.accept /\ Completes(t)
    BY <1>16, <2>3, Zenon DEF Plain, Completes
  <2> QED
    BY <1>3, <1>16, <2>3, <2>4, Zenon
<1>17. CASE f = "bgp_establish" /\ s.status = "OpenConfirm" /\ st2 = "Established"
  <2>1. t = bgp_establish(s)
    BY <1>17, Zenon DEF CallFsm
  <2>2. Base(t) /\ Reads(t) /\ Tame(s, t) /\ t.accept = s.accept /\ t.status = "Established"
    BY <1>17, <2>1, EstablishKeeps, Zenon
  <2>3. Completes(t)
    BY <2>2, Zenon DEF Completes
  <2> QED
    BY <1>3, <1>17, <2>2, <2>3, Zenon
<1>18. CASE f = "bgp_clearing_completed" /\ s.status = "Clearing" /\ st2 = "Idle"
  <2> DEFINE r == bgp_stop(s)
  <2>1. t = EventFlush(r)
    BY <1>18, Zenon DEF CallFsm
  <2>2. Base(r) /\ Tempered(s, r) /\ Stopped(s, r)
    BY <1>1, <1>18, StopKeeps, StopFields, Zenon
  <2> HIDE DEF r
  <2>3. r \in PeerState /\ Queue(r) /\ Sweep(r)
    BY <2>2, Zenon DEF Base
  <2>4. /\ t \in PeerState /\ Plain(r, t) /\ t.ptr = r.ptr /\ t.armed = r.armed /\ t.clearq = r.clearq
        /\ Ev(t) = {} /\ Rd(t) = Rd(r) \cap Foreign
        /\ Once(r.ready, "clear_node_queue") => Once(t.ready, "clear_node_queue")
    BY <2>1, <2>3, FlushFields, Zenon
  <2>5. Sweep(t) /\ Queue(t)
    BY <2>3, <2>4, ZenonT(60) DEF Sweep, Queue, Plain
  <2>6. ~t.fd /\ Sessional \cap (t.ptr \cup On(t)) = {}
    BY <2>2, <2>4, ZenonT(60) DEF Stopped, Plain, On
  <2>7. Base(t)
    BY <2>4, <2>5, <2>6, ClosedBase, ZenonT(60)
  <2>8. Tame(r, t)
    BY <2>4, Zenon DEF Tame, Plain, NoRoutes, Waits
  <2>9. t.status = "Clearing" /\ t.accept = s.accept /\ Tame(s, t)
    BY <1>18, <2>2, <2>4, <2>8, TameStep, ZenonT(60) DEF Stopped, Plain, Tempered
  <2> QED
    BY <1>2, <1>18, <2>7, <2>9, SMTT(60) DEF Status, NotifiableStatus
<1>19. CASE f = "bgp_ignore" /\ st2 = s.status /\ (s.status = "Clearing" => e # "Clearing_Completed")
  <2>1. t = s
    BY <1>19, Zenon DEF CallFsm
  <2>2. Completes(s)
    BY <1>19, Zenon DEF Completes
  <2> QED
    BY <1>3, <1>19, <2>1, <2>2, Zenon DEF Tame
<1>20. CASE f = "bgp_ignore" /\ s.status \notin {"Clearing", "Deleted", "Free"} /\ st2 = "Idle"
  <2>1. t = s
    BY <1>20, Zenon DEF CallFsm
  <2>2. CASE s.status = "Idle"
    <3>1. Completes(s)
      BY <2>2, Zenon DEF Completes
    <3> QED
      BY <1>3, <1>20, <2>1, <2>2, <3>1, Zenon DEF Tame
  <2>3. CASE s.status # "Idle"
    BY <1>2, <1>20, <2>1, <2>3, Zenon DEF Tame, Status, NotifiableStatus
  <2> QED
    BY <2>2, <2>3, Zenon
<1> QED
  BY <1>5, <1>7, <1>8, <1>9, <1>10, <1>11, <1>13, <1>14, <1>15, <1>16, <1>17, <1>18, <1>19, <1>20
    , ZenonT(60) DEF Entry

\* Except on an OPEN, the state machine takes no peer past OpenSent that was
\* not there already.
LEMMA TableLate ==
  ASSUME NEW st \in Status, NEW e \in Events, NEW f, NEW st2, Entry(st, e, f, st2),
         e # "Receive_OPEN_message", st \notin Late
  PROVE  st2 \notin Late /\ (st = "Free" => st2 = "Free")
BY Zenon DEF Entry, Late, Stops, Notifies

LEMMA EventKeeps ==
  ASSUME Lists, NEW s, Base(s), Reads(s), NEW e \in Events, NEW io \in IO,
         e # "Clearing_Completed" => Completes(s)
  PROVE  LET u == bgp_event(s, e, io)
         IN  /\ Local(u)
             /\ ~s.accept => ~u.accept
             /\ e # "Receive_OPEN_message" => Tempered(s, u)
<1> DEFINE f == FSM(s.status, e)[1]
           st2 == FSM(s.status, e)[2]
           t == CallFsm(f, s, io)
           v == IF st2 = t.status THEN t ELSE bgp_fsm_change_status(t, st2)
           u == bgp_event(s, e, io)
<1>1. s \in PeerState /\ s.status \in Status
  BY Typed, Zenon DEF Base
<1>2. Entry(s.status, e, f, st2)
  BY <1>1, Table, Zenon
<1>3. u = IF CallFails(f, s) THEN t ELSE bgp_timer_set(v)
  BY Zenon DEF bgp_event
<1> HIDE DEF f, st2, u
<1>4. CASE ~CallFails(f, s)
  <2>1. /\ Base(v) /\ Reads(v) /\ Completes(v) /\ Tame(s, v)
        /\ v.accept = s.accept /\ v.status = st2
    BY <1>2, <1>4, CallKeeps, SMTT(60)
  <2>2. u = bgp_timer_set(v)
    BY <1>3, <1>4, Zenon
  <2> HIDE DEF v
  <2>3. Base(u) /\ Tame(v, u) /\ Plain(v, u) /\ Reads(u) /\ Completes(u) /\ Timed(u)
    BY <2>1, <2>2, TimerSetKeeps, Zenon
  <2>4. Local(u) /\ Tame(s, u) /\ u.accept = s.accept /\ u.status = st2
    BY <2>1, <2>3, TameStep, Zenon DEF Local, Plain
  <2>5. e # "Receive_OPEN_message" => Tempered(s, u)
    <3>1. e # "Receive_OPEN_message" /\ s.status \notin Late => st2 \notin Late /\ (s.status = "Free" => st2 = "Free")
      BY <1>1, <1>2, TableLate, Zenon
    <3>2. "Free" \notin Late
      BY Zenon DEF Late
    <3> QED
      BY <2>4, <3>1, <3>2, Zenon DEF Tempered
  <2> QED
    BY <2>4, <2>5, Zenon DEF u
<1>5. CASE CallFails(f, s)
  <2>1. u = t
    BY <1>3, <1>5, Zenon
  <2> HIDE DEF v
  <2>2. CASE f \in Notifies /\ s.accept
    <3> DEFINE r == bgp_notify_send(s, io)
    <3>1. t = bgp_stop_with_notify(s, io)
      BY <2>2, Zenon DEF CallFsm, Notifies
    <3>2. t = peer_delete(r)
      BY <2>2, <3>1, Zenon DEF bgp_stop_with_notify
    <3>3. Base(r) /\ Plain(s, r) /\ Tame(s, r)
      BY NotifyKeeps, Zenon
    <3> HIDE DEF r, t
    <3>4. r.accept /\ Tempered(s, r)
      BY <2>2, <3>3, TemperedPlain, Zenon DEF Plain
    <3>5. Local(t) /\ Tempered(r, t)
      BY <3>2, <3>3, <3>4, DeleteKeeps, Zenon
    <3> QED
      BY <2>1, <2>2, <3>4, <3>5, TemperedStep, Zenon DEF u
  <2>3. CASE ~(f \in Notifies /\ s.accept)
    <3>1. \/ f = "bgp_start" /\ Suppressed(s) /\ s.status \in {"Idle", "Active"}
          \/ f = "bgp_connect_success" /\ ~s.fd /\ s.status \in {"Connect", "Active"}
      BY <1>2, <1>5, <2>3, Zenon DEF CallFails, Entry, Stops, Notifies
    <3>2. t = s
      <4>1. CASE f = "bgp_start" /\ Suppressed(s)
        BY <4>1, Zenon DEF CallFsm, bgp_start
      <4>2. CASE f = "bgp_connect_success" /\ ~s.fd
        BY <4>2, Zenon DEF CallFsm, bgp_connect_success
      <4> QED
        BY <3>1, <4>1, <4>2, Zenon
    <3>3. Completes(s) /\ Timed(s)
      BY <3>1, Zenon DEF Completes, Timed, NotifiableStatus
    <3>4. Tempered(s, s)
      BY Zenon DEF Tempered, Tame
    <3> QED
      BY <2>1, <3>2, <3>3, <3>4, Zenon DEF Local, u
  <2> QED
    BY <2>2, <2>3, Zenon
<1> QED
  BY <1>4, <1>5, Zenon

(***************************************************************************)
(* The other handlers.                                                     *)
(***************************************************************************)

\* Flags, pointers that are reset and a neighbour's answer to OPEN change
\* nothing the invariant speaks of but the timers.
LEMMA Alike ==
  ASSUME NEW s, Base(s), NEW t \in PeerState,
         t.ptr \subseteq s.ptr, t.armed = s.armed, t.ready = s.ready, t.event = s.event,
         t.status = s.status, t.fd = s.fd, t.rib = s.rib, t.clearq = s.clearq,
         t.accept = s.accept, t.nsf = s.nsf
  PROVE  /\ Base(t) /\ Tempered(s, t)
         /\ Reads(s) => Reads(t)
         /\ Completes(s) => Completes(t)
         /\ t.shutdown = s.shutdown /\ t.overflow = s.overflow /\ t.holdtime = s.holdtime /\ Timed(s) => Timed(t)
<1>1. On(t) = On(s) /\ Rd(t) = Rd(s) /\ Waits(t) = Waits(s)
  BY Zenon DEF On, Rd, Ev, Waits
<1>2. Armed(t) /\ Quiet(t)
  BY <1>1, Zenon DEF Base, Armed, Quiet
<1>3. Sweep(t) /\ Queue(t)
  BY <1>1, Zenon DEF Base, Sweep, Queue
<1>4. Reads(s) => Reads(t)
  BY <1>1, Zenon DEF Reads
<1>5. Completes(s) => Completes(t)
  BY <1>1, Zenon DEF Completes
<1>6. t.shutdown = s.shutdown /\ t.overflow = s.overflow /\ t.holdtime = s.holdtime /\ Timed(s) => Timed(t)
  BY <1>1, Zenon DEF Timed, Suppressed
<1>7. Tempered(s, t)
  BY <1>1, Zenon DEF Tempered, Tame, NoRoutes
<1> QED
  BY <1>2, <1>3, <1>4, <1>5, <1>6, <1>7, Zenon DEF Base

\* Events and flags: an event is pending at the end.
LEMMA NotifyOrStopKeeps ==
  ASSUME Lists, NEW s, Base(s), Reads(s), Completes(s), NEW io
  PROVE  Local(NotifyOrStop(s, io)) /\ Tempered(s, NotifyOrStop(s, io))
<1> DEFINE t == NotifyOrStop(s, io)
<1>1. "BGP_Stop" \in Events /\ "BGP_Stop" # "Receive_OPEN_message"
  BY Zenon DEF Events
<1>2. t = bgp_notify_send(s, io) \/ t = EventAdd(s, "BGP_Stop")
  BY Zenon DEF NotifyOrStop
<1> HIDE DEF t
<1>3. Base(t) /\ Plain(s, t) /\ Tame(s, t) /\ Reads(t) /\ Completes(t) /\ Timed(t)
  <2>1. CASE t = bgp_notify_send(s, io)
    BY <2>1, NotifyKeeps, Zenon
  <2>2. CASE t = EventAdd(s, "BGP_Stop")
    BY <1>1, <2>2, AddKeeps, Zenon
  <2> QED
    BY <1>2, <2>1, <2>2, Zenon
<1> QED
  BY <1>3, TemperedPlain, Zenon DEF Local, t

LEMMA AddLocal ==
  ASSUME NEW s, Base(s), Reads(s), Completes(s), NEW e \in Events
  PROVE  /\ Local(EventAdd(s, e)) /\ EventAdd(s, e).accept = s.accept
         /\ EventAdd(s, e).status = s.status
         /\ e # "Receive_OPEN_message" => Tempered(s, EventAdd(s, e))
<1> DEFINE t == EventAdd(s, e)
<1>1. /\ Base(t) /\ Plain(s, t) /\ Reads(t) /\ Completes(t) /\ Timed(t)
      /\ e # "Receive_OPEN_message" => Tame(s, t)
  BY AddKeeps, Zenon
<1> HIDE DEF t
<1> QED
  BY <1>1, TemperedPlain, Zenon DEF Local, Plain, t

LEMMA PmaxOff ==
  ASSUME Lists, NEW s, Base(s), Reads(s), Completes(s), NEW t,
         t = [ThreadOff(s, {"t_pmax_restart"}) EXCEPT !.overflow = FALSE]
  PROVE  Base(t) /\ Reads(t) /\ Completes(t) /\ Tempered(s, t)
<1> DEFINE a == ThreadOff(s, {"t_pmax_restart"})
<1>1. {"t_pmax_restart"} \subseteq Threads /\ "t_read" \notin {"t_pmax_restart"}
  BY Zenon DEF Threads, Timers
<1>2. Base(a) /\ Tame(s, a) /\ Plain(s, a) /\ Reads(a) /\ Completes(a)
  BY <1>1, OffKeeps, Zenon
<1> HIDE DEF a
<1>3. a \in PeerState /\ t = [a EXCEPT !.overflow = FALSE]
  BY <1>2, Zenon DEF Base, a
<1>4. t \in PeerState
  BY <1>3, Zenon DEF PeerState
<1>5. /\ t.ptr = a.ptr /\ t.armed = a.armed /\ t.ready = a.ready /\ t.event = a.event
      /\ t.status = a.status /\ t.fd = a.fd /\ t.rib = a.rib /\ t.clearq = a.clearq
      /\ t.accept = a.accept /\ t.nsf = a.nsf
  BY <1>3 DEF PeerState
<1>6. Base(t) /\ Reads(t) /\ Completes(t) /\ Tempered(a, t)
  BY <1>2, <1>4, <1>5, Alike, Zenon
<1> QED
  BY <1>2, <1>6, TemperedPlain, TemperedStep, Zenon

LEMMA PeerClearKeeps ==
  ASSUME Lists, NEW s, Local(s), NEW io
  PROVE  Local(peer_clear(s, io)) /\ Tempered(s, peer_clear(s, io))
<1> DEFINE a == [ThreadOff(s, {"t_pmax_restart"}) EXCEPT !.overflow = FALSE]
           t == peer_clear(s, io)
<1>1. Base(s) /\ Reads(s) /\ Completes(s)
  BY Zenon DEF Local
<1>2. \/ t = s
      \/ t = EventAdd(a, "BGP_Start")
      \/ t = NotifyOrStop(s, io)
  <2>1. CASE s.shutdown
    BY <2>1, Zenon DEF peer_clear
  <2>2. CASE ~s.shutdown /\ s.overflow
    BY <2>2, Zenon DEF peer_clear
  <2>3. CASE ~s.shutdown /\ ~s.overflow
    BY <2>3, Zenon DEF peer_clear
  <2> QED
    BY <2>1, <2>2, <2>3, Zenon
<1> HIDE DEF t, a
<1>3. CASE t = s
  BY <1>3, Zenon DEF Tempered, Tame, t
<1>4. CASE t = EventAdd(a, "BGP_Start")
  <2>1. Base(a) /\ Reads(a) /\ Completes(a) /\ Tempered(s, a)
    BY <1>1, PmaxOff, Zenon DEF a
  <2>2. "BGP_Start" \in Events /\ "BGP_Start" # "Receive_OPEN_message"
    BY Zenon DEF Events
  <2>3. Local(t) /\ Tempered(a, t)
    BY <1>4, <2>1, <2>2, AddLocal, Zenon
  <2> QED
    BY <2>1, <2>3, TemperedStep, Zenon DEF t
<1>5. CASE t = NotifyOrStop(s, io)
  BY <1>1, <1>5, NotifyOrStopKeeps, Zenon DEF t
<1> QED
  BY <1>2, <1>3, <1>4, <1>5, Zenon

LEMMA ShutdownKeeps ==
  ASSUME Lists, NEW s, Local(s), s.status # "Free", NEW io
  PROVE  Local(peer_shutdown(s, io)) /\ Tempered(s, peer_shutdown(s, io))
<1> DEFINE a == [s EXCEPT !.shutdown = TRUE]
           b == IF s.nsfWait THEN peer_nsf_stop(a) ELSE a
           c == [ThreadOff(b, {"t_pmax_restart"}) EXCEPT !.overflow = FALSE]
           t == NotifyOrStop(c, io)
<1>1. t = peer_shutdown(s, io)
  BY Zenon DEF peer_shutdown
<1>2. Base(s) /\ Reads(s) /\ Completes(s) /\ s \in PeerState
  BY Zenon DEF Local, Base
<1>3. a \in PeerState
  BY <1>2, Zenon DEF PeerState
<1>4. /\ a.ptr = s.ptr /\ a.armed = s.armed /\ a.ready = s.ready /\ a.event = s.event
      /\ a.status = s.status /\ a.fd = s.fd /\ a.rib = s.rib /\ a.clearq = s.clearq
      /\ a.accept = s.accept /\ a.nsf = s.nsf
  BY <1>2, Zenon DEF PeerState
<1> HIDE DEF a
<1>5. Base(a) /\ Reads(a) /\ Completes(a) /\ Tempered(s, a)
  BY <1>2, <1>3, <1>4, Alike, Zenon
<1>6. Base(b) /\ Reads(b) /\ Completes(b) /\ Tempered(a, b)
  <2>1. CASE s.nsfWait
    BY <1>4, <1>5, <2>1, NsfStopKeeps, Zenon
  <2>2. CASE ~s.nsfWait
    BY <1>5, <2>2, Zenon DEF Tempered, Tame
  <2> QED
    BY <2>1, <2>2, Zenon
<1> HIDE DEF b
<1>7. Base(c) /\ Reads(c) /\ Completes(c) /\ Tempered(b, c)
  BY <1>6, PmaxOff, Zenon
<1> HIDE DEF c
<1>8. Local(t) /\ Tempered(c, t)
  BY <1>7, NotifyOrStopKeeps, Zenon
<1> HIDE DEF t
<1> QED
  BY <1>1, <1>5, <1>6, <1>7, <1>8, TemperedStep, Zenon

LEMMA NoShutdownKeeps ==
  ASSUME NEW s, Local(s)
  PROVE  Local(peer_no_shutdown(s)) /\ Tempered(s, peer_no_shutdown(s))
<1> DEFINE a == [s EXCEPT !.shutdown = FALSE]
           t == EventAdd(a, "BGP_Stop")
<1>1. t = peer_no_shutdown(s)
  BY Zenon DEF peer_no_shutdown
<1>2. Base(s) /\ Reads(s) /\ Completes(s) /\ s \in PeerState
  BY Zenon DEF Local, Base
<1>3. a \in PeerState
  BY <1>2, Zenon DEF PeerState
<1>4. /\ a.ptr = s.ptr /\ a.armed = s.armed /\ a.ready = s.ready /\ a.event = s.event
      /\ a.status = s.status /\ a.fd = s.fd /\ a.rib = s.rib /\ a.clearq = s.clearq
      /\ a.accept = s.accept /\ a.nsf = s.nsf
  BY <1>2, Zenon DEF PeerState
<1> HIDE DEF a
<1>5. Base(a) /\ Reads(a) /\ Completes(a) /\ Tempered(s, a)
  BY <1>2, <1>3, <1>4, Alike, Zenon
<1>6. "BGP_Stop" \in Events /\ "BGP_Stop" # "Receive_OPEN_message"
  BY Zenon DEF Events
<1>7. Local(t) /\ Tempered(a, t)
  BY <1>5, <1>6, AddLocal, Zenon
<1> HIDE DEF t
<1> QED
  BY <1>1, <1>5, <1>7, TemperedStep, Zenon

LEMMA GrExpireKeeps ==
  ASSUME Lists, NEW s, Base(s), Reads(s), Completes(s)
  PROVE  LET t == bgp_graceful_restart_timer_expire(s) IN Local(t) /\ Tempered(s, t)
<1> DEFINE a == IF s.nsf THEN bgp_clear_stale_route(s) ELSE s
           b == [a EXCEPT !.nsfWait = FALSE]
           c == ThreadOff(b, {"t_gr_stale"})
           t == bgp_timer_set(c)
<1>1. t = bgp_graceful_restart_timer_expire(s)
  BY Zenon DEF bgp_graceful_restart_timer_expire
<1>2. Base(a) /\ Reads(a) /\ Completes(a) /\ Tempered(s, a)
  <2>1. CASE s.nsf
    BY <2>1, StaleKeeps, Zenon
  <2>2. CASE ~s.nsf
    BY <2>2, Zenon DEF Tempered, Tame
  <2> QED
    BY <2>1, <2>2, Zenon
<1> HIDE DEF a
<1>3. a \in PeerState
  BY <1>2, Zenon DEF Base
<1>4. b \in PeerState
  BY <1>3, Zenon DEF PeerState
<1>5. /\ b.ptr = a.ptr /\ b.armed = a.armed /\ b.ready = a.ready /\ b.event = a.event
      /\ b.status = a.status /\ b.fd = a.fd /\ b.rib = a.rib /\ b.clearq = a.clearq
      /\ b.accept = a.accept /\ b.nsf = a.nsf
  BY <1>3, Zenon DEF PeerState
<1> HIDE DEF b
<1>6. Base(b) /\ Reads(b) /\ Completes(b) /\ Tempered(a, b)
  BY <1>2, <1>4, <1>5, Alike, Zenon
<1>7. {"t_gr_stale"} \subseteq Threads /\ "t_read" \notin {"t_gr_stale"}
  BY Zenon DEF Threads, Timers
<1>8. Base(c) /\ Tame(b, c) /\ Plain(b, c) /\ Reads(c) /\ Completes(c)
  BY <1>6, <1>7, OffKeeps, Zenon
<1> HIDE DEF c
<1>9. Base(t) /\ Tame(c, t) /\ Plain(c, t) /\ Reads(t) /\ Completes(t) /\ Timed(t)
  BY <1>8, TimerSetKeeps, Zenon
<1> HIDE DEF t
<1>10. Tempered(b, c) /\ Tempered(c, t)
  BY <1>8, <1>9, TemperedPlain, Zenon
<1> QED
  BY <1>1, <1>2, <1>6, <1>9, <1>10, TemperedStep, Zenon DEF Local

\* What a handler has to achieve for its peer.
Fit(s, u) ==
  /\ Local(u)
  /\ ~s.accept => ~u.accept
  /\ Temp(s) => Temp(u)

LEMMA TemperedFit ==
  ASSUME NEW s, NEW u, Local(u), Tempered(s, u)
  PROVE  Fit(s, u)
BY Zenon DEF Fit, Temp, Tempered, Tame

LEMMA FitStep ==
  ASSUME NEW s, NEW t, NEW u, Tempered(s, t), Fit(t, u)
  PROVE  Fit(s, u)
BY Zenon DEF Fit, Temp, Tempered, Tame

\* r is peer s with x, the head of its ready list, taken off to be run.
Took(s, x, r) ==
  /\ r \in PeerState /\ Quiet(r) /\ Sweep(r) /\ Queue(r)
  /\ x \in Work /\ x \in Waits(s)
  /\ Plain(s, r) /\ Tempered(s, r)
  /\ x \in Sessional => r.status # "Clearing"
  /\ r.ptr \cap Sessional \subseteq On(r) \cup {x}
  /\ r.status \in NotifiableStatus => r.fd
  /\ x # "t_read" => Reads(r)
  /\ x # "Clearing_Completed" => Completes(r)
  /\ x \notin Events \cup {"t_holdtime", "t_start"} => Timed(r)
  /\ x = "clear_node_queue" => r.clearq # <<>> /\ "clear_node_queue" \notin Rd(r)

LEMMA RunningTook ==
  ASSUME NEW s, Local(s), s.ready # <<>>, NEW r, r = [s EXCEPT !.ready = Tail(s.ready)]
  PROVE  Took(s, Head(s.ready), r)
<1> DEFINE x == Head(s.ready)
<1>1. Base(s) /\ s \in PeerState /\ s.ready \in Seq(Work)
  BY Typed, Zenon DEF Local, Base
<1>2. /\ x \in Work /\ Tail(s.ready) \in Seq(Work)
      /\ Elems(s.ready) = Elems(Tail(s.ready)) \cup {x}
      /\ \A v : Once(s.ready, v) => Once(Tail(s.ready), v) /\ (x = v => v \notin Elems(Tail(s.ready)))
  BY <1>1, ElemsTail, Zenon
<1>3. r \in PeerState
  BY <1>1, <1>2, Zenon DEF PeerState, Work
<1>4. /\ Plain(s, r) /\ r.ptr = s.ptr /\ r.armed = s.armed /\ r.event = s.event
      /\ r.clearq = s.clearq /\ r.ready = Tail(s.ready)
  BY <1>1, Zenon DEF PeerState, Plain
<1> HIDE DEF x
<1>5. /\ Rd(s) = Rd(r) \cup {x} /\ On(s) = On(r) \cup {x} /\ Waits(s) = Waits(r) \cup {x}
  BY <1>2, <1>4, Zenon DEF Rd, On, Waits, Ev
<1>6. Quiet(r) /\ (x \in Sessional => r.status # "Clearing")
  BY <1>1, <1>4, <1>5, Zenon DEF Base, Quiet, Plain
<1>7. Sweep(r)
  BY <1>1, <1>4, Zenon DEF Base, Sweep, Plain
<1>8. Once(s.ready, "clear_node_queue")
  BY <1>1, Zenon DEF Base, Queue
<1>9. /\ Queue(r)
      /\ x = "clear_node_queue" => r.clearq # <<>> /\ "clear_node_queue" \notin Rd(r)
  <2>1. /\ Once(Tail(s.ready), "clear_node_queue")
        /\ x = "clear_node_queue" => "clear_node_queue" \notin Elems(Tail(s.ready))
    BY <1>2, <1>8, Zenon
  <2> QED
    BY <1>1, <1>4, <1>5, <2>1, SMTT(60) DEF Base, Queue, Rd
<1>10. r.ptr \cap Sessional \subseteq On(r) \cup {x}
  BY <1>1, <1>4, <1>5, Zenon DEF Base, Armed
<1>11. (r.status \in NotifiableStatus => r.fd) /\ (x # "t_read" => Reads(r))
  BY <1>4, <1>5, Zenon DEF Local, Reads, Plain
<1>12. x # "Clearing_Completed" => Completes(r)
  BY <1>4, <1>5, Zenon DEF Local, Completes, Plain
<1>13. x \notin Events \cup {"t_holdtime", "t_start"} => Timed(r)
  BY <1>4, <1>5, ZenonT(60) DEF Local, Timed, Plain, Suppressed
<1>14. Tame(s, r)
  BY <1>4, <1>5, Zenon DEF Tame, Plain, NoRoutes
<1>15. Tempered(s, r)
  BY <1>4, <1>14, TemperedPlain, Zenon
<1> QED
  BY <1>2, <1>3, <1>4, <1>5, <1>6, <1>7, <1>9, <1>10, <1>11, <1>12, <1>13, <1>15, Zenon DEF Took, x

\* With the pointer of the thread reset, as every handler begins.
LEMMA ResetTook ==
  ASSUME NEW s, NEW x, NEW r, Took(s, x, r), NEW u, u = [r EXCEPT !.ptr = @ \ {x}]
  PROVE  /\ x # "Clearing_Completed" => Completes(u)
         /\ Base(u) /\ Tempered(s, u) /\ Plain(r, u)
         /\ x # "t_read" => Reads(u)
         /\ x \notin Events \cup {"t_holdtime", "t_start"} => Timed(u)
<1>1. r \in PeerState
  BY Zenon DEF Took
<1>2. u \in PeerState
  BY <1>1, Zenon DEF PeerState
<1>3. /\ u.ptr = r.ptr \ {x} /\ Plain(r, u) /\ u.armed = r.armed /\ u.ready = r.ready
      /\ u.event = r.event /\ u.clearq = r.clearq
  BY <1>1, Zenon DEF PeerState, Plain
<1>4. On(u) = On(r) /\ Rd(u) = Rd(r) /\ Waits(u) = Waits(r)
  BY <1>3, Zenon DEF On, Rd, Ev, Waits
<1>5. Base(u)
  <2>1. Armed(u)
    BY <1>3, <1>4, Zenon DEF Took, Armed
  <2>2. Quiet(u)
    BY <1>3, <1>4, Zenon DEF Took, Quiet, Plain
  <2>3. Sweep(u)
    BY <1>3, Zenon DEF Took, Sweep, Plain
  <2>4. Queue(u)
    BY <1>3, <1>4 DEF Took, Queue
  <2> QED
    BY <1>2, <2>1, <2>2, <2>3, <2>4, Zenon DEF Base
<1>6. x # "Clearing_Completed" => Completes(u)
  BY <1>3, <1>4, Zenon DEF Took, Completes, Plain
<1>7. x # "t_read" => Reads(u)
  BY <1>3, <1>4, Zenon DEF Took, Reads, Plain
<1>8. x \notin Events \cup {"t_holdtime", "t_start"} => Timed(u)
  BY <1>3, <1>4, Zenon DEF Took, Timed, Plain, Suppressed
<1>9. Tempered(s, u)
  <2>1. Tame(r, u)
    BY <1>3, <1>4, Zenon DEF Tame, Plain, NoRoutes
  <2>2. Tempered(r, u)
    BY <1>3, <2>1, TemperedPlain, Zenon
  <2> QED
    BY <2>2, TemperedStep, Zenon DEF Took
<1> QED
  BY <1>3, <1>5, <1>6, <1>7, <1>8, <1>9

LEMMA TimerFit ==
  ASSUME Lists, NEW s, NEW x \in Timers, NEW r, Took(s, x, r), NEW io \in IO
  PROVE  Fit(s, TimerExpire(r, x, io))
<1> DEFINE u == [r EXCEPT !.ptr = @ \ {x}]
           t == TimerExpire(r, x, io)
<1>1. x \notin Events /\ x # "t_read" /\ x # "Clearing_Completed"
  BY Zenon DEF Timers, Events
<1>2. /\ Base(u) /\ Completes(u) /\ Tempered(s, u) /\ Plain(r, u) /\ Reads(u)
      /\ x \notin {"t_holdtime", "t_start"} => Timed(u)
  BY <1>1, ResetTook, Zenon
<1>3. t = CASE x = "t_start" -> bgp_event(u, "BGP_Start", io)
            [] x = "t_connect" -> bgp_event(u, "ConnectRetry_timer_expired", io)
            [] x = "t_holdtime" -> bgp_event(u, "Hold_Timer_expired", io)
            [] x = "t_keepalive" -> bgp_event(u, "KeepAlive_timer_expired", io)
            [] x = "t_routeadv" -> ThreadOn(u, {"t_write", "t_routeadv"})
            [] x = "t_gr_restart" -> bgp_graceful_restart_timer_expire(u)
            [] x = "t_gr_stale" -> IF u.nsf THEN bgp_clear_stale_route(u) ELSE u
            [] OTHER -> peer_clear(u, io)
  BY Zenon DEF TimerExpire
<1> HIDE DEF u
<1>4. ASSUME Local(t), Tempered(u, t)
      PROVE  Fit(s, t)
  BY <1>2, <1>4, TemperedFit, TemperedStep, Zenon
<1>5. ASSUME NEW e \in Events \ {"Receive_OPEN_message"}, t = bgp_event(u, e, io)
      PROVE  Fit(s, t)
  <2>1. Local(t) /\ Tempered(u, t)
    BY <1>2, <1>5, EventKeeps, Zenon
  <2> QED
    BY <1>4, <2>1, Zenon
<1> HIDE DEF t
<1>6. CASE x \in {"t_start", "t_connect", "t_holdtime", "t_keepalive"}
  <2>1. \/ t = bgp_event(u, "BGP_Start", io)
        \/ t = bgp_event(u, "ConnectRetry_timer_expired", io)
        \/ t = bgp_event(u, "Hold_Timer_expired", io)
        \/ t = bgp_event(u, "KeepAlive_timer_expired", io)
    BY <1>3, <1>6, Zenon
  <2>2. {"BGP_Start", "ConnectRetry_timer_expired", "Hold_Timer_expired", "KeepAlive_timer_expired"}
          \subseteq Events \ {"Receive_OPEN_message"}
    BY Zenon DEF Events
  <2> QED
    BY <1>5, <2>1, <2>2, Zenon DEF t
<1>7. CASE x = "t_routeadv"
  <2>1. t = ThreadOn(u, {"t_write", "t_routeadv"})
    BY <1>3, <1>7, Zenon
  <2>2. {"t_write", "t_routeadv"} \subseteq Threads
    BY Zenon DEF Threads, Timers
  <2>3. u.status # "Clearing"
    BY <1>2, <1>7, Zenon DEF Took, Sessional, SessionTimers, Plain
  <2>4. Base(t) /\ Tame(u, t) /\ Plain(u, t) /\ Reads(t) /\ Completes(t) /\ Timed(t)
    BY <1>2, <1>7, <2>1, <2>2, <2>3, OnKeeps, Zenon
  <2> QED
    BY <1>4, <2>4, TemperedPlain, Zenon DEF Local, t
<1>8. CASE x = "t_gr_restart"
  <2>1. t = bgp_graceful_restart_timer_expire(u)
    BY <1>3, <1>8, Zenon
  <2> QED
    BY <1>2, <1>4, <2>1, GrExpireKeeps, Zenon DEF t
<1>9. CASE x = "t_gr_stale"
  <2>1. t = bgp_clear_stale_route(u) \/ t = u
    BY <1>3, <1>9, Zenon
  <2>2. Local(u)
    BY <1>2, <1>9, Zenon DEF Local
  <2>3. CASE t = bgp_clear_stale_route(u)
    <3>1. Base(t) /\ Tempered(u, t) /\ Reads(t) /\ Completes(t) /\ Timed(t)
      BY <1>2, <1>9, <2>3, StaleKeeps, Zenon
    <3> QED
      BY <1>4, <3>1, Zenon DEF Local, t
  <2>4. CASE t = u
    BY <1>2, <2>2, <2>4, TemperedFit, Zenon DEF t
  <2> QED
    BY <2>1, <2>3, <2>4, Zenon
<1>10. CASE x = "t_pmax_restart"
  <2>1. t = peer_clear(u, io)
    BY <1>3, <1>10, Zenon
  <2>2. Local(u)
    BY <1>2, <1>10, Zenon DEF Local
  <2> QED
    BY <1>4, <2>1, <2>2, PeerClearKeeps, Zenon DEF t
<1> QED
  BY <1>6, <1>7, <1>8, <1>9, <1>10, Zenon DEF Timers

LEMMA EventFit ==
  ASSUME Lists, NEW s, NEW e \in Events, NEW r, Took(s, e, r), NEW io \in IO
  PROVE  Fit(s, bgp_event(r, e, io))
<1> DEFINE u == bgp_event(r, e, io)
<1>1. Base(r)
  <2>1. e \notin Sessional
    BY Kinds, Zenon
  <2>2. Armed(r)
    BY <2>1, Zenon DEF Took, Armed
  <2> QED
    BY <2>2, Zenon DEF Took, Base
<1>2. Reads(r) /\ (e # "Clearing_Completed" => Completes(r)) /\ Tempered(s, r)
  <2>1. e # "t_read"
    BY Zenon DEF Events
  <2> QED
    BY <2>1, Zenon DEF Took
<1>3. /\ Local(u) /\ (~r.accept => ~u.accept)
      /\ e # "Receive_OPEN_message" => Tempered(r, u)
  BY <1>1, <1>2, EventKeeps, Zenon
<1>4. Temp(s) => e # "Receive_OPEN_message"
  BY Zenon DEF Took, Temp
<1> HIDE DEF u
<1>5. e # "Receive_OPEN_message" => Fit(s, u)
  BY <1>2, <1>3, TemperedFit, TemperedStep, Zenon
<1>6. e = "Receive_OPEN_message" => Fit(s, u)
  BY <1>2, <1>3, <1>4, Zenon DEF Fit, Tempered
<1> QED
  BY <1>5, <1>6, Zenon DEF u

(***************************************************************************)
(* Reading and writing.                                                    *)
(***************************************************************************)

LEMMA ConnectCheckKeeps ==
  ASSUME Lists, NEW s, Base(s), Completes(s), s.status = "Connect", NEW io \in IO
  PROVE  LET t == bgp_connect_check(s, io) IN Local(t) /\ Tempered(s, t)
<1> DEFINE T == {"t_read", "t_write"}
           a == ThreadOff(s, T)
           e == CASE io = "nosock" -> "TCP_fatal_error"
                  [] io = "fail" -> "TCP_connection_open_failed"
                  [] OTHER -> "TCP_connection_open"
           t == EventAdd(a, e)
<1>1. t = bgp_connect_check(s, io)
  BY Zenon DEF bgp_connect_check
<1>2. T \subseteq Threads
  BY Zenon DEF Threads
<1>3. e \in Events \ {"Receive_OPEN_message"}
  BY Zenon DEF Events, IO
<1> HIDE DEF e, T
<1>4. Base(a) /\ Tame(s, a) /\ Plain(s, a) /\ Completes(a)
  BY <1>2, OffKeeps, Zenon
<1> HIDE DEF a
<1>5. Reads(a)
  BY <1>4, Zenon DEF Reads, Plain, NotifiableStatus
<1>6. Local(t) /\ Tempered(a, t)
  BY <1>3, <1>4, <1>5, AddLocal, Zenon
<1> QED
  BY <1>1, <1>4, <1>6, TemperedPlain, TemperedStep, Zenon

LEMMA WriteFit ==
  ASSUME Lists, NEW s, NEW r, Took(s, "t_write", r), NEW io \in IO
  PROVE  Fit(s, bgp_write(r, io))
<1> DEFINE u == [r EXCEPT !.ptr = @ \ {"t_write"}]
           t == bgp_write(r, io)
<1>1. "t_write" \notin Events
  BY Zenon DEF Events
<1>2. Base(u) /\ Completes(u) /\ Tempered(s, u) /\ Plain(r, u) /\ Reads(u) /\ Timed(u)
  BY <1>1, ResetTook, SMTT(60)
<1>3. \/ t = bgp_connect_check(u, io) /\ r.status = "Connect"
      \/ t = EventAdd(u, "TCP_fatal_error")
      \/ t = ThreadOn(u, {"t_write"})
      \/ t = u
  <2>1. t = CASE r.status = "Connect" -> bgp_connect_check(u, io)
              [] r.status # "Connect" /\ io = "fail" -> EventAdd(u, "TCP_fatal_error")
              [] r.status # "Connect" /\ io = "wait" -> ThreadOn(u, {"t_write"})
              [] OTHER -> u
    BY Zenon DEF bgp_write
  <2> HIDE DEF t, u
  <2>2. CASE r.status = "Connect"
    BY <2>1, <2>2, Zenon
  <2>3. CASE r.status # "Connect" /\ io = "fail"
    BY <2>1, <2>3, Zenon
  <2>4. CASE r.status # "Connect" /\ io = "wait"
    BY <2>1, <2>4, Zenon
  <2>5. CASE r.status # "Connect" /\ io # "fail" /\ io # "wait"
    BY <2>1, <2>5, Zenon
  <2> QED
    BY <2>2, <2>3, <2>4, <2>5, Zenon
<1> HIDE DEF u, t
<1>4. u.status # "Clearing" /\ u.status = r.status
  BY <1>2, Kinds, ZenonT(60) DEF Took, Plain
<1>5. Local(t) /\ Tempered(u, t)
  <2>1. CASE t = bgp_connect_check(u, io) /\ r.status = "Connect"
    BY <1>2, <1>4, <2>1, ConnectCheckKeeps, Zenon
  <2>2. CASE t = EventAdd(u, "TCP_fatal_error")
    <3>1. "TCP_fatal_error" \in Events /\ "TCP_fatal_error" # "Receive_OPEN_message"
      BY Zenon DEF Events
    <3> QED
      BY <1>2, <2>2, <3>1, AddLocal, Zenon
  <2>3. CASE t = ThreadOn(u, {"t_write"})
    <3>1. {"t_write"} \subseteq Threads
      BY Zenon DEF Threads
    <3>2. Base(t) /\ Tame(u, t) /\ Plain(u, t) /\ Reads(t) /\ Completes(t) /\ Timed(t)
      BY <1>2, <1>4, <2>3, <3>1, OnKeeps, Zenon
    <3> QED
      BY <3>2, TemperedPlain, Zenon DEF Local
  <2>4. CASE t = u
    BY <1>2, <2>4, Zenon DEF Local, Tempered, Tame
  <2> QED
    BY <1>3, <2>1, <2>2, <2>3, <2>4, Zenon
<1> QED
  BY <1>2, <1>5, TemperedFit, TemperedStep, Zenon DEF t

\* Deleting a peer makes it temporary whatever it has read, but for routes and
\* an OPEN.
LEMMA EndReadFit ==
  ASSUME Lists, NEW s, NEW t, Local(t), t.accept = s.accept, Temp(s) => Tempered(s, t)
  PROVE  Fit(s, EndRead(t))
<1>1. CASE ~t.accept
  <2>1. EndRead(t) = t
    BY <1>1, Zenon DEF EndRead
  <2>2. Temp(s) => Temp(t)
    BY Zenon DEF Temp, Tempered, Tame
  <2> QED
    BY <1>1, <2>1, <2>2, Zenon DEF Fit
<1>2. CASE t.accept
  <2>1. EndRead(t) = peer_delete(t)
    BY <1>2, Zenon DEF EndRead
  <2>2. Local(peer_delete(t)) /\ Tempered(t, peer_delete(t))
    BY <1>2, DeleteKeeps, Zenon DEF Local
  <2>3. Temp(s) => Temp(t)
    BY Zenon DEF Temp, Tempered, Tame
  <2>4. Temp(t) => Temp(peer_delete(t))
    BY <2>2, Zenon DEF Temp, Tempered, Tame
  <2> QED
    BY <1>2, <2>1, <2>2, <2>3, <2>4, Zenon DEF Fit
<1> QED
  BY <1>1, <1>2, Zenon

LEMMA ReadConnectingFit ==
  ASSUME Lists, NEW s, NEW r, Took(s, "t_read", r), NEW io \in IO,
         NEW u, u = [r EXCEPT !.ptr = @ \ {"t_read"}], u.status = "Connect" \/ ~u.fd
  PROVE  Fit(s, IF u.status = "Connect" THEN EndRead(bgp_connect_check(u, io)) ELSE u)
<1>1. "t_read" \notin Events
  BY Zenon DEF Events
<1>2. Base(u) /\ Completes(u) /\ Tempered(s, u) /\ Plain(r, u) /\ Timed(u)
  BY <1>1, ResetTook, SMTT(60)
<1>3. CASE u.status = "Connect"
  <2> DEFINE t == bgp_connect_check(u, io)
  <2>1. Local(t) /\ Tempered(u, t)
    BY <1>2, <1>3, ConnectCheckKeeps, Zenon
  <2>2. t.accept = u.accept
    <3>1. t.accept \in BOOLEAN /\ u.accept \in BOOLEAN
      BY <1>2, <2>1, Typed, Zenon DEF Local, Base
    <3>2. Plain(u, t)
      <4> DEFINE a == ThreadOff(u, {"t_read", "t_write"})
                 e == CASE io = "nosock" -> "TCP_fatal_error"
                        [] io = "fail" -> "TCP_connection_open_failed"
                        [] OTHER -> "TCP_connection_open"
      <4>1. t = EventAdd(a, e)
        BY Zenon DEF bgp_connect_check
      <4>2. {"t_read", "t_write"} \subseteq Threads
        BY Zenon DEF Threads
      <4>3. e \in Events
        BY Zenon DEF Events, IO
      <4> HIDE DEF e
      <4>4. a \in PeerState /\ Plain(u, a)
        BY <1>2, <4>2, OffFields, Zenon DEF Base
      <4> HIDE DEF a
      <4>5. Plain(a, t)
        BY <4>1, <4>3, <4>4, AddFields, Zenon
      <4> QED
        BY <4>4, <4>5, PlainStep, Zenon
    <3> QED
      BY <3>2, Zenon DEF Plain
  <2> HIDE DEF t
  <2>3. Fit(u, EndRead(t))
    BY <2>1, <2>2, EndReadFit, Zenon
  <2> QED
    BY <1>2, <1>3, <2>3, FitStep, Zenon DEF t
<1>4. CASE u.status # "Connect"
  <2>1. Reads(u)
    BY <1>2, <1>4, Zenon DEF Took, Reads, Plain
  <2> QED
    BY <1>2, <1>4, <2>1, TemperedFit, Zenon DEF Local
<1> QED
  BY <1>3, <1>4, Zenon

\* The peer whose message bgp_read takes from its connection.
LEMMA ReadingKeeps ==
  ASSUME NEW s, NEW r, Took(s, "t_read", r), s.fd,
         NEW u, u = ThreadOn([r EXCEPT !.ptr = @ \ {"t_read"}], {"t_read"})
  PROVE  Local(u) /\ Plain(s, u) /\ Tempered(s, u) /\ u.status # "Clearing"
<1> DEFINE a == [r EXCEPT !.ptr = @ \ {"t_read"}]
<1>1. "t_read" \notin Events /\ {"t_read"} \subseteq Threads
  BY Zenon DEF Events, Threads
<1>2. Base(a) /\ Completes(a) /\ Tempered(s, a) /\ Plain(r, a) /\ Timed(a)
  BY <1>1, ResetTook
<1>3. Plain(s, r)
  BY Zenon DEF Took
<1> HIDE DEF a
<1>4. Plain(s, a)
  BY <1>2, <1>3, PlainStep, Zenon
<1>5. a.status # "Clearing"
  BY <1>2, Kinds, Zenon DEF Took, Plain
<1>6. /\ Base(u) /\ Tame(a, u) /\ Plain(a, u) /\ Completes(u) /\ Timed(u)
      /\ a.status # "Deleted" => {"t_read"} \cap Sessional \subseteq On(u)
  BY <1>1, <1>2, <1>5, OnKeeps, Zenon DEF a
<1>7. Plain(s, u) /\ Tempered(s, u)
  BY <1>2, <1>4, <1>6, PlainStep, TemperedPlain, TemperedStep, Zenon
<1>8. Reads(u)
  <2>1. ASSUME u.status \in NotifiableStatus
        PROVE  u.fd /\ "t_read" \in On(u)
    <3>1. a.status # "Deleted"
      BY <1>6, <2>1, Zenon DEF Plain, NotifiableStatus
    <3> QED
      BY <1>6, <1>7, <3>1, Kinds, ZenonT(60) DEF Plain
  <2> QED
    BY <2>1, Zenon DEF Reads
<1> QED
  BY <1>5, <1>6, <1>7, <1>8, Zenon DEF Local, Plain

\* A route is announced or withdrawn.
LEMMA RibKeeps ==
  ASSUME NEW s, Base(s), NEW af \in AFs, NEW v \in {"none", "fresh"}
  PROVE  LET t == [s EXCEPT !.rib[af] = v]
         IN  /\ Base(t) /\ t.status = s.status /\ t.accept = s.accept
             /\ Reads(s) => Reads(t)
             /\ Completes(s) => Completes(t)
<1> DEFINE t == [s EXCEPT !.rib[af] = v]
<1>1. s \in PeerState /\ s.rib \in [AFs -> {"none", "fresh", "stale"}]
  BY Typed, Zenon DEF Base
<1> DEFINE q == [s.rib EXCEPT ![af] = v]
<1>2. q \in [AFs -> {"none", "fresh", "stale"}] /\ \A g \in AFs : q[g] = "stale" => s.rib[g] = "stale"
  BY <1>1, Zenon
<1>3. t = [s EXCEPT !.rib = q]
  BY Zenon
<1> HIDE DEF q, t
<1>4. t \in PeerState
  BY <1>1, <1>2, <1>3, ZenonT(60) DEF PeerState
<1>5. /\ t.status = s.status /\ t.accept = s.accept /\ t.fd = s.fd /\ t.nsf = s.nsf
      /\ t.clearq = s.clearq /\ t.ptr = s.ptr /\ t.armed = s.armed /\ t.event = s.event
      /\ t.ready = s.ready /\ t.rib = q
  BY <1>1, <1>3, Zenon DEF PeerState
<1>6. On(t) = On(s) /\ Rd(t) = Rd(s) /\ Waits(t) = Waits(s)
  BY <1>5, Zenon DEF On, Rd, Ev, Waits
<1>7. Armed(t) /\ Quiet(t)
  BY <1>5, <1>6, Zenon DEF Base, Armed, Quiet
<1>8. Sweep(t)
  BY <1>2, <1>5, Zenon DEF Base, Sweep
<1>9. Queue(t)
  BY <1>5, <1>6, Zenon DEF Base, Queue
<1>10. (Reads(s) => Reads(t)) /\ (Completes(s) => Completes(t))
  BY <1>5, <1>6, Zenon DEF Reads, Completes
<1>11. Base(t)
  BY <1>4, <1>7, <1>8, <1>9, Zenon DEF Base
<1> QED
  BY <1>5, <1>10, <1>11, Zenon DEF t

LEMMA OverflowKeeps ==
  ASSUME Lists, NEW s, Base(s), Reads(s), Completes(s), s.status # "Clearing", NEW io
  PROVE  LET t == PrefixOverflow(s, io)
         IN  Base(t) /\ Reads(t) /\ Completes(t) /\ t.status = s.status /\ t.accept = s.accept
<1> DEFINE a == [s EXCEPT !.overflow = TRUE]
           b == bgp_notify_send(a, io)
           T == IF PmaxRestart THEN {"t_pmax_restart"} ELSE {}
           t == ThreadOn(b, T)
<1>1. t = PrefixOverflow(s, io)
  BY Zenon DEF PrefixOverflow
<1>2. s \in PeerState
  BY Zenon DEF Base
<1>3. a \in PeerState
  BY <1>2, ZenonT(60) DEF PeerState
<1>4. /\ a.ptr = s.ptr /\ a.armed = s.armed /\ a.ready = s.ready /\ a.event = s.event
      /\ a.status = s.status /\ a.fd = s.fd /\ a.rib = s.rib /\ a.clearq = s.clearq
      /\ a.accept = s.accept /\ a.nsf = s.nsf
  BY <1>2, Zenon DEF PeerState
<1> HIDE DEF a
<1>5. Base(a) /\ Reads(a) /\ Completes(a)
  BY <1>3, <1>4, Alike, Zenon
<1>6. Base(b) /\ Plain(a, b) /\ Reads(b) /\ Completes(b)
  BY <1>5, NotifyKeeps, Zenon
<1> HIDE DEF b
<1>7. T \subseteq Threads
  BY Zenon DEF Threads, Timers
<1> HIDE DEF T
<1>8. b.status # "Clearing" /\ b.status = s.status /\ b.accept = s.accept
  BY <1>4, <1>6, Zenon DEF Plain
<1>9. Base(t) /\ Plain(b, t) /\ Reads(t) /\ Completes(t)
  BY <1>6, <1>7, <1>8, OnKeeps, Zenon
<1> HIDE DEF t
<1> QED
  BY <1>1, <1>8, <1>9, Zenon DEF Plain

LEMMA UpdateKeeps ==
  ASSUME Lists, NEW s, Local(s), s.status # "Clearing", NEW io,
         NEW m, m = "eor" \/ m \in {"reach", "overflow", "withdraw"} \X RouteAFs
  PROVE  LET t == bgp_update_receive(s, m, io)
         IN  Local(t) /\ t.accept = s.accept /\ (s.status # "Established" => Tempered(s, t))
<1> DEFINE a == CASE m = "eor" -> IF s.nsf THEN bgp_clear_stale_route(s) ELSE s
                  [] m # "eor" /\ m[1] = "withdraw" -> [s EXCEPT !.rib[m[2]] = "none"]
                  [] m # "eor" /\ m[1] = "overflow" -> PrefixOverflow([s EXCEPT !.rib[m[2]] = "fresh"], io)
                  [] OTHER -> [s EXCEPT !.rib[m[2]] = "fresh"]
           b == ThreadOff(a, {"t_holdtime"})
           t == bgp_update_receive(s, m, io)
<1>1. t = IF s.status # "Established" THEN bgp_notify_send(s, io) ELSE bgp_timer_set(b)
  BY Zenon DEF bgp_update_receive
<1>2. Base(s) /\ Reads(s) /\ Completes(s)
  BY Zenon DEF Local
<1> HIDE DEF t
<1>3. CASE s.status # "Established"
  <2>1. t = bgp_notify_send(s, io)
    BY <1>1, <1>3, Zenon
  <2>2. Base(t) /\ Plain(s, t) /\ Tame(s, t) /\ Reads(t) /\ Completes(t) /\ Timed(t)
    BY <1>2, <2>1, NotifyKeeps, ZenonT(60)
  <2> QED
    BY <2>2, TemperedPlain, Zenon DEF Local, Plain, t
<1>4. CASE s.status = "Established"
  <2>1. Base(a) /\ Reads(a) /\ Completes(a) /\ a.accept = s.accept
    <3>1. CASE m = "eor"
      <4>1. a = bgp_clear_stale_route(s) \/ a = s
        BY <3>1, Zenon
      <4> HIDE DEF a
      <4> QED
        BY <1>2, <4>1, StaleKeeps, Zenon
    <3>2. CASE m # "eor"
      <4>1. m[1] \in {"reach", "overflow", "withdraw"} /\ m[2] \in AFs
        BY <3>2, FsmAssumption, Zenon DEF AFs
      <4> DEFINE fresh == [s EXCEPT !.rib[m[2]] = "fresh"]
                 none == [s EXCEPT !.rib[m[2]] = "none"]
      <4>2. Base(fresh) /\ Reads(fresh) /\ Completes(fresh) /\ fresh.accept = s.accept /\ fresh.status = s.status
        BY <1>2, <4>1, RibKeeps, Zenon
      <4>3. Base(none) /\ Reads(none) /\ Completes(none) /\ none.accept = s.accept
        BY <1>2, <4>1, RibKeeps, Zenon
      <4>4. a = none \/ a = PrefixOverflow(fresh, io) \/ a = fresh
        <5>1. a = CASE m = "eor" -> IF s.nsf THEN bgp_clear_stale_route(s) ELSE s
                  [] m # "eor" /\ m[1] = "withdraw" -> none
                  [] m # "eor" /\ m[1] = "overflow" -> PrefixOverflow(fresh, io)
                  [] OTHER -> fresh
          BY Zenon
        <5> HIDE DEF a, fresh, none
        <5>2. CASE m[1] = "withdraw"
          BY <3>2, <5>1, <5>2, Zenon
        <5>3. CASE m[1] = "overflow"
          BY <3>2, <5>1, <5>3, Zenon
        <5>4. CASE m[1] = "reach"
          BY <3>2, <5>1, <5>4, Zenon
        <5> QED
          BY <4>1, <5>2, <5>3, <5>4, Zenon
      <4> HIDE DEF a, fresh, none
      <4>5. CASE a = PrefixOverflow(fresh, io)
        BY <4>2, <4>5, OverflowKeeps, Zenon
      <4> QED
        BY <4>2, <4>3, <4>4, <4>5, Zenon
    <3> QED
      BY <3>1, <3>2, Zenon
  <2> HIDE DEF a
  <2>2. {"t_holdtime"} \subseteq Threads /\ "t_read" \notin {"t_holdtime"}
    BY Zenon DEF Threads, Timers
  <2>3. Base(b) /\ Plain(a, b) /\ Reads(b) /\ Completes(b)
    BY <2>1, <2>2, OffKeeps, Zenon
  <2> HIDE DEF b
  <2>4. t = bgp_timer_set(b)
    BY <1>1, <1>4, Zenon
  <2>5. Base(t) /\ Plain(b, t) /\ Reads(t) /\ Completes(t) /\ Timed(t)
    BY <2>3, <2>4, TimerSetKeeps, Zenon
  <2> QED
    BY <1>4, <2>1, <2>3, <2>5, ZenonT(60) DEF Local, Plain, t
<1> QED
  BY <1>3, <1>4, Zenon

LEMMA LostKeeps ==
  ASSUME NEW s, Local(s), NEW e \in Events \ {"Receive_OPEN_message"}
  PROVE  LET t == LostSession(s, e) IN Local(t) /\ t.accept = s.accept /\ Tempered(s, t)
<1> DEFINE b == s.nsfWait \/ (s.status = "Established" /\ s.nsf)
           a == [s EXCEPT !.nsfWait = b]
           t == EventAdd(a, e)
<1>1. t = LostSession(s, e)
  BY Zenon DEF LostSession
<1>2. Base(s) /\ Reads(s) /\ Completes(s) /\ s \in PeerState
  BY Zenon DEF Local, Base
<1>3. b \in BOOLEAN
  BY <1>2, Typed, Zenon
<1> HIDE DEF b
<1>4. a \in PeerState
  BY <1>2, <1>3, ZenonT(60) DEF PeerState
<1>5. /\ a.ptr = s.ptr /\ a.armed = s.armed /\ a.ready = s.ready /\ a.event = s.event
      /\ a.status = s.status /\ a.fd = s.fd /\ a.rib = s.rib /\ a.clearq = s.clearq
      /\ a.accept = s.accept /\ a.nsf = s.nsf
  BY <1>2, Zenon DEF PeerState
<1> HIDE DEF a
<1>6. Base(a) /\ Reads(a) /\ Completes(a) /\ Tempered(s, a)
  BY <1>2, <1>4, <1>5, Alike, Zenon
<1>7. Local(t) /\ t.accept = a.accept /\ Tempered(a, t)
  BY <1>6, AddLocal, Zenon
<1> QED
  BY <1>1, <1>5, <1>6, <1>7, TemperedStep, Zenon

LEMMA ReceiveKeeps ==
  ASSUME Lists, NEW s, Local(s), s.status # "Clearing", NEW m \in Messages, NEW io
  PROVE  LET t == Receive(s, m, io)
         IN  Local(t) /\ t.accept = s.accept /\ (s.status # "Established" => Tempered(s, t))
<1> DEFINE t == Receive(s, m, io)
           Done == Local(t) /\ t.accept = s.accept /\ (s.status # "Established" => Tempered(s, t))
<1>1. t = CASE m = "part" -> s
            [] m = "error" -> LostSession(s, "TCP_fatal_error")
            [] m = "eof" -> LostSession(s, "TCP_connection_closed")
            [] m = "bad" -> bgp_notify_send(s, io)
            [] m = "notification" -> EventAdd(s, "Receive_NOTIFICATION_message")
            [] m = "keepalive" -> EventAdd(s, "Receive_KEEPALIVE_message")
            [] OTHER -> bgp_update_receive(s, m, io)
  BY Zenon DEF Receive
<1>2. Base(s) /\ Reads(s) /\ Completes(s)
  BY Zenon DEF Local
<1>3. /\ "TCP_fatal_error" \in Events \ {"Receive_OPEN_message"}
      /\ "TCP_connection_closed" \in Events \ {"Receive_OPEN_message"}
      /\ "Receive_NOTIFICATION_message" \in Events \ {"Receive_OPEN_message"}
      /\ "Receive_KEEPALIVE_message" \in Events \ {"Receive_OPEN_message"}
  BY Zenon DEF Events
<1> HIDE DEF t
<1>4. CASE m = "part"
  <2>1. t = s
    BY <1>1, <1>4, Zenon
  <2> QED
    BY <2>1, Zenon DEF Tempered, Tame, t
<1>5. CASE m = "error" \/ m = "eof"
  <2>1. t = LostSession(s, "TCP_fatal_error") \/ t = LostSession(s, "TCP_connection_closed")
    BY <1>1, <1>5, Zenon
  <2> QED
    BY <1>3, <2>1, LostKeeps, Zenon DEF t
<1>6. CASE m = "bad"
  <2>1. t = bgp_notify_send(s, io)
    BY <1>1, <1>6, Zenon
  <2>2. Base(t) /\ Plain(s, t) /\ Tame(s, t) /\ Reads(t) /\ Completes(t) /\ Timed(t)
    BY <1>2, <2>1, NotifyKeeps, Zenon
  <2> QED
    BY <2>2, TemperedPlain, Zenon DEF Local, Plain, t
<1>7. CASE m = "notification" \/ m = "keepalive"
  <2>1. t = EventAdd(s, "Receive_NOTIFICATION_message") \/ t = EventAdd(s, "Receive_KEEPALIVE_message")
    BY <1>1, <1>7, Zenon
  <2> QED
    BY <1>2, <1>3, <2>1, AddLocal, SMTT(60) DEF t
<1>8. CASE m \notin {"part", "error", "eof", "bad", "notification", "keepalive"}
  <2>1. t = bgp_update_receive(s, m, io)
    BY <1>1, <1>8, Zenon
  <2>2. m = "eor" \/ m \in {"reach", "overflow", "withdraw"} \X RouteAFs
    BY <1>8, Zenon DEF Messages
  <2> QED
    BY <2>1, <2>2, UpdateKeeps, SMTT(60) DEF t
<1> QED
  BY <1>4, <1>5, <1>6, <1>7, <1>8, Zenon

LEMMA OpenChecksKeeps ==
  ASSUME Lists, NEW s, Base(s), Reads(s), Completes(s), NEW o \in Opens, NEW io
  PROVE  LET t == OpenChecks(s, o, io) IN Local(t) /\ t.accept = s.accept
<1> DEFINE a == [s EXCEPT !.holdtime = o.holdtime, !.cap = o.cap]
           t == OpenChecks(s, o, io)
<1>1. o.fate \in {"good", "early", "late"} /\ o.holdtime \in BOOLEAN /\ o.cap \in Capability
  BY FsmAssumption, Zenon DEF Opens, Capability
<1>2. s \in PeerState
  BY Zenon DEF Base
<1>3. a \in PeerState
  BY <1>1, <1>2, Zenon DEF PeerState
<1>4. /\ a.ptr = s.ptr /\ a.armed = s.armed /\ a.ready = s.ready /\ a.event = s.event
      /\ a.status = s.status /\ a.fd = s.fd /\ a.rib = s.rib /\ a.clearq = s.clearq
      /\ a.accept = s.accept /\ a.nsf = s.nsf
  BY <1>2, Zenon DEF PeerState
<1>5. \/ t = bgp_notify_send(s, io)
      \/ t = bgp_notify_send(a, io)
      \/ t = EventAdd(a, "Receive_OPEN_message")
  <2>1. t = CASE o.fate = "early" -> bgp_notify_send(s, io)
              [] o.fate = "late" -> bgp_notify_send(a, io)
              [] OTHER -> EventAdd(a, "Receive_OPEN_message")
    BY Zenon DEF OpenChecks
  <2> HIDE DEF t, a
  <2> QED
    BY <1>1, <2>1, Zenon
<1> HIDE DEF a, t
<1>6. Base(a) /\ Reads(a) /\ Completes(a)
  BY <1>3, <1>4, Alike, Zenon
<1>7. CASE t = bgp_notify_send(s, io)
  BY <1>7, NotifyKeeps, SMTT(60) DEF Local, Plain, t
<1>8. CASE t = bgp_notify_send(a, io)
  BY <1>4, <1>6, <1>8, NotifyKeeps, SMTT(60) DEF Local, Plain, t
<1>9. CASE t = EventAdd(a, "Receive_OPEN_message")
  <2>1. "Receive_OPEN_message" \in Events
    BY Kinds, Zenon
  <2>2. Local(t) /\ t.accept = a.accept
    BY <1>6, <1>9, <2>1, AddLocal, Zenon
  <2> QED
    BY <1>4, <2>2, Zenon DEF t
<1> QED
  BY <1>5, <1>7, <1>8, <1>9, Zenon

\* The real peer takes an accepted connection over.
LEMMA TransferKeeps ==
  ASSUME Lists, NEW r, Base(r), NEW a \in PeerState, a.fd,
         a.status \notin {"Clearing", "Free"}
  PROVE  LET t == TransferAccept(r, a)
         IN  Base(t) /\ Reads(t) /\ Completes(t) /\ t.accept = r.accept
<1> DEFINE w == r.nsfWait \/ (r.status = "Established" /\ r.nsf)
           b == [r EXCEPT !.nsfWait = w]
           c == bgp_stop(b)
           d == [c EXCEPT !.fd = a.fd, !.status = a.status]
           T == {"t_read", "t_write"}
           t == ThreadOn(d, T)
<1>1. t = TransferAccept(r, a)
  BY Zenon DEF TransferAccept
<1>2. r \in PeerState /\ a.fd \in BOOLEAN /\ a.status \in Status
  BY Typed, Zenon DEF Base
<1>3. w \in BOOLEAN
  BY <1>2, Typed, Zenon
<1>4. b \in PeerState
  BY <1>2, <1>3, SMTT(60) DEF PeerState
<1>5. /\ b.ptr = r.ptr /\ b.armed = r.armed /\ b.ready = r.ready /\ b.event = r.event
      /\ b.status = r.status /\ b.fd = r.fd /\ b.rib = r.rib /\ b.clearq = r.clearq
      /\ b.accept = r.accept /\ b.nsf = r.nsf /\ b.nsfWait = w
  BY <1>2, Zenon DEF PeerState
<1> HIDE DEF b
<1>6. Base(b)
  BY <1>4, <1>5, Alike, Zenon
<1>7. b.status = "Established" /\ b.nsf => b.nsfWait
  BY <1>5, ZenonT(60)
<1> HIDE DEF w
<1>8. Base(c) /\ Stopped(b, c)
  BY <1>4, <1>6, <1>7, StopKeeps, StopFields
<1> HIDE DEF c
<1>9. c \in PeerState /\ Sweep(c) /\ Queue(c) /\ Sessional \cap (c.ptr \cup On(c)) = {}
  BY <1>8, Zenon DEF Base, Stopped
<1>10. d \in PeerState
  BY <1>2, <1>9, ZenonT(60) DEF PeerState
<1>11. /\ d.fd = a.fd /\ d.status = a.status /\ d.accept = c.accept /\ d.rib = c.rib
       /\ d.nsf = c.nsf /\ d.clearq = c.clearq /\ d.ptr = c.ptr /\ d.armed = c.armed
       /\ d.ready = c.ready
  BY <1>9, Zenon DEF PeerState
<1> HIDE DEF d
<1>12. Base(d)
  <2>1. On(d) = On(c) /\ Rd(d) = Rd(c)
    BY <1>11, Zenon DEF On, Rd
  <2>2. Armed(d) /\ Quiet(d)
    BY <1>9, <1>11, <2>1, ZenonT(60) DEF Armed, Quiet
  <2>3. Sweep(d) /\ Queue(d)
    BY <1>9, <1>11, <2>1, Zenon DEF Sweep, Queue
  <2> QED
    BY <1>10, <2>2, <2>3, Zenon DEF Base
<1>13. T \subseteq Threads /\ "t_read" \in T
  BY Zenon DEF Threads
<1> HIDE DEF T
<1>14. d.status # "Clearing"
  BY <1>11, Zenon
<1>15. /\ Base(t) /\ Plain(d, t)
       /\ d.status # "Deleted" => T \cap Sessional \subseteq On(t)
  BY <1>12, <1>13, <1>14, OnKeeps, Zenon
<1> HIDE DEF t
<1>16. Reads(t)
  <2>1. ASSUME t.status \in NotifiableStatus
        PROVE  t.fd /\ "t_read" \in On(t)
    <3>1. d.status # "Deleted"
      BY <1>15, <2>1, Zenon DEF Plain, NotifiableStatus
    <3> QED
      BY <1>11, <1>13, <1>15, <3>1, Kinds, Zenon DEF Plain
  <2> QED
    BY <2>1, Zenon DEF Reads
<1>17. Completes(t) /\ t.accept = r.accept
  BY <1>5, <1>8, <1>11, <1>14, <1>15, ZenonT(60) DEF Completes, Plain, Stopped
<1> QED
  BY <1>1, <1>15, <1>16, <1>17, Zenon

(***************************************************************************)
(* The clear queue.                                                        *)
(***************************************************************************)

LEMMA ClearQueueFit ==
  ASSUME Lists, NEW s, NEW r, Took(s, "clear_node_queue", r)
  PROVE  LET t == [bgp_clear_route_node(r, Head(r.clearq)) EXCEPT !.clearq = Tail(@)]
         IN  Fit(s, IF t.clearq = <<>> THEN peer_unlock(EventAdd(t, "Clearing_Completed")) ELSE t)
<1> DEFINE x == Head(r.clearq)
           v == IF r.nsfWait /\ r.nsf /\ r.rib[x] = "fresh" THEN "stale" ELSE "none"
           q == [r.rib EXCEPT ![x] = v]
           t == [bgp_clear_route_node(r, x) EXCEPT !.clearq = Tail(@)]
           u == IF t.clearq = <<>> THEN peer_unlock(EventAdd(t, "Clearing_Completed")) ELSE t
<1>1. r \in PeerState /\ r.clearq # <<>> /\ "clear_node_queue" \notin Rd(r)
  BY ZenonT(60) DEF Took
<1>2. r.clearq \in Seq(AFs) /\ r.rib \in [AFs -> {"none", "fresh", "stale"}]
  BY <1>1, Typed, Zenon
<1>3. x \in AFs /\ Tail(r.clearq) \in Seq(AFs) /\ Elems(r.clearq) = Elems(Tail(r.clearq)) \cup {x}
  BY <1>1, <1>2, ElemsTail, Zenon
<1>4. t = [r EXCEPT !.rib = q, !.clearq = Tail(r.clearq)]
  <2>1. bgp_clear_route_node(r, x) = [r EXCEPT !.rib = q]
    BY Zenon DEF bgp_clear_route_node
  <2>2. [r EXCEPT !.rib = q].clearq = r.clearq
    BY <1>1, Zenon DEF PeerState
  <2>3. t = [[r EXCEPT !.rib = q] EXCEPT !.clearq = Tail(r.clearq)]
    BY <2>1, <2>2, Zenon
  <2> HIDE DEF t, q
  <2> QED
    BY <1>1, <2>3, Zenon DEF PeerState
<1>5. /\ q \in [AFs -> {"none", "fresh", "stale"}]
      /\ q[x] = "stale" => r.nsf
      /\ \A g \in AFs \ {x} : q[g] = r.rib[g]
      /\ NoRoutes(r) => \A g \in AFs : q[g] = "none"
  BY <1>2, <1>3, Zenon DEF NoRoutes
<1> HIDE DEF x, q, t
<1>6. t \in PeerState
  BY <1>1, <1>3, <1>4, <1>5, Zenon DEF PeerState
<1>7. /\ t.accept = r.accept /\ t.status = r.status /\ t.fd = r.fd /\ t.shutdown = r.shutdown
      /\ t.overflow = r.overflow /\ t.nsf = r.nsf /\ t.holdtime = r.holdtime
      /\ t.ptr = r.ptr /\ t.armed = r.armed /\ t.event = r.event /\ t.ready = r.ready
      /\ t.rib = q /\ t.clearq = Tail(r.clearq)
  BY <1>1, <1>4, Zenon DEF PeerState
<1>8. On(t) = On(r) /\ Rd(t) = Rd(r) /\ Waits(t) = Waits(r)
  BY <1>7, Zenon DEF On, Rd, Ev, Waits
<1>9. Base(t)
  <2>1. Armed(t)
    <3>1. "clear_node_queue" \notin Sessional
      BY Zenon DEF Sessional, SessionTimers
    <3> QED
      BY <1>7, <1>8, <3>1, Zenon DEF Took, Armed
  <2>2. Quiet(t)
    BY <1>7, <1>8, ZenonT(60) DEF Took, Quiet
  <2>3. Sweep(t)
    <3> SUFFICES ASSUME NEW g \in AFs, t.rib[g] = "stale"
                 PROVE  t.nsf \/ g \in Elems(t.clearq)
      BY Zenon DEF Sweep
    <3>1. CASE g = x
      BY <1>5, <1>7, <3>1, Zenon
    <3>2. CASE g # x
      <4>1. r.rib[g] = "stale"
        BY <1>5, <1>7, <3>2, Zenon
      <4>2. r.nsf \/ g \in Elems(r.clearq)
        BY <4>1, Zenon DEF Took, Sweep
      <4> QED
        BY <1>3, <1>7, <3>2, <4>2, Zenon
    <3> QED
      BY <3>1, <3>2, Zenon
  <2>4. Queue(t)
    BY <1>1, <1>7, <1>8, ZenonT(60) DEF Took, Queue
  <2> QED
    BY <1>6, <2>1, <2>2, <2>3, <2>4, Zenon DEF Base
<1>10. Reads(t)
  BY <1>7, <1>8, Zenon DEF Took, Reads
<1>11. Tempered(s, t)
  <2>1. Tempered(r, t)
    BY <1>5, <1>7, <1>8, Zenon DEF Tempered, Tame, NoRoutes
  <2> QED
    BY <2>1, TemperedStep, ZenonT(60) DEF Took
<1>12. CASE t.clearq # <<>>
  <2>1. u = t
    BY <1>12, Zenon
  <2>2. Completes(t)
    BY <1>12, Zenon DEF Completes
  <2>3. Timed(t)
    <3>1. "clear_node_queue" \notin Events \cup {"t_holdtime", "t_start"}
      BY Zenon DEF Events
    <3>2. Timed(r)
      BY <3>1, Zenon DEF Took
    <3> QED
      BY <1>7, <1>8, <3>2, Zenon DEF Timed, Suppressed
  <2> QED
    BY <1>9, <1>10, <1>11, <2>1, <2>2, <2>3, TemperedFit, SMTT(60) DEF Local, t, x
<1>13. CASE t.clearq = <<>>
  <2> DEFINE w == EventAdd(t, "Clearing_Completed")
  <2>1. u = peer_unlock(w)
    BY <1>13, Zenon
  <2>2. /\ Base(w) /\ Plain(t, w) /\ Tame(t, w) /\ Timed(w) /\ Reads(w)
    BY <1>9, <1>10, Kinds, AddKeeps, Zenon
  <2>3. /\ w.clearq = <<>>
        /\ t.status # "Deleted" => "Clearing_Completed" \in Ev(w)
    BY <1>6, <1>13, Kinds, AddFields, SMTT(60)
  <2> HIDE DEF w
  <2>4. Completes(w)
    <3>1. ASSUME w.status = "Clearing"
          PROVE  "Clearing_Completed" \in Waits(w)
      BY <2>2, <2>3, <3>1, Zenon DEF Plain, Waits
    <3> QED
      BY <3>1, Zenon DEF Completes
  <2>5. Local(w) /\ Tempered(s, w)
    BY <1>11, <2>2, <2>4, TemperedPlain, TemperedStep, Zenon DEF Local
  <2>6. Local(peer_unlock(w)) /\ Tempered(w, peer_unlock(w))
    BY <2>5, UnlockKeeps, Zenon
  <2> HIDE DEF u
  <2>7. Fit(s, u)
    BY <2>1, <2>5, <2>6, TemperedFit, TemperedStep, Zenon
  <2> QED
    BY <2>7, Zenon DEF u, t, x
<1> QED
  BY <1>12, <1>13, Zenon

(***************************************************************************)
(* Peers that begin.                                                       *)
(***************************************************************************)

\* A peer structure with no threads and no routes.
LEMMA FreshBase ==
  ASSUME NEW s \in PeerState, s.ptr = {}, s.armed = {}, s.ready = <<>>, s.clearq = <<>>,
         s.status # "Clearing", s.rib = [af \in AFs |-> "none"],
         s.status = "Free" => ~s.fd /\ ~s.accept
  PROVE  Base(s) /\ NoRoutes(s) /\ Waits(s) = Elems(s.event)
<1>1. Armed(s) /\ Quiet(s)
  BY Zenon DEF Armed, Quiet
<1>2. Sweep(s) /\ NoRoutes(s)
  BY Zenon DEF Sweep, NoRoutes
<1>3. Rd(s) = {}
  BY ElemsEmpty, Zenon DEF Rd
<1>4. Queue(s)
  BY <1>3, SMTT(60) DEF Queue, Once
<1>5. Waits(s) = Elems(s.event)
  BY <1>3, Zenon DEF Waits, Ev
<1> QED
  BY <1>1, <1>2, <1>4, <1>5, Zenon DEF Base

LEMMA NoPeerFields ==
  /\ NoPeer \in PeerState /\ NoPeer.ptr = {} /\ NoPeer.armed = {} /\ NoPeer.ready = <<>>
  /\ NoPeer.clearq = <<>> /\ NoPeer.status = "Free" /\ NoPeer.accept = FALSE
  /\ NoPeer.event = <<>> /\ NoPeer.fd = FALSE /\ NoPeer.rib = [af \in AFs |-> "none"]
<1>1. /\ "Free" \in Status /\ "none" \in Capability /\ <<>> \in Seq(Events)
      /\ <<>> \in Seq(Events \cup Threads \cup Foreign) /\ <<>> \in Seq(AFs)
      /\ [af \in AFs |-> "none"] \in [AFs -> {"none", "fresh", "stale"}]
  BY SMTT(60) DEF Status, Capability
<1> QED
  BY <1>1, Zenon DEF NoPeer, PeerState

LEMMA NoPeerLocal ==
  Local(NoPeer) /\ Temp(NoPeer)
<1>1. Base(NoPeer) /\ NoRoutes(NoPeer) /\ Waits(NoPeer) = {}
  BY NoPeerFields, ElemsEmpty, FreshBase, Zenon
<1> QED
  BY <1>1, NoPeerFields, Zenon DEF Local, Reads, Completes, Timed, NotifiableStatus, Temp, Late

\* bgp_timer_set on a new peer.
LEMMA NewPeerLocal ==
  ASSUME Lists
  PROVE  Local(NewPeer) /\ ~NewPeer.accept
<1> DEFINE s == [NoPeer EXCEPT !.status = "Idle"]
<1>1. NoPeer \in PeerState /\ "Idle" \in Status
  BY NoPeerFields, Zenon DEF Status
<1>2. /\ s \in PeerState /\ s.ptr = {} /\ s.armed = {} /\ s.ready = <<>> /\ s.clearq = <<>>
      /\ s.status = "Idle" /\ s.accept = FALSE /\ s.rib = [af \in AFs |-> "none"]
  BY <1>1, NoPeerFields, Zenon DEF PeerState
<1> HIDE DEF s
<1>3. Base(s) /\ s.accept = FALSE /\ s.status = "Idle"
  BY <1>2, FreshBase, Zenon
<1>4. Reads(s) /\ Completes(s)
  BY <1>3, Zenon DEF Reads, Completes, NotifiableStatus
<1>5. /\ Base(bgp_timer_set(s)) /\ Reads(bgp_timer_set(s)) /\ Completes(bgp_timer_set(s))
      /\ Timed(bgp_timer_set(s)) /\ Plain(s, bgp_timer_set(s))
  BY <1>3, <1>4, TimerSetKeeps, Zenon
<1> QED
  BY <1>3, <1>5, Zenon DEF Local, Plain, NewPeer, s

\* A configured peer is created while a command runs.
LEMMA CreatedLocal ==
  ASSUME Lists, NEW rd \in Seq(Work), "clear_node_queue" \notin Elems(rd)
  PROVE  LET t == [NewPeer EXCEPT !.ready = rd] IN Local(t) /\ ~t.accept
<1> DEFINE t == [NewPeer EXCEPT !.ready = rd]
<1>1. Base(NewPeer) /\ NewPeer \in PeerState /\ ~NewPeer.accept
  BY NewPeerLocal, Zenon DEF Local, Base
<1>2. NewPeer.ready = <<>> /\ NewPeer.status = "Idle" /\ NewPeer.clearq = <<>>
  <2> DEFINE s == [NoPeer EXCEPT !.status = "Idle"]
             a == ThreadOff(s, UnwantedTimers(s))
  <2>1. s.status = "Idle" /\ s.ready = <<>> /\ s.clearq = <<>>
    BY Zenon DEF NoPeer
  <2>2. s \in PeerState
    <3>1. NoPeer \in PeerState /\ "Idle" \in Status
      BY NoPeerLocal, Zenon DEF Local, Base, Status
    <3> QED
      BY <3>1, StatusFields, Zenon
  <2> HIDE DEF s
  <2>3. UnwantedTimers(s) \subseteq Threads /\ WantedTimers(s) \subseteq Threads
    BY <2>2, TimerSets, Kinds, Zenon
  <2>4. a \in PeerState /\ Plain(s, a) /\ a.clearq = s.clearq /\ Rd(a) = Rd(s) \ UnwantedTimers(s)
    BY <2>2, <2>3, OffFields, SMTT(60)
  <2>5. a.ready \in Seq(Work) /\ Rd(a) = {}
    BY <2>1, <2>4, Typed, ElemsEmpty, SMTT(60) DEF Rd
  <2>6. a.ready = <<>>
    <3>1. Len(a.ready) \in Nat /\ DOMAIN a.ready = 1 .. Len(a.ready)
      BY <2>5, SMTT(60)
    <3> HIDE DEF a
    <3>2. DOMAIN a.ready = {}
      BY <2>5, Zenon DEF Rd, Elems
    <3>3. Len(a.ready) = 0
      <4>1. Len(a.ready) # 0 => 1 \in DOMAIN a.ready
        BY <3>1
      <4> QED
        BY <3>2, <4>1, Zenon
    <3> QED
      BY <2>5, <3>3, SMTT(60)
  <2> HIDE DEF a
  <2>7. NewPeer = ThreadOn(a, WantedTimers(s))
    BY Zenon DEF NewPeer, bgp_timer_set, s, a
  <2>8. /\ Plain(a, NewPeer) /\ NewPeer.clearq = a.clearq /\ NewPeer.ready = a.ready
    BY <2>3, <2>4, <2>7, OnFields
  <2> QED
    BY <2>1, <2>4, <2>6, <2>8, Zenon DEF Plain
<1>3. t \in PeerState
  BY <1>1, ZenonT(60) DEF PeerState, Work
<1>4. /\ Plain(NewPeer, t) /\ t.ptr = NewPeer.ptr /\ t.armed = NewPeer.armed
      /\ t.event = NewPeer.event /\ t.clearq = NewPeer.clearq /\ t.ready = rd
  BY <1>1, Zenon DEF PeerState, Plain
<1> HIDE DEF t
<1>5. Rd(NewPeer) = {} /\ On(NewPeer) \subseteq On(t) /\ Waits(NewPeer) \subseteq Waits(t)
  BY <1>2, <1>4, ElemsEmpty, Zenon DEF Rd, On, Ev, Waits
<1>6. Base(t)
  <2>1. Armed(t)
    BY <1>1, <1>4, <1>5, Zenon DEF Base, Armed
  <2>2. Quiet(t)
    BY <1>2, <1>4, Zenon DEF Quiet, Plain
  <2>3. Sweep(t)
    BY <1>1, <1>4, Zenon DEF Base, Sweep, Plain
  <2>4. Queue(t)
    BY <1>2, <1>4, Zenon DEF Queue, Rd, Once, Elems, Plain
  <2> QED
    BY <1>3, <2>1, <2>2, <2>3, <2>4, Zenon DEF Base
<1>7. Reads(t) /\ Completes(t)
  BY <1>2, <1>4, Zenon DEF Reads, Completes, Plain, NotifiableStatus
<1>8. Timed(t)
  BY <1>4, <1>5, NewPeerLocal, Zenon DEF Local, Timed, Plain, Suppressed
<1> QED
  BY <1>1, <1>4, <1>6, <1>7, <1>8, SMTT(60) DEF Local, Plain, t

\* bgp_accept makes a temporary peer.
LEMMA AcceptedLocal ==
  ASSUME NEW h \in BOOLEAN
  PROVE  LET t == [NoPeer EXCEPT !.accept = TRUE, !.status = "Active", !.fd = TRUE,
                                 !.holdtime = h, !.event = <<"TCP_connection_open">>]
         IN  Local(t) /\ Temp(t)
<1> DEFINE t == [NoPeer EXCEPT !.accept = TRUE, !.status = "Active", !.fd = TRUE,
                               !.holdtime = h, !.event = <<"TCP_connection_open">>]
           ev == <<"TCP_connection_open">>
<1>1. "Active" \in Status /\ "TCP_connection_open" \in Events
  BY Zenon DEF Status, Events
<1>2. ev \in Seq(Events) /\ Elems(ev) = {"TCP_connection_open"}
  BY <1>1 DEF Elems
<1> HIDE DEF ev
<1>3. /\ t \in PeerState /\ t.ptr = {} /\ t.armed = {} /\ t.ready = <<>> /\ t.clearq = <<>>
      /\ t.status = "Active" /\ t.accept = TRUE /\ t.rib = [af \in AFs |-> "none"]
      /\ t.event = ev
  BY <1>1, <1>2, NoPeerFields, ZenonT(60) DEF PeerState, ev
<1> HIDE DEF t
<1>4. Base(t) /\ NoRoutes(t) /\ Waits(t) = {"TCP_connection_open"}
  BY <1>2, <1>3, FreshBase, Zenon
<1>5. Local(t) /\ Temp(t)
  BY <1>3, <1>4, Zenon DEF Local, Reads, Completes, Timed, NotifiableStatus, Temp, Late
<1> QED
  BY <1>5, Zenon DEF t

(***************************************************************************)
(* thread_fetch.                                                           *)
(***************************************************************************)

\* The part of a batch that is one peer's.
LEMMA BatchElems ==
  ASSUME Lists, NEW b \in Batches, NEW p \in Peers
  PROVE  /\ BatchOf(p, b) \in Seq(Threads \cup Foreign)
         /\ \A x \in Elems(BatchOf(p, b)) :
              \/ x \in peer[p].armed
              \/ x \in {"accept", "command"}
              \/ x = "clear_node_queue" /\ peer[p].clearq # <<>>
         /\ Once(BatchOf(p, b), "clear_node_queue")
<1> DEFINE S == {p} \X (Threads \cup Foreign)
           mine == Filter(b, S)
           c == [i \in DOMAIN mine |-> mine[i][2]]
<1>1. PICK n \in 0 .. MaxBatch : b \in [1 .. n -> Due]
  BY Zenon DEF Batches
<1>2. n \in Nat
  BY FsmAssumption
<1>3. b \in Seq(Due)
  BY <1>1, <1>2
<1>4. \A v : Once(b, v)
  <2>1. DOMAIN b = 1 .. n
    BY <1>1, Zenon
  <2>2. \A i, j \in 1 .. n : i < j => b[i] # b[j]
    BY <2>1, Zenon DEF Batches
  <2>3. \A i, j \in 1 .. n : b[i] = b[j] => i = j
    BY <1>2, <2>2, SMTT(60)
  <2> QED
    BY <2>1, <2>3, Zenon DEF Once
<1>5. mine \in Seq(Due) /\ Elems(mine) = Elems(b) \cap S /\ \A v : Once(mine, v)
  BY <1>3, <1>4, FilterElems, Zenon
<1>6. BatchOf(p, b) = c
  BY Zenon DEF BatchOf
<1> HIDE DEF mine
<1>7. \A i \in DOMAIN mine : mine[i] \in S /\ mine[i] \in Due
  <2>1. \A i \in DOMAIN mine : mine[i] \in Elems(mine)
    BY Zenon DEF Elems
  <2>2. Elems(b) \subseteq Due
    BY <1>1, Zenon DEF Elems
  <2> QED
    BY <1>5, <2>1, <2>2, Zenon
<1>8. \A i \in DOMAIN mine : /\ mine[i] = <<p, c[i]>> /\ c[i] \in Threads \cup Foreign
                             /\ mine[i][1] = p /\ mine[i][2] = c[i]
  BY <1>7, SMTT(60)
<1>9. c \in Seq(Threads \cup Foreign)
  <2>1. Len(mine) \in Nat /\ DOMAIN mine = 1 .. Len(mine)
    BY <1>5, SMTT(60)
  <2> QED
    BY <1>8, <2>1, SMTT(60)
<1>10. \A x \in Elems(c) :
          \/ x \in peer[p].armed
          \/ x \in {"accept", "command"}
          \/ x = "clear_node_queue" /\ peer[p].clearq # <<>>
  <2>1. SUFFICES ASSUME NEW i \in DOMAIN mine
                 PROVE  \/ c[i] \in peer[p].armed
                        \/ c[i] \in {"accept", "command"}
                        \/ c[i] = "clear_node_queue" /\ peer[p].clearq # <<>>
    BY Zenon DEF Elems
  <2>2. mine[i] \in Due /\ mine[i][1] = p /\ mine[i][2] = c[i]
    BY <1>7, <1>8, Zenon
  <2> HIDE DEF c, S
  <2> QED
    BY <2>2, Zenon DEF Due
<1>11. Once(c, "clear_node_queue")
  <2>1. SUFFICES ASSUME NEW i \in DOMAIN mine, NEW j \in DOMAIN mine,
                        c[i] = "clear_node_queue", c[j] = "clear_node_queue"
                 PROVE  i = j
    BY Zenon DEF Once
  <2>2. mine[i] = <<p, "clear_node_queue">> /\ mine[j] = <<p, "clear_node_queue">>
    BY <1>8, <2>1, Zenon
  <2>3. Once(mine, <<p, "clear_node_queue">>)
    BY <1>5, Zenon
  <2> QED
    BY <2>2, <2>3, Zenon DEF Once
<1> QED
  BY <1>6, <1>9, <1>10, <1>11, Zenon

\* What thread_fetch does to a peer.
LEMMA FetchFit ==
  ASSUME NEW s, Local(s), s.ready = <<>>, NEW b \in Seq(Threads \cup Foreign),
         \A x \in Elems(b) : \/ x \in s.armed
                             \/ x \in {"accept", "command"}
                             \/ x = "clear_node_queue" /\ s.clearq # <<>>,
         Once(b, "clear_node_queue")
  PROVE  Fit(s, Fetched(s, b))
<1> DEFINE t == Fetched(s, b)
<1>1. s \in PeerState /\ s.event \in Seq(Events) /\ s.armed \subseteq Threads /\ Ev(s) \subseteq Events
  BY Typed, ZenonT(60) DEF Local, Base
<1>2. b \in Seq(Work) /\ s.event \in Seq(Work) /\ <<>> \in Seq(Events)
  BY <1>1, SMTT(60) DEF Work
<1>3. /\ s.event \o b \in Seq(Work) /\ Elems(s.event \o b) = Ev(s) \cup Elems(b)
      /\ "clear_node_queue" \notin Ev(s) => Once(s.event \o b, "clear_node_queue")
  BY <1>2, ElemsConcat, Zenon DEF Ev
<1>4. Elems(b) \subseteq Threads \cup Foreign
  BY SMTT(60) DEF Elems
<1>5. /\ t \in PeerState /\ Plain(s, t) /\ t.ptr = s.ptr /\ t.clearq = s.clearq
      /\ t.ready = s.event \o b /\ t.event = <<>> /\ t.armed = s.armed \ Elems(b)
  BY <1>1, <1>2, <1>3, ZenonT(60) DEF Fetched, PeerState, Plain, Work, Elems
<1> HIDE DEF t
<1>6. Ev(t) = {} /\ Rd(t) = Ev(s) \cup Elems(b) /\ Rd(s) = {}
  BY <1>3, <1>5, ElemsEmpty, Zenon DEF Ev, Rd
<1>7. /\ On(t) = s.armed \cup Ev(s) \cup Elems(b) /\ On(s) = s.armed
      /\ Waits(t) = Ev(s) \cup Elems(b) /\ Waits(s) = Ev(s)
  BY <1>5, <1>6, Zenon DEF On, Waits
<1>8. Base(t)
  <2>1. Armed(t)
    BY <1>5, <1>7, ZenonT(60) DEF Local, Base, Armed
  <2>2. Elems(b) \cap Sessional \subseteq s.armed /\ Ev(s) \cap Sessional = {}
    <3>1. {"accept", "command", "clear_node_queue"} \cap Sessional = {}
      BY Zenon DEF Sessional, SessionTimers
    <3> QED
      BY <1>1, <3>1, Kinds, Zenon
  <2>3. Quiet(t)
    <3>1. Quiet(s) /\ t.status = s.status /\ t.fd = s.fd
      BY <1>5, Zenon DEF Local, Base, Plain
    <3>2. Sessional \cap On(t) \subseteq Sessional \cap On(s)
      BY <1>7, <2>2, Zenon
    <3> QED
      BY <3>1, <3>2, Zenon DEF Quiet
  <2>4. Sweep(t)
    BY <1>5, Zenon DEF Local, Base, Sweep, Plain
  <2>5. "clear_node_queue" \notin Ev(s) /\ "clear_node_queue" \notin s.armed
    BY <1>1, Kinds, Zenon
  <2>6. Queue(t)
    BY <1>3, <1>5, <1>6, <2>5, ZenonT(60) DEF Queue, Plain, Local, Base
  <2> QED
    BY <1>5, <2>1, <2>3, <2>4, <2>6, ZenonT(60) DEF Base
<1>9. On(s) \subseteq On(t) /\ Waits(s) \subseteq Waits(t)
  BY <1>7, Zenon
<1>10. Local(t)
  <2>1. Reads(t)
    BY <1>5, <1>9, ZenonT(60) DEF Local, Reads, Plain
  <2>2. Completes(t)
    BY <1>5, <1>9, ZenonT(60) DEF Local, Completes, Plain
  <2>3. Timed(t)
    BY <1>5, <1>9, ZenonT(60) DEF Local, Timed, Plain, Suppressed
  <2> QED
    BY <1>8, <2>1, <2>2, <2>3, Zenon DEF Local
<1>11. "Receive_OPEN_message" \in Waits(t) => "Receive_OPEN_message" \in Waits(s)
  <2>1. "Receive_OPEN_message" \notin Threads \cup Foreign
    BY Kinds, Zenon
  <2> QED
    BY <1>4, <1>7, <2>1, ZenonT(60)
<1>12. Temp(s) => Temp(t)
  BY <1>5, <1>11, SMTT(60) DEF Temp, Plain, NoRoutes
<1> QED
  BY <1>5, <1>10, <1>12, ZenonT(60) DEF Fit, Plain, t

(***************************************************************************)
(* The steps.                                                              *)
(***************************************************************************)

\* What holds of peer p.
OK(p, u) ==
  /\ Local(u)
  /\ p = Real => ~u.accept
  /\ p \in Accept => Temp(u)

Good(f) == f \in [Peers -> PeerState] /\ \A p \in Peers : OK(p, f[p])

LEMMA InvIsGood == Inv <=> Good(peer)
BY Zenon DEF Inv, Good, OK, TypeOK, Peers

LEMMA PutGood ==
  ASSUME NEW f, Good(f), NEW p \in Peers, NEW u, OK(p, u)
  PROVE  Good([f EXCEPT ![p] = u])
BY Zenon DEF Good, OK, Local, Base

LEMMA FitOK ==
  ASSUME NEW p \in Peers, NEW s, OK(p, s), NEW u, Fit(s, u)
  PROVE  OK(p, u)
BY Zenon DEF OK, Fit

\* One peer takes a step of its own.
LEMMA FitGood ==
  ASSUME Good(peer), NEW p \in Peers, NEW u, Fit(peer[p], u), peer' = [peer EXCEPT ![p] = u]
  PROVE  Good(peer')
<1>1. OK(p, u)
  BY FitOK, Zenon DEF Good
<1> QED
  BY <1>1, PutGood, Zenon

\* The thread that runs.
LEMMA RunningIs ==
  ASSUME Good(peer), NEW p \in Peers, NEW X, Ready(p, X)
  PROVE  LET s == peer[p] IN
         /\ Local(s) /\ OK(p, s) /\ Head(s.ready) \in X /\ Took(s, Head(s.ready), Running(p))
<1>1. Local(peer[p]) /\ OK(p, peer[p]) /\ peer[p].ready # <<>>
  BY Zenon DEF Good, OK, Ready
<1>2. Took(peer[p], Head(peer[p].ready), Running(p))
  BY <1>1, RunningTook, Zenon DEF Running
<1> QED
  BY <1>1, <1>2, Zenon DEF Ready

LEMMA ReadingIs ==
  ASSUME Good(peer), NEW p \in Peers, ReadsMessage(p)
  PROVE  /\ Local(Reading(p)) /\ Plain(peer[p], Reading(p)) /\ Tempered(peer[p], Reading(p))
         /\ Reading(p).status # "Clearing" /\ OK(p, peer[p]) /\ peer[p].fd
<1>1. Ready(p, {"t_read"}) /\ peer[p].fd
  BY Zenon DEF ReadsMessage
<1>2. Took(peer[p], "t_read", Running(p)) /\ OK(p, peer[p])
  BY <1>1, RunningIs, SMTT(60)
<1> QED
  BY <1>1, <1>2, ReadingKeeps, Zenon DEF Reading


LEMMA FetchGood ==
  ASSUME Lists, Good(peer), thread_fetch
  PROVE  Good(peer')
<1>1. PICK b \in Batches : peer' = [p \in Peers |-> Fetched(peer[p], BatchOf(p, b))]
  BY Zenon DEF thread_fetch
<1>2. ASSUME NEW p \in Peers
      PROVE  OK(p, Fetched(peer[p], BatchOf(p, b)))
  <2>1. OK(p, peer[p]) /\ Local(peer[p]) /\ peer[p].ready = <<>>
    BY Zenon DEF Good, OK, thread_fetch
  <2>2. Fit(peer[p], Fetched(peer[p], BatchOf(p, b)))
    BY <2>1, BatchElems, FetchFit, ZenonT(60)
  <2> QED
    BY <2>1, <2>2, FitOK, Zenon
<1> QED
  BY <1>1, <1>2, Zenon DEF Good, OK, Local, Base

\* The handlers that run for one peer and change no other.
LEMMA AloneGood ==
  ASSUME Lists, Good(peer), NEW p \in Peers,
         \/ RunEvent(p) \/ RunTimer(p) \/ RunWrite(p) \/ RunReadConnecting(p)
         \/ RunClearQueue(p)
  PROVE  Good(peer')
<1>1. CASE RunEvent(p)
  <2>1. Ready(p, Events)
    BY <1>1, Zenon DEF RunEvent
  <2>2. PICK io \in IO : peer' = [peer EXCEPT ![p] = bgp_event(Running(p), Head(peer[p].ready), io)]
    BY <1>1, ZenonT(60) DEF RunEvent
  <2>3. Head(peer[p].ready) \in Events /\ Took(peer[p], Head(peer[p].ready), Running(p))
    BY <2>1, RunningIs, Zenon
  <2>4. Fit(peer[p], bgp_event(Running(p), Head(peer[p].ready), io))
    BY <2>3, EventFit
  <2> QED
    BY <2>2, <2>4, FitGood, Zenon
<1>2. CASE RunTimer(p)
  <2>1. Ready(p, Timers)
    BY <1>2, Zenon DEF RunTimer
  <2>2. PICK io \in IO : peer' = [peer EXCEPT ![p] = TimerExpire(Running(p), Head(peer[p].ready), io)]
    BY <1>2, Zenon DEF RunTimer
  <2>3. Head(peer[p].ready) \in Timers /\ Took(peer[p], Head(peer[p].ready), Running(p))
    BY <2>1, RunningIs, Zenon
  <2>4. Fit(peer[p], TimerExpire(Running(p), Head(peer[p].ready), io))
    BY <2>3, TimerFit, Zenon
  <2> QED
    BY <2>2, <2>4, FitGood, Zenon
<1>3. CASE RunWrite(p)
  <2>1. Ready(p, {"t_write"})
    BY <1>3, Zenon DEF RunWrite
  <2>2. PICK io \in IO : peer' = [peer EXCEPT ![p] = bgp_write(Running(p), io)]
    BY <1>3, Zenon DEF RunWrite
  <2>3. Took(peer[p], "t_write", Running(p))
    BY <2>1, RunningIs
  <2>4. Fit(peer[p], bgp_write(Running(p), io))
    BY <2>3, WriteFit, Zenon
  <2> QED
    BY <2>2, <2>4, FitGood, Zenon
<1>4. CASE RunReadConnecting(p)
  <2> DEFINE u == [Running(p) EXCEPT !.ptr = @ \ {"t_read"}]
  <2>1. Ready(p, {"t_read"}) /\ (u.status = "Connect" \/ ~u.fd)
    BY <1>4, Zenon DEF RunReadConnecting
  <2>2. PICK io \in IO :
          peer' = [peer EXCEPT ![p] =
                     IF u.status = "Connect" THEN EndRead(bgp_connect_check(u, io)) ELSE u]
    BY <1>4, Zenon DEF RunReadConnecting
  <2>3. Took(peer[p], "t_read", Running(p))
    BY <2>1, RunningIs
  <2>4. Fit(peer[p], IF u.status = "Connect" THEN EndRead(bgp_connect_check(u, io)) ELSE u)
    BY <2>1, <2>3, ReadConnectingFit, Zenon
  <2> HIDE DEF u
  <2> QED
    BY <2>2, <2>4, FitGood, Zenon
<1>5. CASE RunClearQueue(p)
  <2> DEFINE r == Running(p)
             t == [bgp_clear_route_node(r, Head(r.clearq)) EXCEPT !.clearq = Tail(@)]
             u == IF t.clearq = <<>> THEN peer_unlock(EventAdd(t, "Clearing_Completed")) ELSE t
  <2>1. Ready(p, {"clear_node_queue"}) /\ peer' = [peer EXCEPT ![p] = u]
    BY <1>5, Zenon DEF RunClearQueue
  <2>2. Took(peer[p], "clear_node_queue", r)
    BY <2>1, RunningIs
  <2>3. Fit(peer[p], u)
    BY <2>2, ClearQueueFit, Zenon
  <2> HIDE DEF u
  <2> QED
    BY <2>1, <2>3, FitGood, Zenon
<1> QED
  BY <1>1, <1>2, <1>3, <1>4, <1>5, Zenon

\* bgp_notify_send keeps what holds of a peer.
LEMMA NotifyFit ==
  ASSUME Lists, NEW s, Local(s), NEW io
  PROVE  /\ Local(bgp_notify_send(s, io)) /\ bgp_notify_send(s, io).accept = s.accept
         /\ Tempered(s, bgp_notify_send(s, io))
<1> DEFINE t == bgp_notify_send(s, io)
<1>1. Base(s) /\ Reads(s) /\ Completes(s)
  BY Zenon DEF Local
<1>2. /\ Base(t) /\ Plain(s, t) /\ Tame(s, t) /\ Reads(t) /\ Completes(t) /\ Timed(t)
  BY <1>1, NotifyKeeps, Zenon
<1> HIDE DEF t
<1>3. Local(t) /\ t.accept = s.accept /\ Tempered(s, t)
  BY <1>2, Zenon DEF Local, Tempered, Plain
<1> QED
  BY <1>3, Zenon DEF t

\* The messages other than an OPEN, and an OPEN that is turned down.
LEMMA MessageGood ==
  ASSUME Lists, Good(peer), NEW p \in Peers, RunReadMessage(p) \/ RunReadOpenRefused(p)
  PROVE  Good(peer')
<1> DEFINE s == peer[p]
           r == Reading(p)
<1>1. ReadsMessage(p)
  BY Zenon DEF RunReadMessage, RunReadOpenRefused
<1>2. /\ Local(r) /\ Plain(s, r) /\ Tempered(s, r) /\ r.status # "Clearing" /\ OK(p, s)
  BY <1>1, ReadingIs, Zenon
<1>3. CASE RunReadMessage(p)
  <2>1. PICK m \in Messages, io \in IO : peer' = [peer EXCEPT ![p] = EndRead(Receive(r, m, io))]
    BY <1>3, ZenonT(60) DEF RunReadMessage
  <2> DEFINE t == Receive(r, m, io)
  <2>2. Local(t) /\ t.accept = r.accept /\ (r.status # "Established" => Tempered(r, t))
    BY <1>2, ReceiveKeeps, Zenon
  <2> HIDE DEF t, r, s
  <2>3. Temp(s) => Tempered(s, t)
    BY <1>2, <2>2, TemperedStep, Zenon DEF Temp, Late, Plain
  <2>4. Fit(s, EndRead(t))
    BY <1>2, <2>2, <2>3, EndReadFit, Zenon DEF Plain
  <2> QED
    BY <2>1, <2>4, FitGood, Zenon DEF s, t
<1>4. CASE RunReadOpenRefused(p)
  <2>1. PICK io \in IO : peer' = [peer EXCEPT ![p] = EndRead(bgp_notify_send(r, io))]
    BY <1>4, Zenon DEF RunReadOpenRefused
  <2> DEFINE t == bgp_notify_send(r, io)
  <2>2. Local(t) /\ t.accept = r.accept /\ Tempered(r, t)
    BY <1>2, NotifyFit, Zenon
  <2> HIDE DEF t, r, s
  <2>3. Tempered(s, t)
    BY <1>2, <2>2, TemperedStep, Zenon
  <2>4. Fit(s, EndRead(t))
    BY <1>2, <2>2, <2>3, EndReadFit, Zenon DEF Plain
  <2> QED
    BY <2>1, <2>4, FitGood, Zenon DEF s, t
<1> QED
  BY <1>3, <1>4, Zenon


\* bgp_collision_detect leaves the connections as they were but for one that it
\* has sent a NOTIFICATION on.
LEMMA CollisionGood ==
  ASSUME Lists, Good(peer), NEW p \in Peers, NEW io, NEW after \in AfterCollision(p, io)
  PROVE  Good(after)
<1>1. CASE after = peer
  BY <1>1, Zenon
<1>2. CASE after # peer
  <2>1. PICK q \in Colliding(p) : after = [peer EXCEPT ![q] = bgp_notify_send(peer[q], io)]
    BY <1>2, Zenon DEF AfterCollision
  <2>2. q \in Peers
    BY Zenon DEF Colliding
  <2>3. OK(q, peer[q]) /\ Local(peer[q])
    BY <2>2, Zenon DEF Good, OK
  <2>4. Fit(peer[q], bgp_notify_send(peer[q], io))
    BY <2>3, NotifyFit, TemperedFit, Zenon
  <2>5. OK(q, bgp_notify_send(peer[q], io))
    BY <2>2, <2>3, <2>4, FitOK, Zenon
  <2> QED
    BY <2>1, <2>2, <2>5, PutGood, Zenon
<1> QED
  BY <1>1, <1>2, Zenon

LEMMA OpenGood ==
  ASSUME Lists, Good(peer), RunReadOpen
  PROVE  Good(peer')
<1>1. Real \in Peers /\ Real \notin Accept
  BY FsmAssumption, Zenon DEF Peers
<1>o. PICK o \in Opens, io \in IO : \E after \in AfterCollision(Real, io) :
        peer' = [after EXCEPT ![Real] = OpenChecks(Reading(Real), o, io)]
  BY Zenon DEF RunReadOpen
<1>2. PICK after \in AfterCollision(Real, io) :
        peer' = [after EXCEPT ![Real] = OpenChecks(Reading(Real), o, io)]
  BY <1>o, Zenon
<1>3. /\ Local(Reading(Real)) /\ Plain(peer[Real], Reading(Real)) /\ OK(Real, peer[Real])
  BY <1>1, ReadingIs, Zenon DEF RunReadOpen
<1>4. /\ Local(OpenChecks(Reading(Real), o, io))
      /\ OpenChecks(Reading(Real), o, io).accept = Reading(Real).accept
  BY <1>3, OpenChecksKeeps, Zenon DEF Local
<1>5. OK(Real, OpenChecks(Reading(Real), o, io))
  BY <1>1, <1>3, <1>4, Zenon DEF OK, Plain
<1>6. Good(after)
  BY <1>1, CollisionGood, Zenon
<1> QED
  BY <1>1, <1>2, <1>5, <1>6, PutGood, Zenon

\* The end of bgp_read for the temporary peer whose connection was taken over.
LEMMA EmptiedFit ==
  ASSUME Lists, NEW s, Temp(s), NEW t, Base(t), Tempered(s, t)
  PROVE  Fit(s, EndRead(t))
<1>1. CASE t.accept
  <2>1. Local(peer_delete(t)) /\ Tempered(t, peer_delete(t))
    BY <1>1, DeleteKeeps, Zenon
  <2>2. Tempered(s, peer_delete(t))
    BY <2>1, TemperedStep, Zenon
  <2> QED
    BY <1>1, <2>1, <2>2, TemperedFit, Zenon DEF EndRead
<1>2. CASE ~t.accept
  <2>1. t.status = "Free"
    BY <1>2, Zenon DEF Temp, Tempered
  <2>2. Local(t)
    BY <2>1, Zenon DEF Local, Reads, Completes, Timed, NotifiableStatus
  <2> QED
    BY <1>2, <2>2, TemperedFit, Zenon DEF EndRead
<1> QED
  BY <1>1, <1>2, Zenon

LEMMA TransferGood ==
  ASSUME Lists, Good(peer), NEW p \in Peers, RunReadOpenTransfer(p)
  PROVE  Good(peer')
<1> DEFINE a == Reading(p)
<1>1. Real \in Peers /\ Real \notin Accept /\ p \in Accept
  BY FsmAssumption, Zenon DEF Peers, RunReadOpenTransfer
<1>o. PICK o \in Opens, io \in IO : \E after \in AfterCollision(p, io) :
        peer' = [after EXCEPT ![Real] = OpenChecks(TransferAccept(@, a), o, io),
                              ![p] = EndRead(bgp_stop(a))]
  BY Zenon DEF RunReadOpenTransfer
<1>2. PICK after \in AfterCollision(p, io) :
        peer' = [after EXCEPT ![Real] = OpenChecks(TransferAccept(@, a), o, io),
                              ![p] = EndRead(bgp_stop(a))]
  BY <1>o, Zenon
<1>3. /\ Local(a) /\ Plain(peer[p], a) /\ Tempered(peer[p], a) /\ OK(p, peer[p])
      /\ peer[p].fd /\ a.status # "Clearing"
  BY ReadingIs, Zenon DEF RunReadOpenTransfer
<1>4. Good(after)
  BY CollisionGood, Zenon
<1> DEFINE r == after[Real]
           w == OpenChecks(TransferAccept(r, a), o, io)
           z == EndRead(bgp_stop(a))
<1>5. peer' = [[after EXCEPT ![Real] = w] EXCEPT ![p] = z]
  BY <1>2, Zenon
<1> HIDE DEF a
<1>6. Temp(peer[p]) /\ a \in PeerState /\ a.fd /\ Base(a) /\ a.status \notin {"Established", "Free"}
  BY <1>1, <1>3, ZenonT(60) DEF OK, Plain, Local, Base, Queue, Temp, Late
<1>7. OK(Real, w)
  <2>1. Base(r) /\ ~r.accept
    BY <1>1, <1>4, Zenon DEF Good, OK, Local
  <2> HIDE DEF r
  <2>2. /\ Base(TransferAccept(r, a)) /\ Reads(TransferAccept(r, a))
        /\ Completes(TransferAccept(r, a)) /\ TransferAccept(r, a).accept = r.accept
    BY <1>3, <1>6, <2>1, TransferKeeps, Zenon
  <2>3. Local(w) /\ w.accept = TransferAccept(r, a).accept
    BY <2>2, OpenChecksKeeps, ZenonT(60)
  <2> QED
    BY <1>1, <2>1, <2>2, <2>3, ZenonT(60) DEF OK
<1>8. OK(p, z)
  <2>1. Base(bgp_stop(a)) /\ Tempered(a, bgp_stop(a))
    BY <1>6, StopKeeps, Zenon
  <2>2. Tempered(peer[p], bgp_stop(a))
    BY <1>3, <2>1, TemperedStep, ZenonT(60)
  <2>3. Fit(peer[p], z)
    BY <1>6, <2>1, <2>2, EmptiedFit, ZenonT(60)
  <2> QED
    BY <1>3, <2>3, FitOK, Zenon
<1> HIDE DEF w, z, r
<1>9. Good([after EXCEPT ![Real] = w])
  BY <1>1, <1>4, <1>7, PutGood, Zenon
<1> QED
  BY <1>5, <1>8, <1>9, PutGood, Zenon

\* A thread of the listening socket or of a terminal is off the ready list.
LEMMA ForeignTook ==
  ASSUME Good(peer), NEW x \in {"accept", "command"}, Ready(Real, {x})
  PROVE  LET r == Running(Real)
         IN  /\ Local(r) /\ Tempered(peer[Real], r) /\ Plain(peer[Real], r)
             /\ ~r.accept /\ OK(Real, r) /\ r.ready \in Seq(Work)
<1> DEFINE r == Running(Real)
<1>1. Real \in Peers /\ Real \notin Accept
  BY FsmAssumption, Zenon DEF Peers
<1>2. Took(peer[Real], x, r) /\ OK(Real, peer[Real])
  BY <1>1, RunningIs, SMTT(60)
<1>3. /\ x \notin Events /\ x \notin Sessional /\ x # "t_read" /\ x # "Clearing_Completed"
      /\ x \notin Events \cup {"t_holdtime", "t_start"}
  BY Zenon DEF Events, Sessional, SessionTimers
<1> HIDE DEF r
<1>4. Local(r)
  BY <1>2, <1>3, ZenonT(60) DEF Took, Local, Base, Armed
<1>5. r.ready \in Seq(Work)
  BY <1>2, Typed, Zenon DEF Took
<1> QED
  BY <1>1, <1>2, <1>4, <1>5, ZenonT(60) DEF Took, Plain, OK, r

LEMMA AcceptGood ==
  ASSUME Good(peer), RunAccept
  PROVE  Good(peer')
<1> DEFINE listened == [peer EXCEPT ![Real] = Running(Real)]
           new == [NoPeer EXCEPT !.accept = TRUE, !.status = "Active", !.fd = TRUE,
                                 !.holdtime = peer[Real].holdtime,
                                 !.event = <<"TCP_connection_open">>]
<1>1. Real \in Peers /\ Real \notin Accept
  BY FsmAssumption, Zenon DEF Peers
<1>2. Good(listened)
  <2>1. OK(Real, Running(Real))
    BY ForeignTook, Zenon DEF RunAccept
  <2> QED
    BY <1>1, <2>1, PutGood, ZenonT(60)
<1>3. Local(new) /\ Temp(new)
  <2>1. peer[Real].holdtime \in BOOLEAN
    BY <1>1, Typed, Zenon DEF Good
  <2> QED
    BY <2>1, AcceptedLocal, ZenonT(60)
<1> HIDE DEF new
<1>4. ASSUME NEW q \in Accept
      PROVE  Good([listened EXCEPT ![q] = new])
  <2>1. q \in Peers /\ OK(q, new)
    BY <1>1, <1>3, Zenon DEF Peers, OK
  <2> HIDE DEF listened
  <2> QED
    BY <1>2, <2>1, PutGood, Zenon
<1>5. peer' = listened \/ \E q \in Accept : peer' = [listened EXCEPT ![q] = new]
  BY Zenon DEF RunAccept, new
<1> HIDE DEF listened
<1> QED
  BY <1>2, <1>4, <1>5, Zenon


\* The commands: clear, shutdown and its removal, the interface goes down, the
\* peer is deleted or made.
LEMMA CommandGood ==
  ASSUME Lists, Good(peer), RunCommand
  PROVE  Good(peer')
<1> DEFINE s == Running(Real)
<1>1. Real \in Peers /\ Real \notin Accept
  BY FsmAssumption, Zenon DEF Peers
<1>2. PICK io \in IO :
         \/ RealKnown /\ peer' = [peer EXCEPT ![Real] = peer_clear(s, io)]
         \/ RealKnown /\ peer' = [peer EXCEPT ![Real] = peer_shutdown(s, io)]
         \/ RealKnown /\ peer' = [peer EXCEPT ![Real] = peer_no_shutdown(s)]
         \/ RealKnown /\ peer' = [peer EXCEPT ![Real] = EventAdd(s, "BGP_Stop")]
         \/ RealKnown /\ peer' = [peer EXCEPT ![Real] = peer_delete(s)]
         \/ s.status = "Free" /\ peer' = [peer EXCEPT ![Real] = [NewPeer EXCEPT !.ready = s.ready]]
         \/ peer' = [peer EXCEPT ![Real] = s]
  BY Zenon DEF RunCommand
<1>3. Ready(Real, {"command"})
  BY Zenon DEF RunCommand
<1>4. /\ Local(s) /\ Plain(peer[Real], s) /\ ~s.accept /\ s.ready \in Seq(Work)
  BY <1>3, ForeignTook, Zenon
<1> HIDE DEF s
<1>5. Base(s) /\ Reads(s) /\ Completes(s) /\ Queue(s)
  BY <1>4, Zenon DEF Local, Base
<1>6. RealKnown => s.status # "Free"
  BY <1>4, Zenon DEF RealKnown, Plain
<1>7. ASSUME NEW u, Local(u), ~u.accept, peer' = [peer EXCEPT ![Real] = u]
      PROVE  Good(peer')
  <2>1. OK(Real, u)
    BY <1>1, <1>7, Zenon DEF OK
  <2> QED
    BY <1>1, <1>7, <2>1, PutGood, Zenon
<1>8. CASE peer' = [peer EXCEPT ![Real] = peer_clear(s, io)]
  <2>1. Local(peer_clear(s, io)) /\ ~peer_clear(s, io).accept
    BY <1>4, PeerClearKeeps, Zenon DEF Tempered
  <2> QED
    BY <1>7, <1>8, <2>1, Zenon
<1>9. CASE RealKnown /\ peer' = [peer EXCEPT ![Real] = peer_shutdown(s, io)]
  <2>1. Local(peer_shutdown(s, io)) /\ ~peer_shutdown(s, io).accept
    BY <1>4, <1>6, <1>9, ShutdownKeeps DEF Tempered
  <2> QED
    BY <1>7, <1>9, <2>1, ZenonT(60)
<1>10. CASE peer' = [peer EXCEPT ![Real] = peer_no_shutdown(s)]
  <2>1. Local(peer_no_shutdown(s)) /\ ~peer_no_shutdown(s).accept
    BY <1>4, NoShutdownKeeps, Zenon DEF Tempered
  <2> QED
    BY <1>7, <1>10, <2>1, Zenon
<1>11. CASE peer' = [peer EXCEPT ![Real] = EventAdd(s, "BGP_Stop")]
  <2>1. "BGP_Stop" \in Events
    BY Zenon DEF Events
  <2>2. Local(EventAdd(s, "BGP_Stop")) /\ ~EventAdd(s, "BGP_Stop").accept
    BY <1>4, <1>5, <2>1, AddLocal, Zenon
  <2> QED
    BY <1>7, <1>11, <2>2, ZenonT(60)
<1>12. CASE RealKnown /\ peer' = [peer EXCEPT ![Real] = peer_delete(s)]
  <2>1. Local(peer_delete(s)) /\ ~peer_delete(s).accept
    BY <1>4, <1>5, <1>6, <1>12, DeleteKeeps DEF Tempered
  <2> QED
    BY <1>7, <1>12, <2>1, ZenonT(60)
<1>13. CASE s.status = "Free" /\ peer' = [peer EXCEPT ![Real] = [NewPeer EXCEPT !.ready = s.ready]]
  <2> DEFINE u == [NewPeer EXCEPT !.ready = s.ready]
  <2>1. "clear_node_queue" \notin Elems(s.ready)
    BY <1>5, <1>13, Zenon DEF Queue, Rd
  <2>2. Local(u) /\ ~u.accept
    BY <1>4, <2>1, CreatedLocal, Zenon
  <2> HIDE DEF u
  <2> QED
    BY <1>7, <1>13, <2>2, Zenon DEF u
<1>14. CASE peer' = [peer EXCEPT ![Real] = s]
  BY <1>4, <1>7, <1>14, Zenon
<1> QED
  BY <1>2, <1>8, <1>9, <1>10, <1>11, <1>12, <1>13, <1>14, SMTT(60)

LEMMA InitGood ==
  ASSUME Lists, Init
  PROVE  Good(peer)
<1>1. ASSUME NEW p \in Peers
      PROVE  OK(p, IF p = Real THEN NewPeer ELSE NoPeer)
  BY FsmAssumption, NewPeerLocal, NoPeerLocal, Zenon DEF OK
<1> QED
  BY <1>1, Zenon DEF Init, Good, OK, Local, Base

LEMMA StepGood ==
  ASSUME Lists, Good(peer), [Next]_peer
  PROVE  Good(peer')
<1>1. CASE thread_fetch
  BY <1>1, FetchGood, Zenon
<1>2. CASE RunReadOpen
  BY <1>2, OpenGood, Zenon
<1>3. CASE RunAccept
  BY <1>3, AcceptGood, Zenon
<1>4. CASE RunCommand
  BY <1>4, CommandGood, Zenon
<1>5. ASSUME NEW p \in Peers, Run(p)
      PROVE  Good(peer')
  BY <1>5, AloneGood, MessageGood, TransferGood, Zenon DEF Run
<1>6. CASE UNCHANGED peer
  BY <1>6, Zenon
<1> QED
  BY <1>1, <1>2, <1>3, <1>4, <1>5, <1>6, SMTT(60) DEF Next

LEMMA OnIsScheduled ==
  ASSUME NEW s, NEW x
  PROVE  (x \in On(s) <=> Scheduled(s, x)) /\ (x \in Waits(s) <=> Pending(s, x))
BY Zenon DEF On, Rd, Ev, Waits, Elems, Scheduled, Pending

(***************************************************************************)
(* Filter.                                                                 *)
(***************************************************************************)

W == INSTANCE WellFoundedInduction

\* A set of natural numbers has a least one.
LEMMA LeastNumber ==
  ASSUME NEW T, T \subseteq Nat, T # {}
  PROVE  \E x \in T : \A y \in T : x <= y
<1>1. PICK x \in T : \A y \in T : <<y, x>> \notin W!OpToRel(<, Nat)
  BY W!NatLessThanWellFounded, W!WFMin, Zenon
<1>2. \A y \in T : x \in Nat /\ y \in Nat /\ ~(y < x)
  BY <1>1, Zenon DEF W!OpToRel
<1> QED
  BY <1>2

\* Filter keeps the elements of S: its function is defined, because a longest
\* initial part without one could be extended, and by then its values follow one
\* from the other.
LEMMA FilterLists == Lists
<1> SUFFICES ASSUME NEW Z, NEW q \in Seq(Z), NEW S
             PROVE  /\ Filter(q, S) \in Seq(Z)
                    /\ Elems(Filter(q, S)) = Elems(q) \cap S
                    /\ \A v : Once(q, v) => Once(Filter(q, S), v)
  BY Zenon DEF Lists
<1> DEFINE n == Len(q)
           IsKept(f, m) == f = [i \in 0 .. m |-> IF i = 0 THEN <<>>
                                  ELSE IF q[i] \in S THEN Append(f[i - 1], q[i]) ELSE f[i - 1]]
           Exists(m) == \E f : IsKept(f, m)
<1>1. n \in Nat /\ DOMAIN q = 1 .. n /\ \A i \in 1 .. n : q[i] \in Z
  OBVIOUS
<1>2. Exists(0)
  <2>1. IsKept([i \in 0 .. 0 |-> <<>>], 0)
    OBVIOUS
  <2> QED
    BY <2>1, Zenon
<1>3. ASSUME NEW m \in Nat, Exists(m)
      PROVE  Exists(m + 1)
  <2>1. PICK f : IsKept(f, m)
    BY <1>3, Zenon
  <2> DEFINE last == IF q[m + 1] \in S THEN Append(f[m], q[m + 1]) ELSE f[m]
             g == [i \in 0 .. m + 1 |-> IF i = m + 1 THEN last ELSE f[i]]
             h == [i \in 0 .. m + 1 |-> IF i = 0 THEN <<>>
                     ELSE IF q[i] \in S THEN Append(g[i - 1], q[i]) ELSE g[i - 1]]
  <2>2. ASSUME NEW i \in 0 .. m + 1
        PROVE  g[i] = h[i]
    <3>1. CASE i = m + 1
      <4>1. i - 1 = m /\ m # m + 1 /\ m \in 0 .. m + 1 /\ i # 0
        BY <3>1
      <4>2. g[m] = f[m]
        BY <4>1, Zenon
      <4>3. g[i] = last
        BY <3>1, Zenon
      <4>4. h[i] = IF q[m + 1] \in S THEN Append(g[m], q[m + 1]) ELSE g[m]
        BY <3>1, <4>1, Zenon
      <4> HIDE DEF g, h
      <4> QED
        BY <4>2, <4>3, <4>4
    <3>2. CASE i = 0
      <4>1. i # m + 1 /\ i \in 0 .. m
        BY <3>2
      <4>2. f[0] = <<>>
        BY <2>1
      <4> QED
        BY <3>2, <4>1, <4>2, Zenon
    <3>3. CASE i \in 1 .. m
      <4>1. i \in 0 .. m /\ i # m + 1 /\ i # 0 /\ i - 1 \in 0 .. m + 1 /\ i - 1 # m + 1
        BY <3>3
      <4>2. f[i] = IF q[i] \in S THEN Append(f[i - 1], q[i]) ELSE f[i - 1]
        <5>1. f = [k \in 0 .. m |-> IF k = 0 THEN <<>>
                     ELSE IF q[k] \in S THEN Append(f[k - 1], q[k]) ELSE f[k - 1]]
          BY <2>1, Zenon
        <5> QED
          BY <4>1, <5>1, Zenon
      <4>3. g[i] = f[i] /\ g[i - 1] = f[i - 1]
        BY <4>1, Zenon
      <4>4. h[i] = IF q[i] \in S THEN Append(g[i - 1], q[i]) ELSE g[i - 1]
        BY <4>1, Zenon
      <4> HIDE DEF g, h
      <4> QED
        BY <4>2, <4>3, <4>4, Zenon
    <3> QED
      BY <3>1, <3>2, <3>3
  <2>3. g = h
    <3> HIDE DEF last
    <3> QED
      BY <2>2, Zenon
  <2>4. IsKept(g, m + 1)
    BY <2>3, Zenon
  <2> QED
    BY <2>4, Zenon
<1> HIDE DEF Exists
<1>4. \A m \in Nat : Exists(m)
  <2> DEFINE K == {m \in Nat : ~Exists(m)}
  <2> SUFFICES ASSUME K # {}
               PROVE  FALSE
    BY Zenon
  <2>1. K \subseteq Nat
    BY Zenon
  <2>2. PICK m \in K : \A k \in K : m <= k
    <3> HIDE DEF K
    <3> QED
      BY <2>1, LeastNumber, Zenon
  <2>3. m \in Nat /\ ~Exists(m) /\ m # 0
    BY <1>2, <2>2, Zenon
  <2>4. m - 1 \in Nat /\ m - 1 \notin K
    BY <2>2, <2>3
  <2>5. Exists(m - 1)
    BY <2>4, Zenon
  <2>6. Exists((m - 1) + 1)
    BY <1>3, <2>4, <2>5
  <2> QED
    BY <2>3, <2>6
<1> DEFINE kept == CHOOSE f : IsKept(f, n)
<1>5. IsKept(kept, n)
  <2>1. \E f : IsKept(f, n)
    BY <1>1, <1>4, Zenon DEF Exists
  <2> HIDE DEF IsKept
  <2> QED
    BY <2>1, Zenon
<1>6. Filter(q, S) = kept[n]
  BY Zenon DEF Filter
<1> HIDE DEF kept, n
<1>7. kept[0] = <<>>
  BY <1>1, <1>5
<1>8. ASSUME NEW i \in 1 .. n
      PROVE  kept[i] = IF q[i] \in S THEN Append(kept[i - 1], q[i]) ELSE kept[i - 1]
  <2>1. kept = [k \in 0 .. n |-> IF k = 0 THEN <<>>
                  ELSE IF q[k] \in S THEN Append(kept[k - 1], q[k]) ELSE kept[k - 1]]
    BY <1>5, Zenon
  <2>2. i \in 0 .. n /\ i # 0
    BY <1>1
  <2> QED
    BY <2>1, <2>2, Zenon
<1> HIDE DEF IsKept
<1> DEFINE Part(i) == {q[j] : j \in 1 .. i}
           Right(i) == /\ kept[i] \in Seq(Z)
                       /\ Elems(kept[i]) = Part(i) \cap S
                       /\ \A v : Once(q, v) => Once(kept[i], v)
<1>9. Right(0)
  <2>1. Part(0) = {}
    OBVIOUS
  <2> QED
    BY <1>7, <2>1, ElemsEmpty
<1>10. ASSUME NEW i \in 1 .. n, Right(i - 1)
       PROVE  Right(i)
  <2>1. Part(i) = Part(i - 1) \cup {q[i]}
    <3>1. i \in Nat /\ i >= 1
      BY <1>1
    <3>2. 1 .. i = (1 .. i - 1) \cup {i}
      BY <3>1
    <3> QED
      BY <3>2, Zenon
  <2>2. ASSUME NEW v, Once(q, v), q[i] = v
        PROVE  v \notin Part(i - 1)
    <3>1. \A j \in 1 .. i - 1 : j \in DOMAIN q /\ j # i
      BY <1>1
    <3>2. i \in DOMAIN q
      BY <1>1, Zenon
    <3> QED
      BY <2>2, <3>1, <3>2 DEF Once
  <2>3. q[i] \in Z
    BY <1>1, Zenon
  <2> HIDE DEF Part
  <2>4. CASE q[i] \in S
    <3>1. kept[i] = Append(kept[i - 1], q[i])
      BY <1>8, <2>4, Zenon
    <3>2. /\ kept[i] \in Seq(Z) /\ Elems(kept[i]) = Elems(kept[i - 1]) \cup {q[i]}
          /\ \A v : Once(kept[i - 1], v) /\ ~(q[i] = v /\ v \in Elems(kept[i - 1])) => Once(kept[i], v)
      BY <1>10, <2>3, <3>1, ElemsAppend
    <3>3. Elems(kept[i]) = Part(i) \cap S
      BY <1>10, <2>1, <2>4, <3>2, Zenon
    <3>4. \A v : Once(q, v) => Once(kept[i], v)
      BY <1>10, <2>2, <3>2
    <3> QED
      BY <3>2, <3>3, <3>4
  <2>5. CASE q[i] \notin S
    <3>1. kept[i] = kept[i - 1]
      BY <1>8, <2>5, Zenon
    <3>2. Part(i) \cap S = Part(i - 1) \cap S
      BY <2>1, <2>5, Zenon
    <3> QED
      BY <1>10, <3>1, <3>2
  <2> QED
    BY <2>4, <2>5, Zenon
<1>11. Right(n)
  <2> HIDE DEF Right
  <2> DEFINE K == {i \in 0 .. n : ~Right(i)}
  <2> SUFFICES ASSUME K # {}
               PROVE  FALSE
    BY <1>1
  <2>1. K \subseteq Nat
    BY <1>1
  <2>2. PICK m \in K : \A k \in K : m <= k
    <3> HIDE DEF K
    <3> QED
      BY <2>1, LeastNumber, Zenon
  <2>3. m \in 0 .. n /\ ~Right(m) /\ m # 0
    BY <1>9, <2>2
  <2>4. m \in 1 .. n /\ m - 1 \in 0 .. n /\ m - 1 \notin K
    BY <1>1, <2>2, <2>3
  <2>5. Right(m - 1)
    BY <2>4, Zenon
  <2> QED
    BY <1>10, <2>3, <2>4, <2>5
<1>12. Part(n) = Elems(q)
  BY <1>1, Zenon DEF Elems
<1> QED
  BY <1>6, <1>11, <1>12, Zenon

\* The inductive invariant holds in every state.
LEMMA Always == Spec => []Inv
<1>1. Init => Inv
  BY FilterLists, InitGood, InvIsGood, Zenon
<1>2. Inv /\ [Next]_peer => Inv'
  <2> SUFFICES ASSUME Inv, [Next]_peer PROVE Inv'
    BY Zenon
  <2>1. Good(peer')
    BY FilterLists, InvIsGood, StepGood, SMTT(60)
  <2> QED
    BY <2>1, Zenon DEF Inv, Good, OK, TypeOK, Peers
<1> QED
  BY <1>1, <1>2, PTL DEF Spec

(***************************************************************************)
(* The theorems.                                                           *)
(***************************************************************************)

\* Every handler leaves every struct peer well formed (all of bgp_fsm.c,
\* bgp_packet.c's bgp_read and bgp_write, bgp_network.c's bgp_accept).
THEOREM TypeTheorem == Spec => []TypeOK
<1>1. Inv => TypeOK
  BY SMTT(60) DEF Inv
<1> QED
  BY <1>1, Always, PTL

\* A peer in Clearing can leave it: its clear queue still holds a node or
\* Clearing_Completed is pending, whatever commands, lost connections and
\* timers come in between (bgp_clear_route, bgp_clear_node_complete, the
\* BGP_EVENT_FLUSH that bgp_stop leaves out in Clearing).
THEOREM ClearingTheorem == Spec => []ClearingCompletes
<1>1. Inv => ClearingCompletes
  BY OnIsScheduled, SMTT(60) DEF Inv, Local, Completes, ClearingCompletes
<1> QED
  BY <1>1, Always, PTL

\* A session from OpenSent on has its connection, its read thread and, with a
\* hold time, its hold timer or an event that will set it (bgp_timer_set, the
\* transfer in bgp_open_receive, bgp_update_receive).
THEOREM AttendedTheorem == Spec => []SessionAttended
<1>1. Inv => SessionAttended
  <2> SUFFICES ASSUME Inv, NEW p \in Peers, peer[p].status \in NotifiableStatus
               PROVE  /\ peer[p].fd /\ Scheduled(peer[p], "t_read")
                      /\ peer[p].holdtime => Scheduled(peer[p], "t_holdtime") \/ AnyPending(peer[p])
    BY Zenon DEF SessionAttended
  <2>1. Reads(peer[p]) /\ Timed(peer[p])
    BY Zenon DEF Inv, Local
  <2>2. peer[p].fd /\ Scheduled(peer[p], "t_read")
    BY <2>1, OnIsScheduled, SMTT(60) DEF Reads
  <2>3. Waits(peer[p]) \cap Events # {} => AnyPending(peer[p])
    BY OnIsScheduled, Zenon DEF AnyPending
  <2>4. peer[p].holdtime => Scheduled(peer[p], "t_holdtime") \/ AnyPending(peer[p])
    BY <2>1, <2>3, OnIsScheduled, ZenonT(60) DEF Timed
  <2> QED
    BY <2>2, <2>4, SMTT(60)
<1> QED
  BY <1>1, Always, PTL

\* While its routes are cleared a peer has no connection and no thread of the
\* old session is scheduled (bgp_stop before bgp_fsm_change_status).
THEOREM QuietTheorem == Spec => []ClearingIsQuiet
<1>1. Inv => ClearingIsQuiet
  BY OnIsScheduled, ZenonT(60) DEF Inv, Local, Base, Quiet, Sessional, ClearingIsQuiet
<1> QED
  BY <1>1, Always, PTL

\* A stale route of a graceful restart is never orphaned: the peer is in NSF
\* mode or its clear queue will visit the route (bgp_clear_route_node,
\* bgp_stop, bgp_establish, peer_nsf_stop).
THEOREM StaleTheorem == Spec => []StaleIsSweepable
<1>1. Inv => StaleIsSweepable
  BY ElemsEmpty, ZenonT(60) DEF Inv, Local, Base, Sweep, StaleIsSweepable
<1> QED
  BY <1>1, Always, PTL

\* A temporary peer of bgp_accept never gets past OpenSent and never holds a
\* route (bgp_open_receive, the peer_delete at the end of bgp_read).
THEOREM TemporaryTheorem == Spec => []AcceptIsTemporary
<1>1. Inv => AcceptIsTemporary
  BY SMTT(60) DEF Inv, Temp, Late, NoRoutes, AcceptIsTemporary
<1> QED
  BY <1>1, Always, PTL

\* A configured peer in Idle that is neither shut down nor over its prefix
\* limit will start again (bgp_timer_set, peer_clear, peer_create).
THEOREM RestartsTheorem == Spec => []IdleRestarts
<1>1. Inv => IdleRestarts
  <2> SUFFICES ASSUME Inv, peer[Real].status = "Idle", ~Suppressed(peer[Real])
               PROVE  Scheduled(peer[Real], "t_start") \/ AnyPending(peer[Real])
    BY Zenon DEF IdleRestarts
  <2>1. Timed(peer[Real]) /\ ~peer[Real].accept
    BY Zenon DEF Inv, Local, Peers
  <2>2. Waits(peer[Real]) \cap Events # {} => AnyPending(peer[Real])
    BY OnIsScheduled, Zenon DEF AnyPending
  <2> QED
    BY <2>1, <2>2, OnIsScheduled, SMTT(60) DEF Timed
<1> QED
  BY <1>1, Always, PTL

=============================================================================
