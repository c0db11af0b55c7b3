----------------------------- MODULE WorkQueue -----------------------------
(***************************************************************************)
(* lib/workqueue.c: the background queue to which bgpd hands its decision  *)
(* and clearing work and zebra its routing table.  work_queue_run walks    *)
(* the list of items with a pointer to the next one taken before the work  *)
(* function is called, retries, requeues and drops items, stops when its   *)
(* time slot is over and schedules itself again.  The work function may    *)
(* itself add items and plug or unplug the queue.                          *)
(*                                                                         *)
(* An item is named by its task, of which at most one is in the queue: the *)
(* callers mark the nodes that are queued.                                 *)
(***************************************************************************)
EXTENDS Integers, Sequences, FiniteSets, TLC

CONSTANTS
  Tasks,
  NULL,
  MaxRetries,   \* spec.max_retries
  MaxCycles     \* bound: cycles of a run after which nothing is queued anew

USHRT_MAX == 65535

\* item->ran is an unsigned short and has to reach max_retries + 1.
ASSUME WorkQueueAssumption ==
  /\ NULL \notin Tasks
  /\ MaxRetries \in Nat /\ MaxRetries < USHRT_MAX
  /\ MaxCycles \in Nat

VARIABLES
  items,        \* wq->items
  ran,          \* item->ran of each task
  unplugged,    \* WQ_UNPLUGGED
  thread,       \* wq->thread # NULL: work_queue_run is scheduled
  pc,           \* where work_queue_run is
  node, nnode,  \* its list pointers
  cycles,       \* its count of iterations
  granularity,  \* cycles.granularity
  best,         \* cycles.best
  call          \* the callback made last, or what its result means

run == <<pc, node, nnode, cycles>>
stats == <<granularity, best>>
vars == <<items, ran, unplugged, thread, run, stats, call>>

Calls ==
  {"none", "complete", "work", "done", "fail", "requeue", "later"} \X (Tasks \cup {NULL})

Queued(t) == \E i \in DOMAIN items : items[i] = t

(***************************************************************************)
(* The list (lib/linklist.c).                                              *)
(***************************************************************************)

Position(list, t) == CHOOSE i \in DOMAIN list : list[i] = t

listhead(list) == IF list = <<>> THEN NULL ELSE list[1]

listnextnode(list, t) ==
  LET i == Position(list, t)
  IN  IF i < Len(list) THEN list[i + 1] ELSE NULL

list_delete_node(list, t) ==
  LET i == Position(list, t)
  IN  [j \in 1 .. Len(list) - 1 |-> IF j < i THEN list[j] ELSE list[j + 1]]

(***************************************************************************)
(* The interface: called by the daemon between two runs, or by the work    *)
(* function.                                                               *)
(***************************************************************************)

work_queue_schedule(list, open) ==
  thread' = (thread \/ (open /\ list # <<>>))

UserCode == pc = "idle" \/ pc = "work"

\* Mutant: the item is added at the head of the list.
work_queue_addFront(t) ==
  /\ UserCode
  /\ ~Queued(t)
  /\ pc = "work" => cycles < MaxCycles
  /\ items' = <<t>> \o items
  /\ ran' = [ran EXCEPT ![t] = 0]
  /\ work_queue_schedule(items', unplugged)
  /\ UNCHANGED <<unplugged, run, stats, call>>

work_queue_add(t) ==
  /\ UserCode
  /\ ~Queued(t)
  /\ pc = "work" => cycles < MaxCycles
  /\ items' = Append(items, t)
  /\ ran' = [ran EXCEPT ![t] = 0]
  /\ work_queue_schedule(items', unplugged)
  /\ UNCHANGED <<unplugged, run, stats, call>>

work_queue_plug ==
  /\ UserCode
  /\ unplugged' = FALSE
  /\ thread' = FALSE
  /\ UNCHANGED <<items, ran, run, stats, call>>

\* Mutant: the queue is not scheduled again.
work_queue_unplugFlag ==
  /\ UserCode
  /\ unplugged' = TRUE
  /\ UNCHANGED <<items, ran, thread, run, stats, call>>

work_queue_unplug ==
  /\ UserCode
  /\ unplugged' = TRUE
  /\ work_queue_schedule(items, TRUE)
  /\ UNCHANGED <<items, ran, run, stats, call>>

(***************************************************************************)
(* work_queue_run.                                                         *)
(***************************************************************************)

Start ==
  /\ pc = "idle" /\ thread
  /\ thread' = FALSE
  /\ pc' = "loop"
  /\ node' = listhead(items)
  /\ nnode' = NULL
  /\ cycles' = 0
  /\ UNCHANGED <<items, ran, unplugged, stats, call>>

\* An item past its retries goes to the error handler and is removed.
GiveUp ==
  /\ pc = "loop" /\ node # NULL
  /\ ran[node] > MaxRetries
  /\ node' = listnextnode(items, node)
  /\ items' = list_delete_node(items, node)
  /\ ran' = [ran EXCEPT ![node] = 0]
  /\ call' = <<"fail", node>>
  /\ UNCHANGED <<unplugged, thread, pc, nnode, cycles, stats>>

\* Mutant: one attempt more is allowed.
CallWorkOnceMore ==
  /\ pc = "loop" /\ node # NULL
  /\ ran[node] <= MaxRetries + 1
  /\ nnode' = listnextnode(items, node)
  /\ pc' = "work"
  /\ call' = <<"work", node>>
  /\ UNCHANGED <<items, ran, unplugged, thread, node, cycles, stats>>

CallWork ==
  /\ pc = "loop" /\ node # NULL
  /\ ran[node] <= MaxRetries
  /\ nnode' = listnextnode(items, node)
  /\ pc' = "work"
  /\ call' = <<"work", node>>
  /\ UNCHANGED <<items, ran, unplugged, thread, node, cycles, stats>>

\* Mutant: the last item of the list is visited again.
NextCycleStays ==
  /\ cycles' = cycles + 1
  /\ node' = IF nnode = NULL THEN node ELSE nnode
  /\ nnode' = NULL
  /\ \/ pc' = "loop"
     \/ pc' = "stats" /\ (cycles + 1) % granularity = 0

\* The cycle is completed: the time slot may be over, which is looked at once in
\* granularity cycles (thread_should_yield).
NextCycle ==
  /\ cycles' = cycles + 1
  /\ node' = nnode
  /\ nnode' = NULL
  /\ \/ pc' = "loop"
     \/ pc' = "stats" /\ (cycles + 1) % granularity = 0

\* WQ_RETRY_NOW, with retries left.
RetryNow ==
  /\ pc = "work"
  /\ ran[node] + 1 < MaxRetries
  /\ ran' = [ran EXCEPT ![node] = @ + 1]
  /\ call' = <<"work", node>>
  /\ UNCHANGED <<items, unplugged, thread, run, stats>>

\* Mutant: no attempt is counted.
LaterFree(blocked) ==
  /\ pc = "work"
  /\ pc' = "stats"
  /\ call' = <<"later", node>>
  /\ UNCHANGED <<items, ran, unplugged, thread, node, nnode, cycles, stats>>

\* WQ_RETRY_LATER and, without counting the attempt, WQ_QUEUE_BLOCKED.
Later(blocked) ==
  /\ pc = "work"
  /\ ran' = [ran EXCEPT ![node] = IF blocked THEN @ ELSE @ + 1]
  /\ pc' = "stats"
  /\ call' = <<"later", node>>
  /\ UNCHANGED <<items, unplugged, thread, node, nnode, cycles, stats>>

\* WQ_REQUEUE: the count of attempts is taken back.
Requeue ==
  /\ pc = "work"
  /\ cycles < MaxCycles
  /\ items' = Append(list_delete_node(items, node), node)
  /\ call' = <<"requeue", node>>
  /\ NextCycle
  /\ UNCHANGED <<ran, unplugged, thread, stats>>

\* WQ_SUCCESS; WQ_ERROR, or WQ_RETRY_NOW without retries left.
Remove(result) ==
  /\ pc = "work"
  /\ items' = list_delete_node(items, node)
  /\ ran' = [ran EXCEPT ![node] = 0]
  /\ call' = <<result, node>>
  /\ NextCycle
  /\ UNCHANGED <<unplugged, thread, stats>>

HYSTERESIS == 4

\* After a run of n cycles.
NewGranularity(g, n) ==
  CASE n > g * HYSTERESIS * HYSTERESIS -> g * HYSTERESIS
    [] n > g * HYSTERESIS /\ n <= g * HYSTERESIS * HYSTERESIS -> g + HYSTERESIS
    [] OTHER -> g

\* The end of the run.  yielded is never set, so granularity is never reduced.
\* A queue that is empty is reported complete.
Stats ==
  /\ pc = "stats" \/ (pc = "loop" /\ node = NULL)
  /\ best' = IF cycles >= granularity /\ cycles > best THEN cycles ELSE best
  /\ granularity' = NewGranularity(granularity, cycles)
  /\ pc' = "idle"
  /\ work_queue_schedule(items, unplugged)
  /\ call' = IF items = <<>> THEN <<"complete", NULL>> ELSE call
  /\ node' = NULL /\ nnode' = NULL /\ cycles' = 0
  /\ UNCHANGED <<items, ran, unplugged>>

\* A queue as work_queue_new returns it.
Init ==
  /\ items = <<>>
  /\ ran = [t \in Tasks |-> 0]
  /\ unplugged = TRUE
  /\ thread = FALSE
  /\ pc = "idle" /\ node = NULL /\ nnode = NULL /\ cycles = 0
  /\ granularity = 1
  /\ best = 0
  /\ call = <<"none", NULL>>

\* work_queue_free, between two runs: what is left in the list goes with it.
work_queue_free ==
  /\ pc = "idle"
  /\ pc' = "freed"
  /\ items' = <<>>
  /\ thread' = FALSE
  /\ UNCHANGED <<ran, unplugged, node, nnode, cycles, stats, call>>

\* The owner of a freed queue makes itself a new one.
work_queue_new ==
  /\ pc = "freed"
  /\ pc' = "idle"
  /\ ran' = [t \in Tasks |-> 0]
  /\ unplugged' = TRUE
  /\ granularity' = 1
  /\ best' = 0
  /\ UNCHANGED <<items, thread, node, nnode, cycles, call>>

Return ==
  \/ RetryNow
  \/ Later(FALSE)
  \/ Requeue
  \/ Remove("done")
  \/ Remove("fail")

work_queue_run ==
  \/ Start
  \/ GiveUp
  \/ CallWork
  \/ Return
  \/ Later(TRUE)
  \/ Stats

Next ==
  \/ \E t \in Tasks : work_queue_add(t)
  \/ work_queue_plug
  \/ work_queue_unplug
  \/ work_queue_free
  \/ work_queue_new
  \/ work_queue_run

Spec == Init /\ [][Next]_vars

\* thread_fetch runs a thread that is scheduled and the run goes on until it ends.
\* A plugged queue is unplugged some time and not plugged again each time before
\* its thread is fetched, and a work function does not block the queue for ever.
Fairness ==
  /\ WF_vars(work_queue_unplug)
  /\ SF_vars(Start)
  /\ SF_vars(Return)
  /\ WF_vars(GiveUp \/ CallWork \/ Stats)

FairSpec == Spec /\ Fairness

(***************************************************************************)
(* Properties.                                                             *)
(***************************************************************************)

\* Every variable has its type.
TypeOK ==
  /\ items \in Seq(Tasks)
  /\ ran \in [Tasks -> Nat]
  /\ unplugged \in BOOLEAN /\ thread \in BOOLEAN
  /\ pc \in {"idle", "loop", "work", "stats", "freed"}
  /\ node \in Tasks \cup {NULL} /\ nnode \in Tasks \cup {NULL}
  /\ cycles \in Nat /\ granularity \in Nat /\ best \in Nat
  /\ call \in Calls

\* Between two runs a queue that is not plugged and has items has its thread
\* scheduled: work_queue_add, work_queue_unplug and the end of work_queue_run, which
\* may follow one another in any order and from within the work function, never
\* leave items behind that no later call would run.
NoLostWakeup ==
  pc = "idle" /\ unplugged /\ items # <<>> => thread

\* The list pointers of work_queue_run name items that are still in the queue: the
\* next item was looked up before the work function could add to the list and
\* before work_queue_item_requeue moved the current one to its end.
PointersLive ==
  /\ pc \in {"loop", "work"} /\ node # NULL => Queued(node)
  /\ pc = "work" => node # NULL
  /\ pc = "work" /\ nnode # NULL => Queued(nnode) /\ nnode # node

\* An item is never run more than max_retries + 1 times, however immediate and later
\* retries are mixed; item->ran, an unsigned short, does not overflow.
RetriesBounded ==
  /\ \A t \in Tasks : ran[t] <= MaxRetries + 1
  /\ pc = "work" => ran[node] <= MaxRetries

\* "granularity should be > 0, and can increase slowly after each run [...] but not
\* past cycles.best" (the comment in work_queue_run): the divisor of the yield test is
\* never zero, and never past the longest run, which would put the test out of reach.
GranularityBounded ==
  granularity > 0 /\ (granularity = 1 \/ granularity <= best)

TQ == INSTANCE TaskQueue WITH pending <- items

\* work_queue_run makes its callbacks as TaskQueue says: the pointers it walks the
\* list with are always at the item whose turn it is.
Refines == TQ!Spec

\* Every item that is added is given to the work function, or, if it was before, to
\* the error handler: neither items that are requeued or retried later nor a run
\* that ends early keep the others from their turn.  Only work_queue_free drops it.
Attended ==
  \A t \in Tasks : Queued(t) ~> call \in {<<"work", t>>, <<"fail", t>>} \/ pc = "freed"

=============================================================================
