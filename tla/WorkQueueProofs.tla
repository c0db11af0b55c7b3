-------------------------- MODULE WorkQueueProofs --------------------------
(***************************************************************************)
(* Proofs about WorkQueue: its invariants, and that it implements          *)
(* TaskQueue, for every set of tasks and every number of retries.          *)
(***************************************************************************)
EXTENDS WorkQueue, SequenceTheorems, TLAPS

(* No task is twice in the list.                                           *)
Distinct(list) == \A i, j \in 1 .. Len(list) : list[i] = list[j] => i = j

(* The pointers of work_queue_run are at the front of the list, whatever   *)
(* the work function has added at its end.  A freed queue has no list.     *)
AtFront ==
  /\ pc = "freed" => items = <<>>
  /\ pc = "loop" /\ node # NULL => items # <<>> /\ node = items[1]
  /\ pc = "work" => items # <<>> /\ node = items[1] /\ call = <<"work", node>>
  /\ pc = "work" /\ nnode # NULL => Len(items) >= 2 /\ nnode = items[2]

Inv ==
  /\ TypeOK
  /\ Distinct(items)
  /\ AtFront
  /\ NoLostWakeup
  /\ RetriesBounded
  /\ GranularityBounded

-----------------------------------------------------------------------------
(* The first item of the list is taken out of it.                          *)
LEMMA DeleteFirst ==
  ASSUME NEW list \in Seq(Tasks), list # <<>>, Distinct(list)
  PROVE  /\ Position(list, list[1]) = 1
         /\ list_delete_node(list, list[1]) = Tail(list)
         /\ listnextnode(list, list[1]) = IF Len(list) > 1 THEN list[2] ELSE NULL
<1>1. Len(list) \in Nat /\ Len(list) >= 1 /\ DOMAIN list = 1 .. Len(list)
  BY EmptySeq, LenProperties
<1>2. Position(list, list[1]) = 1
  BY <1>1 DEF Position, Distinct
<1>3. /\ Tail(list) \in Seq(Tasks) /\ Len(Tail(list)) = Len(list) - 1
      /\ \A i \in 1 .. Len(Tail(list)) : Tail(list)[i] = list[i + 1]
  BY <1>1, HeadTailProperties
<1>4. Tail(list) = [j \in 1 .. Len(list) - 1 |-> list[j + 1]]
  <2>1. Tail(list) \in [1 .. Len(list) - 1 -> Tasks]
    BY <1>3, LenProperties, Zenon
  <2> QED BY <1>3, <2>1, Zenon
<1>5. list_delete_node(list, list[1]) = Tail(list)
  BY <1>1, <1>2, <1>4 DEF list_delete_node
<1> QED BY <1>1, <1>2, <1>5 DEF listnextnode

(* Taking out the first item leaves a list without repetitions, and so     *)
(* does putting it, or a task that was not there, at the end.              *)
LEMMA DistinctTail ==
  ASSUME NEW list \in Seq(Tasks), list # <<>>, Distinct(list)
  PROVE  /\ Tail(list) \in Seq(Tasks) /\ Len(Tail(list)) = Len(list) - 1
         /\ Len(list) > 1 => Tail(list) # <<>> /\ Tail(list)[1] = list[2]
         /\ Distinct(Tail(list))
         /\ \A i \in 1 .. Len(Tail(list)) : Tail(list)[i] # list[1]
<1>1. Len(list) \in Nat /\ Len(list) >= 1 /\ Head(list) = list[1]
  BY EmptySeq, LenProperties, HeadTailProperties
<1>2. /\ Tail(list) \in Seq(Tasks) /\ Len(Tail(list)) = Len(list) - 1
      /\ \A i \in 1 .. Len(Tail(list)) : Tail(list)[i] = list[i + 1]
  BY <1>1, HeadTailProperties
<1>3. Distinct(Tail(list)) /\ \A i \in 1 .. Len(Tail(list)) : Tail(list)[i] # list[1]
  BY <1>1, <1>2 DEF Distinct
<1>4. Len(list) > 1 => Tail(list) # <<>> /\ Tail(list)[1] = list[2]
  BY <1>1, <1>2, EmptySeq
<1> QED BY <1>2, <1>3, <1>4

(* See DistinctTail.                                                       *)
LEMMA DistinctAppend ==
  ASSUME NEW list \in Seq(Tasks), Distinct(list), NEW t \in Tasks,
         \A i \in 1 .. Len(list) : list[i] # t
  PROVE  /\ Append(list, t) \in Seq(Tasks) /\ Append(list, t) # <<>>
         /\ Len(Append(list, t)) = Len(list) + 1
         /\ \A i \in 1 .. Len(list) : Append(list, t)[i] = list[i]
         /\ Distinct(Append(list, t))
<1>1. /\ Append(list, t) \in Seq(Tasks) /\ Append(list, t) # <<>>
      /\ Len(Append(list, t)) = Len(list) + 1
      /\ \A i \in 1 .. Len(list) : Append(list, t)[i] = list[i]
      /\ Append(list, t)[Len(list) + 1] = t
      /\ Len(list) \in Nat
  BY AppendProperties, LenProperties
<1>2. Distinct(Append(list, t))
  BY <1>1 DEF Distinct
<1> QED BY <1>1, <1>2

(* The granularity stays positive, and below the cycles that raised it.    *)
LEMMA GranularityStep ==
  ASSUME NEW g \in Nat, g > 0, NEW n \in Nat
  PROVE  /\ NewGranularity(g, n) \in Nat
         /\ NewGranularity(g, n) >= g
         /\ NewGranularity(g, n) = g \/ (n >= g /\ NewGranularity(g, n) <= n)
BY DEF NewGranularity, HYSTERESIS

-----------------------------------------------------------------------------
(* The invariant holds initially.                                          *)
LEMMA InitInv == Init => Inv
<1> SUFFICES ASSUME Init PROVE Inv
  OBVIOUS
<1>1. TypeOK
  BY WorkQueueAssumption, EmptySeq, Zenon DEF Init, TypeOK, Calls
<1>2. Distinct(items)
  BY EmptySeq DEF Init, Distinct
<1>3. AtFront /\ NoLostWakeup /\ RetriesBounded /\ GranularityBounded
  BY WorkQueueAssumption DEF Init, AtFront, NoLostWakeup, RetriesBounded, GranularityBounded
<1> QED BY <1>1, <1>2, <1>3 DEF Inv

(* Facts about the item in turn that the actions of work_queue_run share.  *)
LEMMA InTurn ==
  ASSUME Inv, (pc = "loop" /\ node # NULL) \/ pc = "work"
  PROVE  /\ items \in Seq(Tasks) /\ items # <<>> /\ node = items[1] /\ node = Head(items)
         /\ Len(items) \in Nat /\ Len(items) >= 1
         /\ node \in Tasks /\ node # NULL
         /\ list_delete_node(items, node) = Tail(items)
         /\ listnextnode(items, node) = IF Len(items) > 1 THEN items[2] ELSE NULL
         /\ Tail(items) \in Seq(Tasks) /\ Len(Tail(items)) = Len(items) - 1
         /\ Len(items) > 1 => Tail(items) # <<>> /\ Tail(items)[1] = items[2] /\ items[2] \in Tasks
         /\ Distinct(Tail(items))
         /\ \A i \in 1 .. Len(Tail(items)) : Tail(items)[i] # node
<1>1. items \in Seq(Tasks) /\ items # <<>> /\ node = items[1] /\ Distinct(items)
  BY DEF Inv, TypeOK, AtFront
<1>2. /\ Len(items) \in Nat /\ Len(items) >= 1 /\ node \in Tasks /\ node = Head(items)
      /\ Len(items) > 1 => items[2] \in Tasks
  BY <1>1, EmptySeq, LenProperties, ElementOfSeq
<1> QED BY <1>1, <1>2, DeleteFirst, DistinctTail, WorkQueueAssumption

(* An item may be added at any time user code runs.                        *)
LEMMA AddInv == ASSUME Inv, NEW t \in Tasks, work_queue_add(t) PROVE Inv'
<1>1. /\ items \in Seq(Tasks) /\ Distinct(items) /\ Len(items) \in Nat
      /\ \A i \in 1 .. Len(items) : items[i] # t
  BY LenProperties DEF Inv, TypeOK, work_queue_add, Queued
<1>2. /\ items' = Append(items, t) /\ items' \in Seq(Tasks) /\ items' # <<>>
      /\ Len(items') = Len(items) + 1 /\ Distinct(items')
      /\ \A i \in 1 .. Len(items) : items'[i] = items[i]
  BY <1>1, DistinctAppend DEF work_queue_add
<1>3. TypeOK'
  BY <1>2 DEF Inv, TypeOK, work_queue_add, work_queue_schedule, run, stats, Calls
<1>4. AtFront'
  <2>1. items # <<>> => items'[1] = items[1]
    BY <1>1, <1>2, EmptySeq
  <2>2. Len(items) >= 2 => items'[2] = items[2]
    BY <1>1, <1>2
  <2> QED BY <1>1, <1>2, <2>1, <2>2 DEF Inv, AtFront, work_queue_add, UserCode, run
<1>5. NoLostWakeup'
  BY <1>2, Zenon DEF Inv, TypeOK, NoLostWakeup, work_queue_add, work_queue_schedule, run
<1>6. RetriesBounded' /\ GranularityBounded'
  BY <1>1, WorkQueueAssumption
  DEF Inv, TypeOK, RetriesBounded, GranularityBounded, work_queue_add, run, stats
<1> QED BY <1>2, <1>3, <1>4, <1>5, <1>6 DEF Inv

(* Plugging and unplugging leave the list alone.                           *)
LEMMA PlugInv == ASSUME Inv, work_queue_plug \/ work_queue_unplug PROVE Inv'
<1>1. TypeOK' /\ NoLostWakeup'
  BY Zenon DEF Inv, TypeOK, NoLostWakeup, work_queue_plug, work_queue_unplug, work_queue_schedule,
         run, stats, Calls
<1>2. Distinct(items')
  BY Zenon DEF Inv, Distinct, work_queue_plug, work_queue_unplug
<1>3. AtFront' /\ RetriesBounded' /\ GranularityBounded'
  BY Zenon DEF Inv, AtFront, RetriesBounded, GranularityBounded, work_queue_plug, work_queue_unplug,
         run, stats
<1> QED BY <1>1, <1>2, <1>3 DEF Inv

(* A queue that is freed is empty, and a new one is as Init has it.        *)
LEMMA FreeInv == ASSUME Inv, work_queue_free \/ work_queue_new PROVE Inv'
<1>1. CASE work_queue_free
  <2>1. items' = <<>> /\ items' \in Seq(Tasks) /\ Distinct(items')
    BY <1>1, EmptySeq DEF work_queue_free, Distinct
  <2>2. TypeOK'
    BY <1>1, <2>1, Zenon DEF Inv, TypeOK, work_queue_free, stats, Calls
  <2>3. AtFront' /\ NoLostWakeup' /\ RetriesBounded' /\ GranularityBounded'
    BY <1>1 DEF Inv, AtFront, NoLostWakeup, RetriesBounded, GranularityBounded,
                work_queue_free, stats
  <2> QED BY <2>1, <2>2, <2>3 DEF Inv
<1>2. CASE work_queue_new
  <2>1. TypeOK'
    BY <1>2 DEF Inv, TypeOK, work_queue_new, Calls
  <2>2. items' = items /\ Distinct(items')
    BY <1>2 DEF Inv, work_queue_new
  <2>3. AtFront' /\ RetriesBounded' /\ GranularityBounded'
    BY <1>2, WorkQueueAssumption
    DEF Inv, AtFront, RetriesBounded, GranularityBounded, work_queue_new
  <2>4. NoLostWakeup'
    BY <1>2 DEF Inv, AtFront, NoLostWakeup, work_queue_new
  <2> QED BY <2>1, <2>2, <2>3, <2>4 DEF Inv
<1> QED BY <1>1, <1>2

(* A run starts at the head of the list.                                   *)
LEMMA StartInv == ASSUME Inv, Start PROVE Inv'
<1>1. items' = items /\ Distinct(items')
  BY DEF Inv, Start
<1>2. listhead(items) \in Tasks \cup {NULL}
  BY EmptySeq, ElementOfSeq, LenProperties DEF Inv, TypeOK, listhead
<1>3. TypeOK'
  BY <1>2, Zenon DEF Inv, TypeOK, Start, stats, Calls
<1>4. AtFront' /\ NoLostWakeup'
  BY DEF Inv, AtFront, NoLostWakeup, Start, listhead
<1>5. RetriesBounded' /\ GranularityBounded'
  BY DEF Inv, RetriesBounded, GranularityBounded, Start, stats
<1> QED BY <1>1, <1>3, <1>4, <1>5 DEF Inv

(* The item in turn is dropped, or handed to the work function.            *)
LEMMA LoopInv == ASSUME Inv, GiveUp \/ CallWork PROVE Inv'
<1>1. pc = "loop" /\ node # NULL
  BY DEF GiveUp, CallWork
<1>2. CASE GiveUp
  <2>1. items' = Tail(items) /\ Distinct(items')
    BY <1>1, <1>2, InTurn, Zenon DEF GiveUp
  <2>2. node' = IF Len(items) > 1 THEN items[2] ELSE NULL
    BY <1>1, <1>2, InTurn DEF GiveUp
  <2>3. TypeOK'
    BY <1>1, <1>2, <2>1, <2>2, InTurn DEF Inv, TypeOK, GiveUp, stats, Calls
  <2>4. AtFront' /\ NoLostWakeup'
    BY <1>1, <1>2, <2>1, <2>2, InTurn DEF AtFront, NoLostWakeup, GiveUp
  <2>5. RetriesBounded' /\ GranularityBounded'
    BY <1>1, <1>2, WorkQueueAssumption
    DEF Inv, TypeOK, RetriesBounded, GranularityBounded, GiveUp, stats
  <2> QED BY <2>1, <2>3, <2>4, <2>5 DEF Inv
<1>3. CASE CallWork
  <2>1. nnode' = IF Len(items) > 1 THEN items[2] ELSE NULL
    BY <1>1, <1>3, InTurn DEF CallWork
  <2>2. TypeOK'
    BY <1>1, <1>3, <2>1, InTurn DEF Inv, TypeOK, CallWork, stats, Calls
  <2>3. Distinct(items')
    BY <1>3 DEF Inv, CallWork
  <2>4. AtFront' /\ NoLostWakeup'
    BY <1>1, <1>3, <2>1, InTurn DEF AtFront, NoLostWakeup, CallWork
  <2>5. RetriesBounded' /\ GranularityBounded'
    BY <1>3 DEF Inv, RetriesBounded, GranularityBounded, CallWork, stats
  <2> QED BY <2>2, <2>3, <2>4, <2>5 DEF Inv
<1> QED BY <1>2, <1>3

(* A retry, now or later, leaves the item where it is.                     *)
LEMMA RetryInv == ASSUME Inv, RetryNow \/ \E b \in BOOLEAN : Later(b) PROVE Inv'
<1>1. pc = "work" /\ items' = items
  BY DEF RetryNow, Later
<1>2. TypeOK'
  <2>1. node \in Tasks /\ ran \in [Tasks -> Nat] /\ ran' \in [Tasks -> Nat]
    BY <1>1, InTurn, SMTT(60) DEF Inv, TypeOK, RetryNow, Later
  <2>2. call' \in Calls
    BY <2>1 DEF RetryNow, Later, Calls
  <2> QED BY <1>1, <2>1, <2>2, SMTT(60) DEF Inv, TypeOK, RetryNow, Later, run, stats
<1>5. RetriesBounded'
  <2>1. /\ node \in Tasks /\ ran \in [Tasks -> Nat] /\ MaxRetries \in Nat
        /\ ran[node] <= MaxRetries /\ \A t \in Tasks : ran[t] <= MaxRetries + 1
    BY <1>1, InTurn, WorkQueueAssumption DEF Inv, TypeOK, RetriesBounded
  <2>2. CASE RetryNow
    BY <2>1, <2>2 DEF RetriesBounded, RetryNow, run
  <2>3. ASSUME NEW b \in BOOLEAN, Later(b) PROVE RetriesBounded'
    <3>1. ran'[node] <= MaxRetries + 1 /\ \A t \in Tasks \ {node} : ran'[t] = ran[t]
      BY <2>1, <2>3 DEF Later
    <3> QED BY <2>1, <2>3, <3>1 DEF RetriesBounded, Later
  <2> QED BY <2>2, <2>3
<1>3. Distinct(items')
  BY <1>1 DEF Inv
<1>4. AtFront' /\ NoLostWakeup' /\ GranularityBounded'
  BY <1>1 DEF Inv, AtFront, NoLostWakeup, GranularityBounded, RetryNow, Later, run, stats
<1> QED BY <1>2, <1>3, <1>4, <1>5 DEF Inv

(* The next cycle is at the next item, which has become the first.         *)
LEMMA NextCycleFront ==
  ASSUME Inv, pc = "work", NextCycle,
         items' # <<>>, Len(items) > 1 => items'[1] = items[2]
  PROVE  AtFront' /\ NoLostWakeup'
BY DEF Inv, AtFront, NoLostWakeup, NextCycle

(* An item is moved to the end of the list.                                *)
LEMMA RequeueInv == ASSUME Inv, Requeue PROVE Inv'
<1>1. pc = "work" /\ NextCycle
  BY DEF Requeue
<1>2. items' = Append(Tail(items), node)
  BY <1>1, InTurn DEF Requeue
<1>3. items' \in Seq(Tasks) /\ items' # <<>> /\ Distinct(items')
  BY <1>1, <1>2, InTurn, DistinctAppend, Zenon
<1>4. Len(items) > 1 => items'[1] = items[2]
  <2>1. \A i \in 1 .. Len(Tail(items)) : items'[i] = Tail(items)[i]
    BY <1>1, <1>2, InTurn, DistinctAppend
  <2> QED BY <1>1, <2>1, InTurn
<1>5. TypeOK'
  <2>1. node \in Tasks /\ nnode \in Tasks \cup {NULL}
    BY <1>1, InTurn DEF Inv, TypeOK
  <2>2. call' \in Calls
    BY <2>1 DEF Requeue, Calls
  <2>3. node' \in Tasks \cup {NULL} /\ nnode' \in Tasks \cup {NULL} /\ cycles' \in Nat
    BY <1>1, <2>1 DEF Inv, TypeOK, NextCycle
  <2>4. pc' \in {"loop", "stats"}
    BY <1>1 DEF NextCycle
  <2> QED BY <1>3, <2>2, <2>3, <2>4 DEF Inv, TypeOK, Requeue, stats
<1>6. AtFront' /\ NoLostWakeup'
  BY <1>1, <1>3, <1>4, NextCycleFront
<1>7. RetriesBounded' /\ GranularityBounded'
  BY <1>1 DEF Inv, RetriesBounded, GranularityBounded, Requeue, NextCycle, stats
<1> QED BY <1>3, <1>5, <1>6, <1>7 DEF Inv

(* An item is taken out of the list.                                       *)
LEMMA RemoveInv ==
  ASSUME Inv, NEW result \in {"done", "fail"}, Remove(result)
  PROVE  Inv'
<1>1. pc = "work" /\ NextCycle
  BY DEF Remove
<1>2. items' = Tail(items) /\ items' \in Seq(Tasks) /\ Distinct(items')
  BY <1>1, InTurn, Zenon DEF Remove
<1>3. TypeOK'
  <2>1. node \in Tasks /\ ran \in [Tasks -> Nat] /\ ran' \in [Tasks -> Nat]
    BY <1>1, InTurn, SMTT(60) DEF Inv, TypeOK, Remove
  <2>2. call' \in Calls
    BY <2>1 DEF Remove, Calls
  <2> QED BY <1>1, <1>2, <2>1, <2>2 DEF Inv, TypeOK, Remove, NextCycle, stats
<1>4. AtFront' /\ NoLostWakeup'
  BY <1>1, <1>2, InTurn DEF Inv, AtFront, NoLostWakeup, NextCycle
<1>5. RetriesBounded' /\ GranularityBounded'
  BY <1>1, InTurn, WorkQueueAssumption
 , SMTT(60) DEF Inv, TypeOK, RetriesBounded, GranularityBounded, Remove, NextCycle, stats
<1> QED BY <1>2, <1>3, <1>4, <1>5 DEF Inv

(* A run ends: items that are left have the thread scheduled again.        *)
LEMMA StatsInv == ASSUME Inv, Stats PROVE Inv'
<1>1. items' = items /\ pc' = "idle"
  BY DEF Stats
<1>2. granularity \in Nat /\ granularity > 0 /\ cycles \in Nat /\ best \in Nat
  BY DEF Inv, TypeOK, GranularityBounded
<1>3. /\ granularity' \in Nat /\ granularity' >= granularity
      /\ granularity' = granularity \/ (cycles >= granularity /\ granularity' <= cycles)
  BY <1>2, GranularityStep DEF Stats
<1>4. TypeOK'
  BY <1>1, <1>2, <1>3 DEF Inv, TypeOK, Stats, work_queue_schedule, Calls
<1>5. Distinct(items') /\ AtFront' /\ NoLostWakeup' /\ RetriesBounded'
  BY <1>1 DEF Inv, TypeOK, AtFront, NoLostWakeup, RetriesBounded, Stats, work_queue_schedule
<1>6. GranularityBounded'
  BY <1>2, <1>3 DEF Inv, GranularityBounded, Stats
<1> QED BY <1>4, <1>5, <1>6 DEF Inv

(* Every step preserves the invariant.                                     *)
LEMMA NextInv == Inv /\ [Next]_vars => Inv'
<1> SUFFICES ASSUME Inv, [Next]_vars PROVE Inv'
  OBVIOUS
<1>1. CASE \E t \in Tasks : work_queue_add(t)
  BY <1>1, AddInv
<1>2. CASE work_queue_plug \/ work_queue_unplug
  BY <1>2, PlugInv
<1>3. CASE Start
  BY <1>3, StartInv
<1>4. CASE GiveUp \/ CallWork
  BY <1>4, LoopInv
<1>5. CASE RetryNow \/ Later(TRUE) \/ Later(FALSE)
  BY <1>5, RetryInv, Zenon
<1>6. CASE Requeue
  BY <1>6, RequeueInv
<1>7. CASE Remove("done") \/ Remove("fail")
  BY <1>7, RemoveInv
<1>8. CASE Stats
  BY <1>8, StatsInv
<1>9. CASE work_queue_free \/ work_queue_new
  BY <1>9, FreeInv
<1>10. CASE UNCHANGED vars
  BY <1>10 DEF Inv, TypeOK, Distinct, AtFront, NoLostWakeup, RetriesBounded,
              GranularityBounded, vars, run, stats
<1> QED BY <1>1, <1>2, <1>3, <1>4, <1>5, <1>6, <1>7, <1>8, <1>9, <1>10
       , Zenon DEF Next, work_queue_run, Return

(* Inv is an invariant of the work queue.                                  *)
LEMMA SpecInv == Spec => []Inv
BY InitInv, NextInv, PTL DEF Spec

(* NoLostWakeup: no order of work_queue_add, work_queue_plug and           *)
(* work_queue_unplug, between runs or inside the work function, leaves     *)
(* items in an open queue without a scheduled work_queue_run.              *)
THEOREM WakeupTheorem == Spec => []NoLostWakeup
<1>1. Inv => NoLostWakeup
  BY DEF Inv
<1> QED BY <1>1, SpecInv, PTL

(* PointersLive: node and nnode of work_queue_run never name an item that  *)
(* has left the list.                                                      *)
THEOREM PointersTheorem == Spec => []PointersLive
<1>1. Inv => PointersLive
  <2> SUFFICES ASSUME Inv PROVE PointersLive
    OBVIOUS
  <2>1. items \in Seq(Tasks) /\ DOMAIN items = 1 .. Len(items) /\ Len(items) \in Nat
    BY LenProperties DEF Inv, TypeOK
  <2>2. pc \in {"loop", "work"} /\ node # NULL => Queued(node)
    BY <2>1, InTurn DEF Queued
  <2>3. pc = "work" => node # NULL
    BY InTurn
  <2>4. pc = "work" /\ nnode # NULL => Queued(nnode) /\ nnode # node
    BY <2>1 DEF Inv, AtFront, Distinct, Queued
  <2> QED BY <2>2, <2>3, <2>4 DEF PointersLive
<1> QED BY <1>1, SpecInv, PTL

(* RetriesBounded: no mix of immediate and later retries runs an item more *)
(* than max_retries + 1 times.                                             *)
THEOREM RetriesTheorem == Spec => []RetriesBounded
<1>1. Inv => RetriesBounded
  BY DEF Inv
<1> QED BY <1>1, SpecInv, PTL

(* GranularityBounded: the granularity that work_queue_run computes is     *)
(* positive and within reach of the longest run.                           *)
THEOREM GranularityTheorem == Spec => []GranularityBounded
<1>1. Inv => GranularityBounded
  BY DEF Inv
<1> QED BY <1>1, SpecInv, PTL

-----------------------------------------------------------------------------
(* Refinement: the initial states.                                         *)
LEMMA RefinesInit == Init => TQ!Init
BY DEF Init, TQ!Init

(* Refinement: what the callbacks of work_queue_run do to the list.        *)
LEMMA RefinesRun ==
  ASSUME Inv, work_queue_run
  PROVE  TQ!Next \/ UNCHANGED TQ!vars
<1>1. CASE GiveUp
  <2>1. TQ!Fail
    BY <1>1, InTurn DEF GiveUp, TQ!Fail, TQ!Turn
  <2> QED BY <2>1 DEF TQ!Next
<1>2. CASE CallWork \/ RetryNow
  <2>1. (pc = "loop" /\ node # NULL) \/ pc = "work"
    BY <1>2 DEF CallWork, RetryNow
  <2>2. TQ!Work
    BY <1>2, <2>1, InTurn DEF CallWork, RetryNow, TQ!Work, TQ!Turn
  <2> QED BY <2>2 DEF TQ!Next
<1>3. CASE Later(TRUE) \/ Later(FALSE) \/ Requeue \/ Remove("done") \/ Remove("fail")
  <2>1. pc = "work"
    BY <1>3 DEF Later, Requeue, Remove
  <2>2. /\ items # <<>> /\ node = Head(items) /\ list_delete_node(items, node) = Tail(items)
        /\ call = <<"work", node>>
    BY <2>1, InTurn DEF Inv, AtFront
  <2>3. CASE Later(TRUE) \/ Later(FALSE)
    <3>1. TQ!Later
      BY <2>2, <2>3 DEF Later, TQ!Later, TQ!Worked, TQ!Turn
    <3> QED BY <3>1 DEF TQ!Next
  <2>4. CASE Requeue
    <3>1. TQ!Requeue
      BY <2>2, <2>4 DEF Requeue, TQ!Requeue, TQ!Worked, TQ!Turn
    <3> QED BY <3>1 DEF TQ!Next
  <2>5. CASE Remove("done")
    <3>1. TQ!Done
      BY <2>2, <2>5 DEF Remove, TQ!Done, TQ!Worked, TQ!Turn
    <3> QED BY <3>1 DEF TQ!Next
  <2>6. CASE Remove("fail")
    <3>1. TQ!Fail
      BY <2>2, <2>6 DEF Remove, TQ!Fail, TQ!Turn
    <3> QED BY <3>1 DEF TQ!Next
  <2> QED BY <1>3, <2>3, <2>4, <2>5, <2>6, Zenon
<1>4. CASE Start
  BY <1>4 DEF Start, TQ!vars
<1>5. CASE Stats
  BY <1>5 DEF Stats, TQ!Next, TQ!Complete, TQ!vars
<1> QED BY <1>1, <1>2, <1>3, <1>4, <1>5, Zenon DEF work_queue_run, Return

(* Refinement: every step is a step of TaskQueue or changes nothing there. *)
LEMMA RefinesNext == Inv /\ [Next]_vars => [TQ!Next]_(TQ!vars)
<1> SUFFICES ASSUME Inv, [Next]_vars PROVE [TQ!Next]_(TQ!vars)
  OBVIOUS
<1>1. CASE \E t \in Tasks : work_queue_add(t)
  BY <1>1 DEF work_queue_add, TQ!Next, TQ!Submit
<1>2. CASE work_queue_plug \/ work_queue_unplug \/ UNCHANGED vars
  BY <1>2, Zenon DEF work_queue_plug, work_queue_unplug, vars, TQ!vars
<1>3. CASE work_queue_free \/ work_queue_new
  BY <1>3 DEF work_queue_free, work_queue_new, TQ!Next, TQ!Abandon, TQ!vars
<1>4. CASE work_queue_run
  BY <1>4, RefinesRun
<1> QED BY <1>1, <1>2, <1>3, <1>4 DEF Next

(* Refines: the work queue of lib/workqueue.c, with its list pointers,     *)
(* retries, yields and rescheduling, makes its callbacks as a queue served *)
(* strictly in turn.                                                       *)
THEOREM RefinementTheorem == Spec => Refines
BY RefinesInit, RefinesNext, SpecInv, PTL DEF Spec, Refines, TQ!Spec

=============================================================================
