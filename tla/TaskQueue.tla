----------------------------- MODULE TaskQueue -----------------------------
(***************************************************************************)
(* What a work queue of lib/workqueue.h promises to the daemon that uses   *)
(* it, in terms of the callbacks it makes: tasks are worked on in the      *)
(* order in which they were added, one that asks for it goes to the end,   *)
(* a task leaves a queue that is not given up only when it is next in turn *)
(* and is handed to the work function before it is reported done, and      *)
(* completion is reported only when nothing waits.                         *)
(***************************************************************************)
EXTENDS Sequences

CONSTANTS Tasks, NULL

VARIABLES
  pending,   \* tasks that wait, in order
  call       \* the callback made last: what it means and for which task

vars == <<pending, call>>

Turn == Head(pending)

\* The task in turn has been handed to the work function.
Worked == pending # <<>> /\ call = <<"work", Turn>>

Submit(t) ==
  /\ pending' = Append(pending, t)
  /\ UNCHANGED call

Work ==
  /\ pending # <<>>
  /\ call' = <<"work", Turn>>
  /\ UNCHANGED pending

Done ==
  /\ Worked
  /\ call' = <<"done", Turn>>
  /\ pending' = Tail(pending)

\* The error handler, for a task that failed or has run too often.
Fail ==
  /\ pending # <<>>
  /\ call' = <<"fail", Turn>>
  /\ pending' = Tail(pending)

Requeue ==
  /\ Worked
  /\ call' = <<"requeue", Turn>>
  /\ pending' = Append(Tail(pending), Turn)

Later ==
  /\ Worked
  /\ call' = <<"later", Turn>>
  /\ UNCHANGED pending

Complete ==
  /\ pending = <<>>
  /\ call' = <<"complete", NULL>>
  /\ UNCHANGED pending

\* The owner gives the queue up.
Abandon ==
  /\ pending' = <<>>
  /\ UNCHANGED call

Init ==
  /\ pending = <<>>
  /\ call = <<"none", NULL>>

Next ==
  \/ \E t \in Tasks : Submit(t)
  \/ Work
  \/ Done
  \/ Fail
  \/ Requeue
  \/ Later
  \/ Complete
  \/ Abandon

Spec == Init /\ [][Next]_vars

=============================================================================
