----------------------------- MODULE NodeLifecycle -----------------------------
(***************************************************************************)
(* The life of a node (nodes/node.py _serve, instance_lock.py): processes  *)
(* of one node compete for its lock; the one that has it opens a session,  *)
(* acquires resources one by one and registers how to close each; whatever *)
(* ends it, they are closed in reverse, then the session, then the lock. A *)
(* callback that raises does not keep the others from running; whether the *)
(* resource it was for has really stopped is that resource's own matter.   *)
(***************************************************************************)
EXTENDS Naturals, Sequences

CONSTANTS
  Instances,      \* processes of the node
  Free,           \* the lock is free
  ActionService,  \* the node must have an executor
  MaxResources    \* bound: resources a setup acquires

VARIABLES
  pc,         \* of each process
  lock,       \* whose the lock is
  session,    \* processes with an open transport
  open,       \* _cleanup: the resources to close, in the order acquired
  failure,    \* a background task has failed: _failure
  done,       \* _done is set
  announced   \* processes that others can discover

vars == <<pc, lock, session, open, failure, done, announced>>

Kinds == {"task", "executor", "directory"}

TypeOK ==
  /\ pc \in [Instances -> {"new", "opening", "setup", "serving", "teardown", "unwinding", "ended"}]
  /\ lock \in Instances \cup {Free}
  /\ session \subseteq Instances /\ announced \subseteq Instances
  /\ \A i \in Instances : open[i] \in Seq(Kinds) /\ Len(open[i]) <= MaxResources
  /\ failure \in [Instances -> BOOLEAN] /\ done \in [Instances -> BOOLEAN]

Init ==
  /\ pc = [i \in Instances |-> "new"] /\ lock = Free
  /\ session = {} /\ open = [i \in Instances |-> <<>>]
  /\ failure = [i \in Instances |-> FALSE] /\ done = [i \in Instances |-> FALSE]
  /\ announced = {}

Moves(i, from, to) == pc[i] = from /\ pc' = [pc EXCEPT ![i] = to]
Has(i, kind) == \E k \in DOMAIN open[i] : open[i][k] = kind

-------------------------------------------------------------------------------
\* InstanceLock: whoever comes second ends at once.
Lock(i) ==
  /\ IF lock = Free THEN Moves(i, "new", "opening") /\ lock' = i
     ELSE Moves(i, "new", "ended") /\ UNCHANGED lock
  /\ UNCHANGED <<session, open, failure, done, announced>>

\* The transport opens, or raises.
Open(i) ==
  /\ \/ Moves(i, "opening", "setup") /\ session' = session \cup {i}
     \/ Moves(i, "opening", "unwinding") /\ UNCHANGED session
  /\ UNCHANGED <<lock, open, failure, done, announced>>

\* setup acquires a resource with its callback: spawn, actions or discover.
Acquire(i, kind) ==
  /\ pc[i] = "setup" /\ Len(open[i]) < MaxResources
  /\ kind = "task" \/ ~Has(i, kind)
  /\ open' = [open EXCEPT ![i] = Append(@, kind)]
  /\ UNCHANGED <<pc, lock, session, failure, done, announced>>

\* setup ends: the node is announced, unless something is amiss.
SetUp(i) ==
  /\ IF (ActionService => Has(i, "executor")) /\ ~failure[i]
     THEN Moves(i, "setup", "serving") /\ announced' = announced \cup {i}
     ELSE Moves(i, "setup", "teardown") /\ UNCHANGED announced
  /\ UNCHANGED <<lock, session, open, failure, done>>

\* An exception, or the process is told to end, at any of its waits.
Interrupted(i) ==
  /\ \/ Moves(i, "setup", "teardown") \/ Moves(i, "serving", "teardown")
     \/ Moves(i, "opening", "unwinding")
  /\ UNCHANGED <<lock, session, open, failure, done, announced>>

\* completed: a task that raised ends the node.
TaskFails(i) ==
  /\ pc[i] \in {"setup", "serving", "teardown", "unwinding"} /\ Has(i, "task") /\ ~failure[i]
  /\ failure' = [failure EXCEPT ![i] = TRUE] /\ done' = [done EXCEPT ![i] = TRUE]
  /\ UNCHANGED <<pc, lock, session, open, announced>>
Shutdown(i) ==
  /\ i \in announced /\ ~done[i] /\ done' = [done EXCEPT ![i] = TRUE]
  /\ UNCHANGED <<pc, lock, session, open, failure, announced>>
Done(i) ==
  /\ done[i] /\ Moves(i, "serving", "teardown")
  /\ UNCHANGED <<lock, session, open, failure, done, announced>>

\* teardown of the node; what it raises does not matter here.
TearDown(i) ==
  /\ Moves(i, "teardown", "unwinding")
  /\ UNCHANGED <<lock, session, open, failure, done, announced>>

\* The callbacks, the last acquired first.
CloseLast(i) ==
  /\ pc[i] = "unwinding" /\ open[i] # <<>>
  /\ open' = [open EXCEPT ![i] = SubSeq(@, 1, Len(@) - 1)]
  /\ UNCHANGED <<pc, lock, session, failure, done, announced>>
CloseSession(i) ==
  /\ pc[i] = "unwinding" /\ open[i] = <<>> /\ i \in session
  /\ session' = session \ {i} /\ announced' = announced \ {i}
  /\ UNCHANGED <<pc, lock, open, failure, done>>

\* Fault: the lock is acquired, and so released, inside the session.
Unwound_inside(i) == open[i] = <<>>
Unwound(i) == open[i] = <<>> /\ i \notin session
Unlock(i) ==
  /\ Unwound(i) /\ lock = i
  /\ Moves(i, "unwinding", "ended") /\ lock' = Free
  /\ UNCHANGED <<session, open, failure, done, announced>>

\* The system takes everything back from a process that dies.
Crash(i) ==
  /\ lock = i /\ lock' = Free /\ pc' = [pc EXCEPT ![i] = "ended"]
  /\ open' = [open EXCEPT ![i] = <<>>]
  /\ session' = session \ {i} /\ announced' = announced \ {i}
  /\ UNCHANGED <<failure, done>>

Next ==
  \E i \in Instances :
    \/ Lock(i) \/ Open(i) \/ SetUp(i) \/ Interrupted(i)
    \/ \E kind \in Kinds : Acquire(i, kind)
    \/ TaskFails(i) \/ Shutdown(i) \/ Done(i) \/ TearDown(i)
    \/ CloseLast(i) \/ CloseSession(i) \/ Unlock(i) \/ Crash(i)

Spec == Init /\ [][Next]_vars

-------------------------------------------------------------------------------
\* Whatever interrupts a node while it starts, serves or ends, only the holder
\* of the lock has a session, a journal or a task open, no resource outlives
\* the session it was opened over, and a process that has ended has none left:
\* the next process of the node never meets the one before (node.py, _serve).
OneOwner ==
  \A i \in Instances :
    /\ i \in session \/ open[i] # <<>> => lock = i
    /\ open[i] # <<>> \/ i \in announced => i \in session
    /\ pc[i] = "ended" => lock # i /\ i \notin announced
===============================================================================
