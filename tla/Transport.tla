------------------------------- MODULE Transport -------------------------------
(***************************************************************************)
(* One kind of request of the transport (transport.py): the caller's slots *)
(* and timeout, the inbox of the node, and its workers. The inbox is put   *)
(* into by callback threads and taken from by coroutines of the loop; one  *)
(* flag coalesces the wakeups. A request that the caller has given up may  *)
(* still arrive and be served.                                             *)
(***************************************************************************)
EXTENDS Naturals, FiniteSets, Sequences

CONSTANTS
  Requests,
  Workers,        \* 2 for ordinary requests, 1 for control and for data
  InboxCapacity,  \* 64, 16 and 2 in the code
  Slots           \* 32, 4 and 2 in the code

VARIABLES
  asked,     \* where the caller of each request is
  received,  \* the requests that reached the node
  inbox,     \* items
  notified,  \* notified
  waking,    \* event.set() scheduled on the loop, not run yet
  event,     \* event.is_set()
  worker,    \* _serve of each worker: looking, waiting, or the request served
  shut       \* closed

vars == <<asked, received, inbox, notified, waking, event, worker, shut>>

Ended == {"answered", "refused", "unsent", "timeout"}

TypeOK ==
  /\ asked \in [Requests -> {"new", "slot", "sent"} \cup Ended]
  /\ received \subseteq Requests
  /\ inbox \in Seq(Requests) /\ Len(inbox) <= InboxCapacity
  /\ {notified, waking, event, shut} \subseteq BOOLEAN
  /\ worker \in [Workers -> Requests \cup {"look", "wait", "cancelled"}]

Init ==
  /\ asked = [r \in Requests |-> "new"] /\ received = {}
  /\ inbox = <<>> /\ notified = FALSE /\ waking = FALSE /\ event = FALSE
  /\ worker = [w \in Workers |-> "look"] /\ shut = FALSE

-------------------------------------------------------------------------------
(* _request: the timeout covers the wait for a slot.                       *)

Ask(r) ==
  /\ asked[r] = "new" /\ asked' = [asked EXCEPT ![r] = "slot"]
  /\ UNCHANGED <<received, inbox, notified, waking, event, worker, shut>>
Send(r) ==
  /\ asked[r] = "slot" /\ Cardinality({q \in Requests : asked[q] = "sent"}) < Slots
  /\ asked' = [asked EXCEPT ![r] = "sent"]
  /\ UNCHANGED <<received, inbox, notified, waking, event, worker, shut>>
Timeout(r) ==
  /\ asked[r] \in {"slot", "sent"}
  /\ asked' = [asked EXCEPT ![r] = IF @ = "slot" THEN "unsent" ELSE "timeout"]
  /\ UNCHANGED <<received, inbox, notified, waking, event, worker, shut>>

\* A reply counts while the caller waits for it.
Replied(r, how) == IF asked[r] = "sent" THEN [asked EXCEPT ![r] = how] ELSE asked

-------------------------------------------------------------------------------
(* Inbox.                                                                  *)

\* receive, put: on a callback thread.
Full == Len(inbox) >= InboxCapacity
Put(r) ==
  /\ asked[r] \in {"sent", "timeout"} /\ r \notin received
  /\ received' = received \cup {r}
  /\ IF shut \/ Full
     THEN /\ asked' = Replied(r, "refused") /\ UNCHANGED <<inbox, notified, waking>>
     ELSE /\ inbox' = Append(inbox, r)
          /\ notified' = TRUE
          /\ waking' = (waking \/ ~notified)
          /\ UNCHANGED asked
  /\ UNCHANGED <<event, worker, shut>>

Wake == waking /\ waking' = FALSE /\ event' = TRUE
        /\ UNCHANGED <<asked, received, inbox, notified, worker, shut>>

\* get: look and clear under the lock that put holds.
\* Fault: the flag is reset by the wakeup that follows, not under the lock.
Quiet_later == event' = FALSE /\ UNCHANGED notified
Quiet == event' = FALSE /\ notified' = FALSE
Look(w) ==
  /\ worker[w] = "look"
  /\ IF inbox # <<>>
     THEN /\ worker' = [worker EXCEPT ![w] = Head(inbox)]
          /\ inbox' = Tail(inbox)
          /\ UNCHANGED <<notified, event>>
     ELSE /\ Quiet
          /\ worker' = [worker EXCEPT ![w] = "wait"]
          /\ UNCHANGED inbox
  /\ UNCHANGED <<asked, received, waking, shut>>
Resume(w) ==
  /\ worker[w] = "wait" /\ event /\ worker' = [worker EXCEPT ![w] = "look"]
  /\ UNCHANGED <<asked, received, inbox, notified, waking, event, shut>>

\* _serve: the handler, or an error, is replied.
Serve(w) ==
  /\ worker[w] \in Requests
  /\ asked' = Replied(worker[w], "answered")
  /\ worker' = [worker EXCEPT ![w] = "look"]
  /\ UNCHANGED <<received, inbox, notified, waking, event, shut>>

Close ==
  /\ ~shut /\ shut' = TRUE /\ inbox' = <<>>
  /\ worker' = [w \in Workers |-> "cancelled"]
  /\ UNCHANGED <<asked, received, notified, waking, event>>

Next ==
  \/ \E r \in Requests : Ask(r) \/ Send(r) \/ Timeout(r) \/ Put(r)
  \/ \E w \in Workers : Look(w) \/ Resume(w) \/ Serve(w)
  \/ Wake \/ Close

Spec == Init /\ [][Next]_vars

-------------------------------------------------------------------------------
\* While a request is queued no worker sleeps without a wakeup on its way:
\* whatever the callback threads do between a worker's look at the empty queue
\* and its wait, and however many requests one wakeup stands for
\* (transport.py, Inbox).
NoLostWakeup ==
  inbox # <<>> /\ (\E w \in Workers : worker[w] = "wait") => event \/ waking
===============================================================================
