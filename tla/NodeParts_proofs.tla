--------------------------- MODULE NodeParts_proofs ---------------------------
(***************************************************************************)
(* Inductive invariants of the parts of Nodes, each for any value of its   *)
(* constants: the inbox, the lifecycle of a node, the launcher, a reply of *)
(* the planner, the order of a plan, the camera's stream, the detector's   *)
(* results, the plan cache, the stops of the voice nodes, the handles of   *)
(* an action and of a task, and the backends: speech, jaw, mock world,     *)
(* virtual model and grasps, arm. Nodes_proofs puts them together.         *)
(***************************************************************************)
EXTENDS Nodes, Integers, FiniteSets, SequenceTheorems, WellFoundedInduction, TLAPS

(***************************************************************************)
(* Transport.                                                              *)
(***************************************************************************)

\* The inbox is a queue of requests; while it holds any, a wakeup has been asked
\* for since the last look at an empty inbox; and what was asked for is on its way
\* or has set the event.
WakeInv ==
  /\ inbox \in Seq(Requests)
  /\ {notified, waking, event} \subseteq BOOLEAN
  /\ inbox # <<>> => notified
  /\ notified => event \/ waking

\* Nothing was asked.
LEMMA WakeInit == Inbox!Init => WakeInv
<1> SUFFICES ASSUME Inbox!Init PROVE WakeInv
  OBVIOUS
<1>1. inbox = <<>> /\ notified = FALSE /\ waking = FALSE /\ event = FALSE
  BY DEF Inbox!Init
<1>2. inbox \in Seq(Requests)
  BY <1>1, EmptySeq
<1>3. {notified, waking, event} \subseteq BOOLEAN
  BY <1>1
<1> QED
  BY <1>1, <1>2, <1>3 DEF WakeInv

\* Every action on the inbox keeps it.
LEMMA WakeStep ==
  ASSUME WakeInv, [Inbox!Next]_Inbox!vars
  PROVE  WakeInv'
<1> USE DEF WakeInv
<1>1. ASSUME NEW r \in Requests, Inbox!Ask(r) \/ Inbox!Send(r) \/ Inbox!Timeout(r) PROVE WakeInv'
  BY <1>1 DEF Inbox!Ask, Inbox!Send, Inbox!Timeout
<1>2. ASSUME NEW r \in Requests, Inbox!Put(r) PROVE WakeInv'
  <2>1. CASE UNCHANGED <<inbox, notified, waking>>
    BY <1>2, <2>1 DEF Inbox!Put
  <2>2. CASE /\ inbox' = Append(inbox, r)
             /\ notified' = TRUE
             /\ waking' = (waking \/ ~notified)
    <3>1. waking' \in BOOLEAN /\ notified' = TRUE /\ event' = event
      BY <1>2, <2>2 DEF Inbox!Put
    <3>2. event' \/ waking'
      BY <1>2, <2>2 DEF Inbox!Put
    <3>3. inbox' \in Seq(Requests)
      BY <2>2
    <3> QED
      BY <3>1, <3>2, <3>3
  <2> QED
    BY <1>2, <2>1, <2>2 DEF Inbox!Put
<1>3. ASSUME NEW w \in Workers, Inbox!Look(w) PROVE WakeInv'
  <2>1. CASE inbox # <<>>
    <3>1. inbox' = Tail(inbox) /\ UNCHANGED <<notified, event, waking>>
      BY <1>3, <2>1 DEF Inbox!Look
    <3>2. Tail(inbox) \in Seq(Requests)
      BY <2>1
    <3> QED
      BY <2>1, <3>1, <3>2
  <2>2. CASE inbox = <<>>
    BY <1>3, <2>2 DEF Inbox!Look, Inbox!Quiet
  <2> QED
    BY <2>1, <2>2
<1>4. ASSUME NEW w \in Workers, Inbox!Resume(w) \/ Inbox!Serve(w) PROVE WakeInv'
  BY <1>4 DEF Inbox!Resume, Inbox!Serve
<1>5. CASE Inbox!Wake
  BY <1>5 DEF Inbox!Wake
<1>6. CASE Inbox!Close
  BY <1>6 DEF Inbox!Close
<1>7. CASE UNCHANGED Inbox!vars
  BY <1>7 DEF Inbox!vars
<1> QED
  BY <1>1, <1>2, <1>3, <1>4, <1>5, <1>6, <1>7 DEF Inbox!Next

\* What the callers, the queue and the workers are.
LEMMA InboxTypesInit == Inbox!Init => Inbox!TypeOK
<1> SUFFICES ASSUME Inbox!Init PROVE Inbox!TypeOK
  OBVIOUS
<1>1. inbox \in Seq(Requests) /\ Len(inbox) <= InboxCapacity
  <2>1. inbox = <<>>
    BY DEF Inbox!Init
  <2>2. inbox \in Seq(Requests) /\ Len(inbox) = 0
    BY <2>1, EmptySeq
  <2> QED
    BY <2>2, NodesAssumption
<1>2. {notified, waking, event, shut} \subseteq BOOLEAN
  BY DEF Inbox!Init
<1> QED
  BY <1>1, <1>2 DEF Inbox!Init, Inbox!TypeOK, Inbox!Ended

LEMMA InboxTypesStep ==
  ASSUME Inbox!TypeOK, [Inbox!Next]_Inbox!vars
  PROVE  Inbox!TypeOK'
<1> DEFINE Askings == {"new", "slot", "sent"} \cup Inbox!Ended
           Works == Requests \cup {"look", "wait", "cancelled"}
<1>1. /\ asked \in [Requests -> Askings] /\ received \subseteq Requests
      /\ inbox \in Seq(Requests) /\ Len(inbox) <= InboxCapacity /\ Len(inbox) \in Nat
      /\ {notified, waking, event, shut} \subseteq BOOLEAN
      /\ worker \in [Workers -> Works] /\ InboxCapacity \in Nat
  BY NodesAssumption, LenProperties DEF Inbox!TypeOK
<1>2. ASSUME asked' \in [Requests -> Askings], received' \subseteq Requests,
             inbox' \in Seq(Requests), Len(inbox') <= InboxCapacity,
             {notified', waking', event', shut'} \subseteq BOOLEAN,
             worker' \in [Workers -> Works]
      PROVE  Inbox!TypeOK'
  BY <1>2 DEF Inbox!TypeOK
<1>3. {"refused", "answered", "unsent", "timeout", "slot", "sent"} \subseteq Askings
  BY DEF Inbox!Ended
<1>4. {"look", "wait", "cancelled"} \cup Requests \subseteq Works
  OBVIOUS
<1> HIDE DEF Askings, Works
<1>5. ASSUME NEW r \in Requests, Inbox!Ask(r) \/ Inbox!Send(r) \/ Inbox!Timeout(r)
      PROVE  Inbox!TypeOK'
  <2>1. \E a \in Askings : asked' = [asked EXCEPT ![r] = a]
    BY <1>3, <1>5 DEF Inbox!Ask, Inbox!Send, Inbox!Timeout
  <2>2. asked' \in [Requests -> Askings]
    BY <1>1, <2>1
  <2>3. UNCHANGED <<received, inbox, notified, waking, event, worker, shut>>
    BY <1>5 DEF Inbox!Ask, Inbox!Send, Inbox!Timeout
  <2> QED
    BY <1>1, <1>2, <2>2, <2>3
<1>6. ASSUME NEW r \in Requests, NEW how \in {"refused", "answered"}
      PROVE  Inbox!Replied(r, how) \in [Requests -> Askings]
  BY <1>1, <1>3, <1>6 DEF Inbox!Replied
<1>7. ASSUME NEW r \in Requests, Inbox!Put(r) PROVE Inbox!TypeOK'
  <2>1. received' \subseteq Requests /\ UNCHANGED <<event, worker, shut>>
    BY <1>1, <1>7 DEF Inbox!Put
  <2>2. CASE shut \/ Inbox!Full
    <3>1. asked' = Inbox!Replied(r, "refused") /\ UNCHANGED <<inbox, notified, waking>>
      BY <1>7, <2>2 DEF Inbox!Put
    <3> QED
      BY <1>1, <1>2, <1>6, <2>1, <3>1
  <2>3. CASE ~(shut \/ Inbox!Full)
    <3>1. /\ inbox' = Append(inbox, r) /\ UNCHANGED asked
          /\ notified' = TRUE /\ waking' = (waking \/ ~notified)
      BY <1>7, <2>3 DEF Inbox!Put
    <3>2. Len(inbox) < InboxCapacity
      BY <1>1, <2>3 DEF Inbox!Full
    <3>3. inbox' \in Seq(Requests) /\ Len(inbox') <= InboxCapacity
      BY <1>1, <3>1, <3>2, AppendProperties
    <3>4. {notified', waking', event', shut'} \subseteq BOOLEAN
      BY <1>1, <2>1, <3>1
    <3> QED
      BY <1>1, <1>2, <2>1, <3>1, <3>3, <3>4
  <2> QED
    BY <2>2, <2>3
<1>8. ASSUME NEW w \in Workers, Inbox!Look(w) PROVE Inbox!TypeOK'
  <2>1. UNCHANGED <<asked, received, waking, shut>>
    BY <1>8 DEF Inbox!Look
  <2>2. CASE inbox # <<>>
    <3>1. /\ worker' = [worker EXCEPT ![w] = Head(inbox)] /\ inbox' = Tail(inbox)
          /\ UNCHANGED <<notified, event>>
      BY <1>8, <2>2 DEF Inbox!Look
    <3>2. Head(inbox) \in Requests /\ inbox' \in Seq(Requests) /\ Len(inbox') <= InboxCapacity
      BY <1>1, <2>2, <3>1, HeadTailProperties
    <3>3. worker' \in [Workers -> Works]
      BY <1>1, <1>4, <3>1, <3>2
    <3> QED
      BY <1>1, <1>2, <2>1, <3>1, <3>2, <3>3
  <2>3. CASE inbox = <<>>
    <3>1. /\ event' = FALSE /\ notified' = FALSE /\ UNCHANGED inbox
          /\ worker' = [worker EXCEPT ![w] = "wait"]
      BY <1>8, <2>3 DEF Inbox!Look, Inbox!Quiet
    <3>2. worker' \in [Workers -> Works]
      BY <1>1, <1>4, <3>1
    <3>3. {notified', waking', event', shut'} \subseteq BOOLEAN
      BY <1>1, <2>1, <3>1
    <3> QED
      BY <1>1, <1>2, <2>1, <3>1, <3>2, <3>3
  <2> QED
    BY <2>2, <2>3
<1>9. ASSUME NEW w \in Workers, Inbox!Resume(w) PROVE Inbox!TypeOK'
  <2>1. worker' \in [Workers -> Works]
    BY <1>1, <1>4, <1>9 DEF Inbox!Resume
  <2> QED
    BY <1>1, <1>2, <1>9, <2>1 DEF Inbox!Resume
<1>10. ASSUME NEW w \in Workers, Inbox!Serve(w) PROVE Inbox!TypeOK'
  <2>1. worker' \in [Workers -> Works]
    BY <1>1, <1>4, <1>10 DEF Inbox!Serve
  <2>2. asked' \in [Requests -> Askings]
    BY <1>6, <1>10 DEF Inbox!Serve
  <2> QED
    BY <1>1, <1>2, <1>10, <2>1, <2>2 DEF Inbox!Serve
<1>11. CASE Inbox!Wake
  <2>1. {notified', waking', event', shut'} \subseteq BOOLEAN
    BY <1>1, <1>11 DEF Inbox!Wake
  <2> QED
    BY <1>1, <1>2, <1>11, <2>1 DEF Inbox!Wake
<1>12. CASE Inbox!Close
  <2>1. {notified', waking', event', shut'} \subseteq BOOLEAN
    BY <1>1, <1>12 DEF Inbox!Close
  <2>2. inbox' \in Seq(Requests) /\ Len(inbox') <= InboxCapacity
    <3>1. inbox' = <<>>
      BY <1>12 DEF Inbox!Close
    <3> QED
      BY <1>1, <3>1, EmptySeq
  <2>3. worker' \in [Workers -> Works]
    BY <1>4, <1>12 DEF Inbox!Close
  <2> QED
    BY <1>1, <1>2, <1>12, <2>1, <2>2, <2>3 DEF Inbox!Close
<1>13. CASE UNCHANGED Inbox!vars
  BY <1>1, <1>2, <1>13 DEF Inbox!vars
<1> QED
  BY <1>5, <1>7, <1>8, <1>9, <1>10, <1>11, <1>12, <1>13 DEF Inbox!Next

-------------------------------------------------------------------------------
(***************************************************************************)
(* NodeLifecycle.                                                          *)
(***************************************************************************)

\* The process that has the lock is the one between the lock and the end; it has
\* a session from its opening to the end of the unwinding, and resources and an
\* announcement only with the session.
LifeInv ==
  /\ Life!TypeOK /\ cleanup \in [Instances -> Seq(Life!Kinds)]
  /\ \A i \in Instances :
       /\ lock = i <=> pc[i] \notin {"new", "ended"}
       /\ pc[i] \in {"setup", "serving", "teardown"} => i \in session
       /\ i \in session => pc[i] \in {"setup", "serving", "teardown", "unwinding"}
       /\ cleanup[i] # <<>> \/ i \in announced => i \in session

\* No instance has begun.
LEMMA LifeInit == Life!Init => LifeInv
BY NodesAssumption DEF Life!Init, LifeInv, Life!TypeOK

\* Every action of an instance keeps the lock with it.
LEMMA LifeStep ==
  ASSUME LifeInv, [Life!Next]_Life!vars
  PROVE  LifeInv'
<1> USE NodesAssumption DEF LifeInv, Life!TypeOK, Life!Moves, Life!Kinds
<1>1. ASSUME NEW i \in Instances, Life!Lock(i) PROVE LifeInv'
  BY <1>1 DEF Life!Lock
<1>2. ASSUME NEW i \in Instances, Life!Open(i) PROVE LifeInv'
  BY <1>2 DEF Life!Open
<1>3. ASSUME NEW i \in Instances, NEW kind \in Life!Kinds, Life!Acquire(i, kind) PROVE LifeInv'
  BY <1>3 DEF Life!Acquire
<1>4. ASSUME NEW i \in Instances, Life!SetUp(i) PROVE LifeInv'
  BY <1>4 DEF Life!SetUp
<1>5. ASSUME NEW i \in Instances, Life!Interrupted(i) \/ Life!Done(i) \/ Life!TearDown(i)
      PROVE LifeInv'
  BY <1>5 DEF Life!Interrupted, Life!Done, Life!TearDown
<1>6. ASSUME NEW i \in Instances, Life!TaskFails(i) \/ Life!Shutdown(i) PROVE LifeInv'
  BY <1>6 DEF Life!TaskFails, Life!Shutdown
<1>7. ASSUME NEW i \in Instances, Life!CloseLast(i) PROVE LifeInv'
  BY <1>7 DEF Life!CloseLast
<1>8. ASSUME NEW i \in Instances, Life!CloseSession(i) PROVE LifeInv'
  BY <1>8 DEF Life!CloseSession
<1>9. ASSUME NEW i \in Instances, Life!Unlock(i) PROVE LifeInv'
  BY <1>9 DEF Life!Unlock, Life!Unwound
<1>10. ASSUME NEW i \in Instances, Life!Crash(i) PROVE LifeInv'
  BY <1>10 DEF Life!Crash
<1>11. CASE UNCHANGED Life!vars
  BY <1>11 DEF Life!vars
<1> QED
  BY <1>1, <1>2, <1>3, <1>4, <1>5, <1>6, <1>7, <1>8, <1>9, <1>10, <1>11 DEF Life!Next

\* Life!OneOwner is part of it.
LEMMA LifeOneOwner == LifeInv => Life!OneOwner
BY DEF LifeInv, Life!OneOwner

-------------------------------------------------------------------------------
(***************************************************************************)
(* LocalStack.                                                             *)
(***************************************************************************)

\* Nodes are started in order, and only once the router runs; the reaper begins
\* when nothing is started any more but the router, and has dealt with the
\* processes above the one it is at.
StackTypes ==
  /\ launcher \in {"router", "spawning", "waiting", "up", "leaving", "reaping", "gone"}
  /\ starter \in {"checking", "polling", "ready", "failed"}
  /\ reaper \in {"idle", "next", "waiting", "terminated", "ended"}
  /\ proc \in [Stack!Processes -> {"none", "running", "exited"}]
  /\ spawned \in 0..Started /\ next \in 0..(Started + 1)
  /\ signalled \subseteq Stack!Processes
NodesReaped == \A p \in Stack!Processes \ {0} : proc[p] # "running"
StackOrder ==
  /\ StackTypes
  /\ \A p \in Stack!Processes \ {0} : proc[p] = "none" <=> p > spawned
  /\ starter = "checking" => proc[0] = "none"
  /\ starter \in {"polling", "ready"} => proc[0] # "none"
  /\ spawned > 0 \/ launcher \in {"spawning", "waiting", "up", "leaving"} => starter = "ready"
  /\ reaper # "idle" => launcher \in {"reaping", "gone"}
  /\ reaper \in {"next", "waiting", "terminated"} =>
       /\ proc[0] # "none" /\ next <= spawned
       /\ \A p \in Stack!Processes \ {0} : p > next => proc[p] # "running"
  /\ reaper = "ended" => NodesReaped
  /\ 0 \in signalled =>
       /\ reaper \in {"waiting", "terminated", "ended"} /\ (reaper # "ended" => next = 0)
       /\ NodesReaped

\* A router that runs when the reaper has ended was started after it had begun.
StackLate == late \in BOOLEAN /\ (reaper = "ended" /\ proc[0] = "running" => late)

StackInv == StackOrder /\ StackLate

\* A launcher that has not begun has no node.
LEMMA StackInit == Stack!Init => StackInv
<1> SUFFICES ASSUME Stack!Init PROVE StackInv
  OBVIOUS
<1>1. StackOrder
  BY NodesAssumption DEF Stack!Init, StackOrder, StackTypes, NodesReaped, Stack!Processes
<1>2. StackLate
  BY DEF Stack!Init, StackLate
<1> QED
  BY <1>1, <1>2 DEF StackInv

\* The launcher starts and reaps its nodes one by one.
LEMMA StackOrderStep ==
  ASSUME StackOrder, [Stack!Next]_Stack!vars
  PROVE  StackOrder'
<1> USE NodesAssumption DEF StackOrder, StackTypes, NodesReaped, Stack!Processes
<1>1. CASE Stack!StartFails \/ Stack!Polled
  BY <1>1 DEF Stack!StartFails, Stack!Polled
<1>2. CASE Stack!StartRouter
  <2>1. starter = "checking" /\ starter' = "polling" /\ proc' = [proc EXCEPT ![0] = "running"]
        /\ UNCHANGED <<launcher, reaper, spawned, next, signalled>>
    BY <1>2 DEF Stack!StartRouter
  <2> QED
    BY <2>1
<1>3. CASE Stack!Connect
  BY <1>3 DEF Stack!Connect
<1>4. CASE Stack!Spawned \/ Stack!Disconnect \/ Stack!Gone
  BY <1>4 DEF Stack!Spawned, Stack!Disconnect, Stack!Gone
<1>5. CASE Stack!Ready \/ Stack!Cancelled
  <2>1. /\ launcher' \in {"up", "leaving", "reaping"} /\ next' \in {next, spawned}
        /\ UNCHANGED <<starter, reaper, proc, spawned, signalled>>
        /\ launcher \in {"router", "waiting", "up"}
        /\ launcher' # "reaping" => launcher # "router"
    BY <1>5 DEF Stack!Ready, Stack!Cancelled, Stack!Leave
  <2> QED
    BY <2>1
<1>6. CASE Stack!SpawnNode
  BY <1>6 DEF Stack!SpawnNode, Stack!Leave
<1>7. CASE Stack!AskShutdown
  BY <1>7 DEF Stack!AskShutdown
<1>8. CASE Stack!Reap
  BY <1>8 DEF Stack!Reap
<1>9. CASE Stack!ReapNext
  <2>1. reaper = "next" /\ UNCHANGED <<launcher, starter, proc, spawned>>
    BY <1>9 DEF Stack!ReapNext
  <2>2. CASE /\ proc[next] = "exited" /\ UNCHANGED signalled
             /\ reaper' = IF next = 0 THEN "ended" ELSE "next"
             /\ next' = IF next = 0 THEN 0 ELSE next - 1
    BY <2>1, <2>2
  <2>3. CASE /\ proc[next] # "exited" /\ reaper' = "waiting" /\ UNCHANGED next
             /\ signalled' = IF next = 0 THEN signalled \cup {0} ELSE signalled
    BY <2>1, <2>3
  <2> QED
    BY <1>9, <2>2, <2>3 DEF Stack!ReapNext, Stack!Reaped
<1>10. CASE Stack!Terminate
  <2>1. reaper = "waiting" /\ UNCHANGED <<launcher, starter, proc, spawned>>
    BY <1>10 DEF Stack!Terminate
  <2>2. CASE /\ proc[next] = "running" /\ reaper' = "terminated" /\ UNCHANGED next
             /\ signalled' = signalled \cup {next}
    BY <2>1, <2>2
  <2>3. CASE /\ proc[next] # "running" /\ UNCHANGED signalled
             /\ reaper' = IF next = 0 THEN "ended" ELSE "next"
             /\ next' = IF next = 0 THEN 0 ELSE next - 1
    BY <2>1, <2>3
  <2> QED
    BY <1>10, <2>2, <2>3 DEF Stack!Terminate, Stack!Outwaits, Stack!Reaped
<1>11. CASE Stack!Kill
  BY <1>11 DEF Stack!Kill, Stack!Reaped
<1>12. ASSUME NEW p \in Stack!Processes, Stack!Exit(p) PROVE StackOrder'
  BY <1>12 DEF Stack!Exit
<1>13. CASE UNCHANGED Stack!vars
  BY <1>13 DEF Stack!vars
<1> QED
  BY <1>1, <1>2, <1>3, <1>4, <1>5, <1>6, <1>7, <1>8, <1>9, <1>10, <1>11, <1>12, <1>13
  DEF Stack!Next

\* A router that outlives its launcher was started too late to be reaped.
LEMMA StackLateStep ==
  ASSUME StackOrder, StackLate, [Stack!Next]_Stack!vars
  PROVE  StackLate'
<1>1. CASE Stack!StartRouter
  BY <1>1 DEF Stack!StartRouter, StackLate, StackOrder
<1>2. CASE Stack!Reap
  BY <1>2 DEF Stack!Reap, StackLate, StackOrder, StackTypes, Stack!Processes
<1>3. CASE Stack!ReapNext
  <2>1. reaper' = "ended" => next = 0 /\ proc[next] = "exited"
    BY <1>3 DEF Stack!ReapNext, Stack!Reaped
  <2> QED
    BY <1>3, <2>1 DEF Stack!ReapNext, StackLate
<1>4. CASE Stack!Terminate
  <2>1. reaper' = "ended" => next = 0 /\ proc[next] # "running"
    BY <1>4 DEF Stack!Terminate, Stack!Reaped, Stack!Outwaits
  <2> QED
    BY <1>4, <2>1 DEF Stack!Terminate, StackLate
<1>5. CASE Stack!Kill
  <2>1. reaper' = "ended" => next = 0 /\ proc' = [proc EXCEPT ![0] = "exited"]
    BY <1>5 DEF Stack!Kill, Stack!Reaped
  <2>2. reaper' = "ended" => proc'[0] # "running"
    BY <2>1, NodesAssumption DEF StackOrder, StackTypes, Stack!Processes
  <2> QED
    BY <1>5, <2>2 DEF Stack!Kill, StackLate
<1>6. ASSUME NEW p \in Stack!Processes, Stack!Exit(p) PROVE StackLate'
  <2>1. proc'[0] = "running" => proc[0] = "running"
    BY <1>6 DEF Stack!Exit, StackOrder, StackTypes
  <2> QED
    BY <1>6, <2>1 DEF Stack!Exit, StackLate
<1>7. CASE Stack!SpawnNode
  <2>1. reaper # "ended"
    BY <1>7 DEF Stack!SpawnNode, StackOrder
  <2> QED
    BY <1>7, <2>1 DEF Stack!SpawnNode, StackLate
<1>8. CASE \/ Stack!StartFails \/ Stack!Polled \/ Stack!Connect \/ Stack!Spawned \/ Stack!Ready
           \/ Stack!Cancelled \/ Stack!AskShutdown \/ Stack!Disconnect \/ Stack!Gone
           \/ UNCHANGED Stack!vars
  BY <1>8
  DEF Stack!StartFails, Stack!Polled, Stack!Connect, Stack!Spawned, Stack!Ready,
      Stack!Cancelled, Stack!AskShutdown, Stack!Disconnect, Stack!Gone, Stack!vars, StackLate
<1> QED
  BY <1>1, <1>2, <1>3, <1>4, <1>5, <1>6, <1>7, <1>8 DEF Stack!Next

\* The three parts of the invariant together.
LEMMA StackStep == StackInv /\ [Stack!Next]_Stack!vars => StackInv'
BY StackOrderStep, StackLateStep DEF StackInv

\* What the invariant says of the variables.
LEMMA StackTyped == StackInv => Stack!TypeOK
BY DEF StackInv, StackOrder, StackTypes, StackLate, Stack!TypeOK

\* Stack!NothingLeftRunning is part of it.
LEMMA StackLeavesNothing == StackInv => Stack!NothingLeftRunning
<1> SUFFICES ASSUME StackInv PROVE Stack!NothingLeftRunning
  OBVIOUS
<1>1. ASSUME reaper = "ended", NEW p \in Stack!Processes, proc[p] = "running" PROVE p = 0 /\ late
  BY <1>1 DEF StackInv, StackOrder, StackLate, NodesReaped
<1>2. 0 \in signalled => \A p \in Stack!Processes \ {0} : proc[p] # "running"
  BY DEF StackInv, StackOrder, NodesReaped
<1> QED
  BY <1>1, <1>2 DEF Stack!NothingLeftRunning

-------------------------------------------------------------------------------
(***************************************************************************)
(* PlanReply.                                                              *)
(***************************************************************************)

\* A plan was asked for only where the adapter takes it from one channel.
ReplyInv ==
  /\ Reply!TypeOK /\ Reply!OnlyProposalsExecute
  /\ client \in {"idle", "asked"} => (config.mode = "json" => config.protocol = "openai_chat")
  /\ client \in {"unconfigured", "refused"} => decision = "none"

\* No reply has come.
LEMMA ReplyInit == Reply!Init => ReplyInv
BY DEF Reply!Init, ReplyInv, Reply!TypeOK, Reply!Configs, Reply!Protocols,
       Reply!OnlyProposalsExecute

\* The one of a set that holds one.
LEMMA SaysOfOne ==
  ASSUME NEW r, NEW i, NEW some, some = {i}
  PROVE  Reply!Says(r, some) = r.items[i].says
BY DEF Reply!Says

\* Tools: what is proposed is the only call.
LEMMA ProposalIsCall ==
  ASSUME NEW r, Reply!Proposal(r) = "plan"
  PROVE  /\ ~Reply!Has(r, {"other_call"})
         /\ \E i \in DOMAIN r.items : Reply!Of(r, {"call"}) = {i} /\ r.items[i].says = "plan"
<1> DEFINE calls == Reply!Of(r, {"call", "other_call"})
<1>1. CASE calls # {}
  <2>1. Reply!One(calls) /\ ~Reply!Has(r, {"other_call"}) /\ Reply!Says(r, calls) = "plan"
    BY <1>1 DEF Reply!Proposal
  <2>2. PICK i \in calls : calls = {i}
    BY <1>1, <2>1 DEF Reply!One
  <2>3. r.items[i].says = "plan"
    BY <2>1, <2>2, SaysOfOne
  <2>4. Reply!Of(r, {"call"}) = {i} /\ i \in DOMAIN r.items
    BY <2>1, <2>2 DEF Reply!Of, Reply!Has
  <2> QED
    BY <2>1, <2>3, <2>4
<1>2. CASE calls = {}
  <2>1. Reply!Proposal(r) \in {"error", "too_long", "answer"}
    BY <1>2 DEF Reply!Proposal, Reply!Answer
  <2> QED
    BY <2>1
<1> QED
  BY <1>1, <1>2

\* JSON: it is the only text.
LEMMA JsonIsText ==
  ASSUME NEW r, Reply!One(Reply!Of(r, {"text"})), Reply!Has(r, {"text"}),
         Reply!Says(r, Reply!Of(r, {"text"})) = "plan"
  PROVE  \E i \in DOMAIN r.items : Reply!Of(r, {"text"}) = {i} /\ r.items[i].says = "plan"
<1>1. PICK i \in Reply!Of(r, {"text"}) : Reply!Of(r, {"text"}) = {i}
  BY DEF Reply!One, Reply!Has
<1>2. r.items[i].says = "plan"
  BY <1>1, SaysOfOne
<1> QED
  BY <1>1, <1>2 DEF Reply!Of

\* What the parser takes from a reply is a proposal of it.
LEMMA ParsedProposal ==
  ASSUME ReplyInv, NEW r \in Reply!Replies, Reply!Reply(r)
  PROVE  Reply!OnlyProposalsExecute'
<1> SUFFICES ASSUME decision' = "execute"
             PROVE  Reply!OnlyProposalsExecute'
  BY DEF Reply!OnlyProposalsExecute
<1>1. Reply!Parse(r) = "plan" /\ reply' = r /\ config' = config
  BY DEF Reply!Reply, Reply!Decide
<1>2. config \in Reply!Configs /\ (config.mode = "json" => config.protocol = "openai_chat")
  BY DEF ReplyInv, Reply!TypeOK, Reply!Reply
<1>3. CASE config.mode = "json"
  <2>1. Reply!ParseChat(r) = "plan"
    BY <1>1, <1>2, <1>3 DEF Reply!Parse
  <2>2. /\ ~Reply!Has(r, {"odd"}) /\ ~Reply!Has(r, {"refusal"}) /\ r.ended # "cut"
        /\ ~Reply!Has(r, {"call", "other_call"}) /\ Reply!Has(r, {"text"})
        /\ Reply!Says(r, Reply!Of(r, {"text"})) = "plan"
    BY <1>3, <2>1 DEF Reply!ParseChat, Reply!Content
  <2>3. Reply!One(Reply!Of(r, {"text"}))
    BY <1>2, <1>3 DEF Reply!Reply, Reply!Possible
  <2>4. \E i \in DOMAIN r.items : Reply!Of(r, {"text"}) = {i} /\ r.items[i].says = "plan"
    BY <2>2, <2>3, JsonIsText
  <2> QED
    BY <1>1, <1>3, <2>2, <2>4 DEF Reply!OnlyProposalsExecute, Reply!Has, Reply!Of
<1>4. CASE config.mode # "json"
  <2>1. /\ ~Reply!Has(r, {"odd"}) /\ ~Reply!Has(r, {"refusal"}) /\ r.ended # "cut"
        /\ Reply!Proposal(r) = "plan"
    <3>1. CASE config.protocol = "openai_chat"
      BY <1>1, <1>4, <3>1 DEF Reply!Parse, Reply!ParseChat
    <3>2. CASE config.protocol = "openai_responses"
      BY <1>1, <3>2 DEF Reply!Parse, Reply!ParseResponses
    <3>3. CASE config.protocol = "anthropic_messages"
      <4>1. Reply!ParseMessages(r) = "plan"
        BY <1>1, <3>3 DEF Reply!Parse
      <4>2. ~Reply!Has(r, {"odd", "refusal"}) /\ r.ended # "cut" /\ Reply!Proposal(r) = "plan"
        BY <4>1 DEF Reply!ParseMessages
      <4> QED
        BY <4>2 DEF Reply!Has, Reply!Of
    <3> QED
      BY <1>2, <3>1, <3>2, <3>3 DEF Reply!Configs, Reply!Protocols
  <2>2. /\ ~Reply!Has(r, {"other_call"})
        /\ \E i \in DOMAIN r.items : Reply!Of(r, {"call"}) = {i} /\ r.items[i].says = "plan"
    BY <2>1, ProposalIsCall
  <2> QED
    BY <1>1, <1>4, <2>1, <2>2 DEF Reply!OnlyProposalsExecute, Reply!Has, Reply!Of
<1> QED
  BY <1>3, <1>4

\* Only what was proposed is passed on.
LEMMA ReplyStep ==
  ASSUME ReplyInv, [Reply!Next]_Reply!vars
  PROVE  ReplyInv'
<1>1. ASSUME NEW c \in Reply!Configs, Reply!Configure(c) PROVE ReplyInv'
  BY <1>1 DEF Reply!Configure, ReplyInv, Reply!TypeOK, Reply!OnlyProposalsExecute, Reply!Configs
<1>2. ASSUME NEW r \in Reply!Replies, Reply!Reply(r) PROVE ReplyInv'
  <2>1. decision' \in {"execute", "answer", "failed"}
    BY <1>2 DEF Reply!Reply, Reply!Decide
  <2> QED
    BY <1>2, <2>1, ParsedProposal DEF Reply!Reply, ReplyInv, Reply!TypeOK
<1>3. CASE Reply!Ask \/ Reply!Fails
  BY <1>3 DEF Reply!Ask, Reply!Fails, ReplyInv, Reply!TypeOK, Reply!OnlyProposalsExecute
<1>4. CASE UNCHANGED Reply!vars
  BY <1>4 DEF Reply!vars, ReplyInv, Reply!TypeOK, Reply!OnlyProposalsExecute, Reply!Of
<1> QED
  BY <1>1, <1>2, <1>3, <1>4 DEF Reply!Next

-------------------------------------------------------------------------------
(***************************************************************************)
(* PlanOrder.                                                              *)
(***************************************************************************)

\* Every set of naturals that holds any has a least.
LEMMA Least ==
  ASSUME NEW T \in SUBSET Nat, T # {}
  PROVE  \E n \in T : \A m \in T : n <= m
<1>1. IsWellFoundedOn(OpToRel(<, Nat), Nat)
  BY NatLessThanWellFounded
<1>2. PICK n \in T : \A m \in T : <<m, n>> \notin OpToRel(<, Nat)
  BY <1>1, WFMin
<1>3. \A m \in T : ~(m < n)
  BY <1>2 DEF OpToRel
<1> QED
  BY <1>3

\* Every set of naturals that begins with 0 and goes on holds all of them.
LEMMA OneByOne ==
  ASSUME NEW S \in SUBSET Nat, 0 \in S, \A n \in S : n + 1 \in S
  PROVE  S = Nat
<1> SUFFICES ASSUME S # Nat PROVE FALSE
  OBVIOUS
<1>1. PICK n \in Nat \ S : \A m \in Nat \ S : n <= m
  BY Least
<1>2. n # 0 /\ n - 1 \in Nat
  BY <1>1
<1>3. n - 1 \in S
  BY <1>1, <1>2
<1> QED
  BY <1>1, <1>2, <1>3

\* The steps that are found in n rounds: the definition of Ancestors has one
\* function that meets it.
Rounds(p, m, f) ==
  f = [n \in 0..m |->
         IF n = 0 THEN [s \in Order!Steps |-> p[s].after]
         ELSE [s \in Order!Steps |->
                 f[n - 1][s] \cup UNION {f[n - 1][t] : t \in p[s].after}]]

\* Whatever the plan, there are such rounds.
LEMMA RoundsExist ==
  ASSUME NEW p, NEW m \in Nat
  PROVE  \E f : Rounds(p, m, f)
<1> DEFINE S == {k \in Nat : \E f : Rounds(p, k, f)}
           start == [n \in 0..0 |-> [s \in Order!Steps |-> p[s].after]]
<1>1. 0 \in S
  <2>1. Rounds(p, 0, start)
    BY DEF Rounds
  <2> QED
    BY <2>1
<1>2. ASSUME NEW k \in S PROVE k + 1 \in S
  <2>1. PICK f : Rounds(p, k, f)
    BY <1>2
  <2> DEFINE last == [s \in Order!Steps |-> f[k][s] \cup UNION {f[k][t] : t \in p[s].after}]
             g == [n \in 0..(k + 1) |-> IF n = k + 1 THEN last ELSE f[n]]
  <2>2. ASSUME NEW n \in 0..(k + 1)
        PROVE  g[n] = IF n = 0 THEN [s \in Order!Steps |-> p[s].after]
                      ELSE [s \in Order!Steps |->
                              g[n - 1][s] \cup UNION {g[n - 1][t] : t \in p[s].after}]
    <3>1. CASE n = k + 1
      <4>1. g[n] = last /\ g[n - 1] = f[k] /\ n # 0
        BY <3>1
      <4> HIDE DEF g
      <4> QED
        BY <4>1, <3>1
    <3>2. CASE n = 0
      <4>1. g[n] = f[0] /\ 0 \in 0..k
        BY <3>2
      <4>2. f[0] = [s \in Order!Steps |-> p[s].after]
        BY <2>1, <4>1 DEF Rounds
      <4> QED
        BY <4>1, <4>2, <3>2
    <3>3. CASE n # 0 /\ n # k + 1
      <4>1. g[n] = f[n] /\ g[n - 1] = f[n - 1] /\ n \in 0..k
        BY <3>3
      <4>2. f[n] = [s \in Order!Steps |->
                      f[n - 1][s] \cup UNION {f[n - 1][t] : t \in p[s].after}]
        BY <2>1, <4>1, <3>3 DEF Rounds
      <4> HIDE DEF g
      <4> QED
        BY <4>1, <4>2, <3>3
    <3> QED
      BY <3>1, <3>2, <3>3
  <2>3. Rounds(p, k + 1, g)
    <3> HIDE DEF last
    <3>1. g = [n \in 0..(k + 1) |-> g[n]]
      OBVIOUS
    <3> HIDE DEF g
    <3> QED
      BY <2>2, <3>1, Zenon DEF Rounds
  <2> QED
    BY <2>3
<1>3. S = Nat
  <2> HIDE DEF S
  <2>1. S \in SUBSET Nat
    BY DEF S
  <2> QED
    BY <1>1, <1>2, <2>1, OneByOne
<1> QED
  BY <1>3

\* The ancestors of a step are those the last round has.
LEMMA AncestorsAre ==
  ASSUME PlanSteps \in Nat, NEW p
  PROVE  \E f : Rounds(p, PlanSteps, f) /\ Order!Ancestors(p) = f[PlanSteps]
<1> DEFINE F == CHOOSE f : Rounds(p, PlanSteps, f)
<1>1. Rounds(p, PlanSteps, F)
  BY RoundsExist
<1>2. Order!Ancestors(p) = F[PlanSteps]
  BY Zenon DEF Order!Ancestors, Rounds
<1> QED
  BY <1>1, <1>2

\* When every step that is done has done before it what it depends on, what a
\* step depends on over any number of rounds is done as soon as what it names is.
LEMMA AncestorsDone ==
  ASSUME PlanSteps \in Nat, NEW p \in Order!Plans, NEW D \in SUBSET Order!Steps,
         \A s \in D : p[s].after \subseteq D,
         NEW s \in Order!Steps, p[s].after \subseteq D
  PROVE  Order!Ancestors(p)[s] \subseteq D
<1> DEFINE Ready == {t \in Order!Steps : p[t].after \subseteq D}
<1>1. PICK f : Rounds(p, PlanSteps, f) /\ Order!Ancestors(p) = f[PlanSteps]
  BY AncestorsAre
<1> DEFINE S == {n \in Nat : n <= PlanSteps => \A t \in Ready : f[n][t] \subseteq D}
<1>2. 0 \in S
  <2>1. f[0] = [t \in Order!Steps |-> p[t].after]
    BY <1>1 DEF Rounds
  <2> QED
    BY <2>1
<1>3. ASSUME NEW n \in S PROVE n + 1 \in S
  <2> SUFFICES ASSUME n + 1 <= PlanSteps, NEW t \in Ready PROVE f[n + 1][t] \subseteq D
    OBVIOUS
  <2>1. f[n + 1] = [x \in Order!Steps |-> f[n][x] \cup UNION {f[n][y] : y \in p[x].after}]
    <3>1. n + 1 \in 0..PlanSteps /\ n + 1 # 0 /\ (n + 1) - 1 = n
      OBVIOUS
    <3> DEFINE e(k) == IF k = 0 THEN [x \in Order!Steps |-> p[x].after]
                       ELSE [x \in Order!Steps |->
                               f[k - 1][x] \cup UNION {f[k - 1][y] : y \in p[x].after}]
    <3>2. f = [k \in 0..PlanSteps |-> e(k)]
      BY <1>1, Zenon DEF Rounds
    <3>3. f[n + 1] = e(n + 1)
      <4> HIDE DEF e
      <4> QED
        BY <3>1, <3>2
    <3> QED
      BY <3>1, <3>3
  <2>2. f[n + 1][t] = f[n][t] \cup UNION {f[n][y] : y \in p[t].after}
    BY <2>1
  <2>3. f[n][t] \subseteq D
    OBVIOUS
  <2>4. ASSUME NEW y \in p[t].after PROVE f[n][y] \subseteq D
    <3>1. y \in D /\ y \in Ready
      OBVIOUS
    <3> QED
      BY <3>1
  <2> QED
    BY <2>2, <2>3, <2>4
<1>4. PlanSteps \in S
  <2> HIDE DEF S
  <2>1. S \in SUBSET Nat
    BY DEF S
  <2> QED
    BY <1>2, <1>3, <2>1, OneByOne
<1> QED
  BY <1>1, <1>4

\* A plan has been accepted, and a step that has started finds done what it names.
Accepted ==
  /\ plan \in Order!Plans /\ Order!IsGraph /\ Order!Ordered
  /\ \A s \in Order!Steps : Order!Fits(s)
  /\ \A s \in Order!Steps :
       /\ run[s] \in {"waiting", "running", "done", "failed"}
       /\ run[s] # "waiting" => \A t \in plan[s].after : run[t] = "done"

OrderInv ==
  /\ Order!TypeOK
  /\ plan = <<>> => run = [s \in Order!Steps |-> "proposed"]
  /\ \/ \A s \in Order!Steps : run[s] = "proposed"
     \/ \A s \in Order!Steps : run[s] = "refused"
     \/ Accepted

\* Nothing was proposed.
LEMMA OrderInit == Order!Init => OrderInv
BY DEF Order!Init, OrderInv, Order!TypeOK, Order!Versions

\* What a step that may run depends on is done, directly or not.
LEMMA BeforeIsDone ==
  ASSUME PlanSteps \in Nat, OrderInv, Accepted,
         NEW s \in Order!Steps, \A t \in plan[s].after : run[t] = "done",
         NEW t, Order!Before(t, s)
  PROVE  t \in Order!Steps /\ run[t] = "done"
<1> DEFINE D == {d \in Order!Steps : run[d] = "done"}
<1>1. \A d \in Order!Steps : plan[d].after \subseteq Order!Steps
  BY DEF Accepted, Order!Plans
<1>2. \A d \in D : plan[d].after \subseteq D
  BY <1>1 DEF Accepted
<1>3. plan[s].after \subseteq D
  BY <1>1
<1>4. Order!Ancestors(plan)[s] \subseteq D
  <2> HIDE DEF D
  <2>1. plan \in Order!Plans /\ D \in SUBSET Order!Steps
    BY DEF Accepted, D
  <2> QED
    BY <1>2, <1>3, <2>1, AncestorsDone
<1> QED
  BY <1>4 DEF Order!Before

\* No two steps of a run race for what one of them changes.
LEMMA OrderSafe ==
  ASSUME PlanSteps \in Nat, OrderInv
  PROVE  Order!NothingLeftToRaces
<1> DEFINE mayRun(s) == \/ run[s] = "running"
                        \/ run[s] = "waiting" /\ \A t \in plan[s].after : run[t] = "done"
<1>1. CASE Accepted
  <2>1. ASSUME NEW s \in Order!Steps, mayRun(s), NEW t, Order!Before(t, s)
        PROVE  t \in Order!Steps /\ run[t] = "done"
    <3>1. \A d \in plan[s].after : run[d] = "done"
      BY <1>1, <2>1 DEF Accepted
    <3> QED
      BY <1>1, <2>1, <3>1, BeforeIsDone
  <2>2. ASSUME NEW s \in Order!Steps, NEW t \in Order!Steps, mayRun(s), mayRun(t), s # t
        PROVE  Holds[plan[s].skill] \cap Holds[plan[t].skill] = {}
    <3> SUFFICES ASSUME Order!Conflict(s, t) PROVE FALSE
      BY DEF Order!Conflict
    <3>1. Order!Before(s, t) \/ Order!Before(t, s)
      BY <1>1, <2>2 DEF Accepted, Order!Ordered
    <3>2. run[s] = "done" \/ run[t] = "done"
      BY <2>1, <2>2, <3>1
    <3> QED
      BY <2>2, <3>2
  <2>3. ASSUME NEW s \in Order!Steps, run[s] = "running", plan[s].input # 0
        PROVE  /\ run[plan[s].input] = "done"
               /\ Makes[plan[plan[s].input].skill] = Takes[plan[s].skill]
    <3>1. Order!Before(plan[s].input, s)
      BY <1>1, <2>3 DEF Accepted, Order!IsGraph
    <3>2. run[plan[s].input] = "done"
      BY <2>1, <2>3, <3>1
    <3>3. Order!Fits(s)
      BY <1>1 DEF Accepted
    <3> QED
      BY <2>3, <3>2, <3>3 DEF Order!Fits
  <2> QED
    BY <2>2, <2>3 DEF Order!NothingLeftToRaces
<1>2. CASE ~Accepted
  BY <1>2 DEF OrderInv, Order!NothingLeftToRaces
<1> QED
  BY <1>1, <1>2

\* A step begins when all it depends on is done.
LEMMA OrderStep ==
  ASSUME PlanSteps \in Nat, OrderInv, [Order!Next]_Order!vars
  PROVE  OrderInv'
<1>1. CASE Order!Propose
  <2>1. plan = <<>> /\ plan' \in Order!Plans /\ run' = run
    BY <1>1 DEF Order!Propose
  <2>2. offered' \in [Skills -> Order!Versions]
    BY <1>1 DEF Order!Propose, OrderInv, Order!TypeOK
  <2>3. \A s \in Order!Steps : run'[s] = "proposed"
    BY <2>1 DEF OrderInv
  <2>4. plan' = <<>> => run' = [s \in Order!Steps |-> "proposed"]
    BY <2>1 DEF OrderInv
  <2> QED
    BY <2>1, <2>2, <2>3, <2>4 DEF OrderInv, Order!TypeOK
<1>2. CASE Order!Validate
  <2> DEFINE valid == /\ Order!IsGraph /\ Order!Ordered
                      /\ \A s \in Order!Steps : Order!Provided(s) /\ Order!Fits(s)
  <2>1. plan # <<>> /\ plan' = plan /\ offered' = offered
        /\ run' = [s \in Order!Steps |-> IF valid THEN "waiting" ELSE "refused"]
    BY <1>2 DEF Order!Validate
  <2>2. Order!TypeOK' /\ plan' # <<>>
    BY <2>1 DEF OrderInv, Order!TypeOK
  <2>3. CASE valid
    <3>1. plan \in Order!Plans
      BY <2>1 DEF OrderInv, Order!TypeOK
    <3>2. \A s \in Order!Steps : run'[s] = "waiting"
      BY <2>1, <2>3
    <3>3. Order!IsGraph' /\ Order!Ordered' /\ \A s \in Order!Steps : Order!Fits(s)'
      BY <2>1, <2>3 DEF Order!IsGraph, Order!Ordered, Order!Fits, Order!Before, Order!Conflict
    <3>4. Accepted'
      BY <2>1, <3>1, <3>2, <3>3 DEF Accepted
    <3> QED
      BY <2>2, <3>4 DEF OrderInv
  <2>4. CASE ~valid
    BY <2>1, <2>2, <2>4 DEF OrderInv
  <2> QED
    BY <2>3, <2>4
<1>3. ASSUME NEW s \in Order!Steps, Order!StartStep(s) \/ Order!EndStep(s) PROVE OrderInv'
  <2>1. run[s] \in {"waiting", "running"} /\ UNCHANGED <<plan, offered>>
    BY <1>3 DEF Order!StartStep, Order!EndStep
  <2>2. Accepted
    BY <2>1 DEF OrderInv
  <2>3. PICK r \in {"running", "done", "failed"} :
          /\ run' = [run EXCEPT ![s] = r]
          /\ run[s] = "waiting" => \A t \in plan[s].after : run[t] = "done"
    BY <1>3 DEF Order!StartStep, Order!EndStep
  <2>4. Order!TypeOK'
    BY <2>1, <2>3 DEF OrderInv, Order!TypeOK
  <2>5. ASSUME NEW d \in Order!Steps
        PROVE  /\ run'[d] \in {"waiting", "running", "done", "failed"}
               /\ run'[d] # "waiting" => \A t \in plan'[d].after : run'[t] = "done"
    <3>1. \A t \in Order!Steps : run[t] = "done" => run'[t] = "done"
      BY <2>1, <2>3 DEF OrderInv, Order!TypeOK
    <3>2. plan[d].after \subseteq Order!Steps
      BY <2>2 DEF Accepted, Order!Plans
    <3>3. \A t \in plan[d].after : run[t] = "done" => run'[t] = "done"
      BY <3>1, <3>2
    <3>4. run'[d] = IF d = s THEN r ELSE run[d]
      BY <2>3 DEF OrderInv, Order!TypeOK
    <3> QED
      BY <2>1, <2>2, <2>3, <3>3, <3>4 DEF Accepted
  <2>6. plan' \in Order!Plans /\ Order!IsGraph' /\ Order!Ordered'
        /\ \A d \in Order!Steps : Order!Fits(d)'
    BY <2>1, <2>2 DEF Accepted, Order!IsGraph, Order!Ordered, Order!Fits, Order!Before,
                      Order!Conflict
  <2>7. Accepted'
    BY <2>5, <2>6 DEF Accepted
  <2>8. plan' # <<>>
    BY <2>1 DEF OrderInv
  <2> QED
    BY <2>4, <2>7, <2>8 DEF OrderInv
<1>4. CASE UNCHANGED Order!vars
  <2>1. UNCHANGED <<plan, offered, run>>
    BY <1>4 DEF Order!vars
  <2> QED
    BY <2>1 DEF OrderInv, Order!TypeOK, Accepted, Order!IsGraph, Order!Ordered, Order!Fits,
                Order!Before, Order!Conflict
<1> QED
  BY <1>1, <1>2, <1>3, <1>4 DEF Order!Next

-------------------------------------------------------------------------------
(***************************************************************************)
(* CameraStream.                                                           *)
(***************************************************************************)

\* One wakeup is on its way, or has arrived, as long as an item waits.
Quiet == pending = None /\ camNotified = FALSE /\ changed = FALSE /\ calling = FALSE
Called == pending # None /\ camNotified = TRUE /\ changed = FALSE /\ calling = TRUE
Woken == pending # None /\ camNotified = TRUE /\ changed = TRUE /\ calling = FALSE
Handoff == Quiet \/ Called \/ Woken

\* The frames are of the stream of the last item, in its order, and what waits
\* comes after them.
Readable ==
  /\ camStream \in 0..MaxStreams /\ taken \in 0..MaxFrames
  /\ capture = "reading" => camStream # 0
  /\ pending \in Camera!Frames \cup {None, Broken}
  /\ frames \in Seq(Camera!Frames) /\ Len(frames) <= StreamCapacity
  /\ current = seen /\ current \in 0..camStream
  /\ \A i \in 1..Len(frames) :
       frames[i].stream = current /\ (current = camStream => frames[i].number <= taken)
  /\ \A i, j \in 1..Len(frames) : i < j => frames[i].number < frames[j].number
  /\ pending \in Camera!Frames =>
       /\ pending.stream \in current..camStream
       /\ pending.stream = camStream => pending.number <= taken
       /\ pending.stream = current =>
            \A i \in 1..Len(frames) : frames[i].number < pending.number

CameraStates ==
  /\ capture \in {"opening", "reading", "failed", "paused", "ended"}
  /\ closed \in {"no", "yes", "failed"} /\ stopping \in BOOLEAN
  /\ health \in {"connecting", "ready", "disconnected"}
  /\ health = "disconnected" => frames = <<>>

CameraInv == Handoff /\ Readable /\ CameraStates

\* The camera is shut.
LEMMA CameraInit == Camera!Init => CameraInv
<1> SUFFICES ASSUME Camera!Init PROVE CameraInv
  OBVIOUS
<1>1. Handoff
  BY DEF Camera!Init, Handoff, Quiet
<1>2. Readable
  BY NodesAssumption DEF Camera!Init, Readable, Camera!Frames
<1>3. CameraStates
  BY DEF Camera!Init, CameraStates
<1> QED
  BY <1>1, <1>2, <1>3 DEF CameraInv

\* What the callback and the loop hand over is of the stream that is.
LEMMA CameraSafe ==
  ASSUME CameraInv
  PROVE  Camera!TypeOK /\ Camera!FramesAreLive
<1>1. Camera!FramesAreLive
  <2>1. (pending # None <=> changed \/ calling)
    BY Zenon DEF CameraInv, Handoff, Quiet, Called, Woken
  <2>2. /\ \A i \in DOMAIN frames : frames[i].stream = seen
        /\ \A i, j \in DOMAIN frames : i < j => frames[i].number < frames[j].number
    BY DEF CameraInv, Readable
  <2>3. health = "disconnected" => frames = <<>>
    BY DEF CameraInv, CameraStates
  <2> QED
    BY <2>1, <2>2, <2>3, Zenon DEF Camera!FramesAreLive
<1>2. Camera!TypeOK
  <2>1. {camNotified, calling, changed, stopping} \subseteq BOOLEAN
    BY Zenon DEF CameraInv, Handoff, Quiet, Called, Woken, CameraStates
  <2>2. current \in 0..MaxStreams /\ seen \in 0..MaxStreams
    BY NodesAssumption DEF CameraInv, Readable
  <2> QED
    BY <2>1, <2>2 DEF CameraInv, Readable, CameraStates, Camera!TypeOK
<1> QED
  BY <1>1, <1>2

\* A frame is never left for a loop that nobody wakes.
LEMMA HandoffStep ==
  ASSUME CameraInv, [Camera!Next]_Camera!vars
  PROVE  Handoff'
<1> DEFINE arrived == /\ pending' # None /\ camNotified' = TRUE
                      /\ calling' = (calling \/ ~camNotified) /\ changed' = changed
<1>1. ASSUME NEW item, Camera!Offer(item), item # None PROVE arrived
  BY <1>1, Zenon DEF Camera!Offer
<1>2. arrived => Handoff'
  <2> SUFFICES ASSUME arrived PROVE Handoff'
    OBVIOUS
  <2>1. CASE Quiet
    <3>1. calling' = TRUE
      BY <2>1, Zenon DEF Quiet
    <3> QED
      BY <2>1, <3>1, Zenon DEF Quiet, Handoff, Called
  <2>2. CASE Called
    <3>1. calling' = TRUE
      BY <2>2, Zenon DEF Called
    <3> QED
      BY <2>2, <3>1, Zenon DEF Handoff, Called
  <2>3. CASE Woken
    <3>1. calling' = FALSE
      BY <2>3, Zenon DEF Woken
    <3> QED
      BY <2>3, <3>1, Zenon DEF Handoff, Woken
  <2> QED
    BY <2>1, <2>2, <2>3 DEF CameraInv, Handoff
<1>3. ASSUME UNCHANGED Camera!handoff PROVE Handoff'
  BY <1>3, Zenon DEF CameraInv, Handoff, Quiet, Called, Woken, Camera!handoff
<1>4. Broken # None /\ \A f \in Camera!Frames : f # None
  BY NodesAssumption
<1> HIDE DEF arrived
<1>5. CASE Camera!Open \/ Camera!CloseDriver
  BY <1>1, <1>2, <1>3, <1>4, <1>5, Zenon DEF Camera!Open, Camera!CloseDriver
<1>6. CASE Camera!Read
  <2>1. CASE UNCHANGED Camera!handoff
    BY <1>3, <2>1
  <2>2. CASE Camera!Offer(Broken)
    BY <1>1, <1>2, <1>4, <2>2
  <2>3. CASE taken < MaxFrames /\ Camera!Offer([stream |-> camStream, number |-> taken + 1])
             /\ capture = "reading"
    <3>1. [stream |-> camStream, number |-> taken + 1] \in Camera!Frames
      <4>1. camStream \in 1..MaxStreams /\ taken + 1 \in 1..MaxFrames
        BY <2>3, NodesAssumption DEF CameraInv, Readable
      <4> QED
        BY <4>1 DEF Camera!Frames
    <3> QED
      BY <1>1, <1>2, <1>4, <2>3, <3>1
  <2> QED
    BY <1>6, <2>1, <2>2, <2>3, Zenon DEF Camera!Read
<1>7. CASE Camera!Resume \/ Camera!Expire \/ Camera!Stop \/ Camera!Close
  BY <1>3, <1>7, Zenon DEF Camera!Resume, Camera!Expire, Camera!Stop, Camera!Close
<1>8. CASE Camera!Called
  BY <1>8, Zenon DEF Camera!Called, CameraInv, Handoff, Quiet, Called, Woken
<1>9. CASE Camera!Pump
  BY <1>9, Zenon DEF Camera!Pump, Camera!Taken, CameraInv, Handoff, Quiet, Called, Woken
<1>10. CASE UNCHANGED Camera!vars
  BY <1>3, <1>10, Zenon DEF Camera!vars
<1> QED
  BY <1>5, <1>6, <1>7, <1>8, <1>9, <1>10, Zenon DEF Camera!Next

\* A camera that is lost keeps no frames.
LEMMA CameraStatesStep ==
  ASSUME CameraInv, [Camera!Next]_Camera!vars
  PROVE  CameraStates'
<1> USE DEF CameraInv, CameraStates, Camera!view, Camera!device
<1>1. CASE Camera!Open \/ Camera!Read \/ Camera!CloseDriver
  <2>1. capture' \in {"opening", "reading", "failed", "paused", "ended"}
    BY <1>1 DEF Camera!Open, Camera!Read, Camera!CloseDriver
  <2>2. UNCHANGED <<stopping, closed, health, frames>>
    BY <1>1 DEF Camera!Open, Camera!Read, Camera!CloseDriver
  <2> QED
    BY <2>1, <2>2
<1>2. CASE Camera!Resume
  <2>1. capture' \in {"opening", "ended"}
    BY <1>2, Zenon DEF Camera!Resume
  <2> QED
    BY <1>2, <2>1 DEF Camera!Resume
<1>3. CASE Camera!Called
  BY <1>3 DEF Camera!Called
<1>4. CASE Camera!Pump
  BY <1>4 DEF Camera!Pump
<1>5. CASE Camera!Expire
  BY <1>5 DEF Camera!Expire
<1>6. CASE Camera!Stop \/ Camera!Close
  BY <1>6 DEF Camera!Stop, Camera!Close
<1>7. CASE UNCHANGED Camera!vars
  BY <1>7 DEF Camera!vars
<1> QED
  BY <1>1, <1>2, <1>3, <1>4, <1>5, <1>6, <1>7 DEF Camera!Next

\* What can be read is of the stream that is open.
LEMMA ReadableStep ==
  ASSUME CameraInv, [Camera!Next]_Camera!vars
  PROVE  Readable'
<1> USE DEF Camera!view, Camera!device, Camera!handoff
<1>0. Readable
  BY DEF CameraInv
<1>1. ASSUME pending' \in {pending, Broken}, UNCHANGED <<frames, current, seen, camStream, taken>>,
             capture' = "reading" => capture = "reading"
      PROVE  Readable'
  <2>1. Broken \notin Camera!Frames
    BY NodesAssumption
  <2> QED
    BY <1>0, <1>1, <2>1 DEF Readable
<1>2. CASE Camera!Open
  <2>1. CASE /\ capture' = "reading" /\ camStream' = camStream + 1 /\ taken' = 0
             /\ UNCHANGED <<pending, frames, current, seen>> /\ camStream < MaxStreams
    <3>1. /\ camStream' \in 0..MaxStreams /\ taken' \in 0..MaxFrames /\ camStream' # 0
          /\ current' \in 0..camStream' /\ current' # camStream'
      BY <1>0, <2>1, NodesAssumption DEF Readable
    <3>2. pending' \in Camera!Frames =>
            pending'.stream \in current'..camStream' /\ pending'.stream # camStream'
      BY <1>0, <2>1 DEF Readable, Camera!Frames
    <3> QED
      BY <1>0, <2>1, <3>1, <3>2 DEF Readable
  <2>2. CASE ~(capture' = "reading")
    BY <1>1, <1>2, <2>2 DEF Camera!Open, Camera!Offer
  <2> QED
    BY <1>2, <2>1, <2>2 DEF Camera!Open
<1>3. CASE Camera!Read
  <2>1. CASE /\ taken < MaxFrames /\ taken' = taken + 1 /\ capture' = capture
             /\ pending' = [stream |-> camStream, number |-> taken + 1] /\ capture = "reading"
             /\ UNCHANGED <<camStream, frames, current, seen>>
    <3>1. /\ taken' \in 0..MaxFrames
          /\ pending' \in Camera!Frames /\ pending'.stream = camStream
          /\ pending'.number = taken'
      BY <1>0, <2>1, NodesAssumption DEF Readable, Camera!Frames
    <3>2. \A i \in 1..Len(frames) : frames[i] \in Camera!Frames
      BY <1>0 DEF Readable
    <3>3. \A i \in 1..Len(frames) :
            current = camStream => frames[i].number <= taken' /\ frames[i].number < taken'
      BY <1>0, <2>1, <3>2 DEF Readable, Camera!Frames
    <3>4. /\ camStream' = camStream /\ camStream \in 0..MaxStreams /\ current \in 0..camStream
          /\ UNCHANGED <<frames, current, seen>>
      BY <1>0, <2>1 DEF Readable
    <3>5. camStream \in current..camStream
      BY <1>0 DEF Readable
    <3>6. pending'.number <= taken'
      BY <2>1, <3>1
    <3> QED
      BY <1>0, <2>1, <3>1, <3>3, <3>4, <3>5, <3>6 DEF Readable
  <2>2. CASE pending' \in {pending, Broken} /\ UNCHANGED taken
    BY <1>1, <1>3, <2>2 DEF Camera!Read
  <2> QED
    BY <1>3, <2>1, <2>2 DEF Camera!Read, Camera!Offer
<1>4. CASE Camera!CloseDriver \/ Camera!Resume \/ Camera!Called \/ Camera!Stop
  <2>1. pending' \in {pending, Broken} /\ UNCHANGED <<frames, current, seen, camStream, taken>>
    BY <1>4 DEF Camera!CloseDriver, Camera!Resume, Camera!Called, Camera!Stop, Camera!Offer
  <2>2. capture' = "reading" => capture = "reading"
    BY <1>4, Zenon DEF Camera!CloseDriver, Camera!Resume, Camera!Called, Camera!Stop
  <2> QED
    BY <1>1, <2>1, <2>2
<1>5. CASE Camera!Pump
  <2>1. CASE pending \in Camera!Frames
    <3> DEFINE old == IF Camera!StreamChanged(pending) THEN <<>> ELSE frames
    <3>1. /\ frames' = Camera!Kept(old, pending)
          /\ current' = pending.stream /\ seen' = pending.stream /\ pending' = None
          /\ UNCHANGED <<capture, camStream, taken>>
      BY <1>5, <2>1 DEF Camera!Pump, Camera!Taken
    <3>2. /\ old \in Seq(Camera!Frames) /\ Len(old) <= StreamCapacity
          /\ \A i \in 1..Len(old) : /\ old[i].stream = pending.stream
                                     /\ old[i].number < pending.number
          /\ \A i, j \in 1..Len(old) : i < j => old[i].number < old[j].number
      BY <1>0, <2>1, NodesAssumption DEF Readable, Camera!StreamChanged
    <3> HIDE DEF old
    <3>3. PICK kept \in Seq(Camera!Frames) :
            /\ frames' = Append(kept, pending) /\ Len(kept) < StreamCapacity
            /\ \A i \in 1..Len(kept) : /\ kept[i].stream = pending.stream
                                        /\ kept[i].number < pending.number
            /\ \A i, j \in 1..Len(kept) : i < j => kept[i].number < kept[j].number
      <4>1. CASE Len(old) < StreamCapacity
        <5>1. frames' = Append(old, pending)
          BY <3>1, <4>1 DEF Camera!Kept
        <5> QED
          BY <3>2, <4>1, <5>1
      <4>2. CASE ~(Len(old) < StreamCapacity)
        <5>1. old # <<>> /\ Len(old) = StreamCapacity
          BY <3>2, <4>2, NodesAssumption
        <5>2. /\ Tail(old) \in Seq(Camera!Frames) /\ Len(Tail(old)) = Len(old) - 1
              /\ \A i \in 1..Len(Tail(old)) : Tail(old)[i] = old[i + 1] /\ i + 1 \in 1..Len(old)
          BY <3>2, <5>1
        <5>3. frames' = Append(Tail(old), pending)
          BY <3>1, <4>2 DEF Camera!Kept
        <5>4. Len(Tail(old)) < StreamCapacity
          BY <5>1, <5>2, NodesAssumption
        <5>5. \A i \in 1..Len(Tail(old)) : /\ Tail(old)[i].stream = pending.stream
                                           /\ Tail(old)[i].number < pending.number
          BY <3>2, <5>2
        <5>6. ASSUME NEW i \in 1..Len(Tail(old)), NEW j \in 1..Len(Tail(old)), i < j
              PROVE  Tail(old)[i].number < Tail(old)[j].number
          <6>1. i + 1 \in 1..Len(old) /\ j + 1 \in 1..Len(old) /\ i + 1 < j + 1
            BY <5>2, <5>6
          <6>2. old[i + 1].number < old[j + 1].number
            BY <3>2, <6>1
          <6> QED
            BY <5>2, <6>2
        <5> QED
          BY <5>2, <5>3, <5>4, <5>5, <5>6
      <4> QED
        BY <4>1, <4>2
    <3>4. /\ Len(frames') = Len(kept) + 1 /\ frames' \in Seq(Camera!Frames)
          /\ \A i \in 1..Len(frames') :
               frames'[i] = IF i = Len(kept) + 1 THEN pending ELSE kept[i]
      BY <2>1, <3>3
    <3>5. /\ frames' \in Seq(Camera!Frames) /\ Len(frames') <= StreamCapacity
      BY <3>3, <3>4, NodesAssumption
    <3>6. \A i \in 1..Len(kept) : kept[i] \in Camera!Frames
      BY <3>3
    <3>7. pending.stream \in Nat /\ pending.number \in Nat /\ taken \in Nat
          /\ pending.stream \in 0..camStream /\ camStream \in 0..MaxStreams
          /\ taken \in 0..MaxFrames /\ (pending.stream = camStream => pending.number <= taken)
          /\ (capture = "reading" => camStream # 0)
      BY <1>0, <2>1, NodesAssumption DEF Readable, Camera!Frames
    <3>8. \A i \in 1..Len(kept) : kept[i].number \in Nat
      BY <3>6, NodesAssumption DEF Camera!Frames
    <3>9. \A i \in 1..Len(frames') :
            frames'[i].stream = current' /\ (current' = camStream' => frames'[i].number <= taken')
      BY <3>1, <3>3, <3>4, <3>7, <3>8
    <3>10. \A i, j \in 1..Len(frames') : i < j => frames'[i].number < frames'[j].number
      BY <3>3, <3>4, <3>7, <3>8
    <3>11. pending' \notin Camera!Frames
      BY <3>1, NodesAssumption
    <3> QED
      BY <3>1, <3>5, <3>7, <3>9, <3>10, <3>11 DEF Readable
  <2>2. CASE pending \notin Camera!Frames
    <3>1. pending' = None /\ frames' = <<>> /\ UNCHANGED <<current, seen, capture, camStream, taken>>
      BY <1>5, <2>2 DEF Camera!Pump, Camera!Taken
    <3>2. None \notin Camera!Frames
      BY NodesAssumption
    <3> QED
      BY <1>0, <3>1, <3>2, NodesAssumption DEF Readable
  <2> QED
    BY <2>1, <2>2
<1>6. CASE Camera!Expire
  <2>1. frames # <<>> /\ frames' = Tail(frames)
        /\ UNCHANGED <<pending, current, seen, capture, camStream, taken>>
    BY <1>6 DEF Camera!Expire
  <2>2. /\ frames' \in Seq(Camera!Frames) /\ Len(frames') = Len(frames) - 1
        /\ \A i \in 1..Len(frames') : frames'[i] = frames[i + 1] /\ i + 1 \in 1..Len(frames)
    BY <1>0, <2>1 DEF Readable
  <2>3. Len(frames') <= StreamCapacity
    BY <1>0, <2>2, NodesAssumption DEF Readable
  <2>4. ASSUME NEW i \in 1..Len(frames'), NEW j \in 1..Len(frames'), i < j
        PROVE  frames'[i].number < frames'[j].number
    <3>1. i + 1 \in 1..Len(frames) /\ j + 1 \in 1..Len(frames) /\ i + 1 < j + 1
      BY <2>2, <2>4
    <3>2. frames[i + 1].number < frames[j + 1].number
      BY <1>0, <3>1 DEF Readable
    <3> QED
      BY <2>2, <3>2
  <2> QED
    BY <1>0, <2>1, <2>2, <2>3, <2>4 DEF Readable
<1>7. CASE Camera!Close
  <2>1. frames' = <<>> /\ UNCHANGED <<pending, current, seen, capture, camStream, taken>>
    BY <1>7 DEF Camera!Close
  <2> QED
    BY <1>0, <2>1, NodesAssumption DEF Readable
<1>8. CASE UNCHANGED Camera!vars
  BY <1>1, <1>8 DEF Camera!vars
<1> QED
  BY <1>2, <1>3, <1>4, <1>5, <1>6, <1>7, <1>8 DEF Camera!Next

-------------------------------------------------------------------------------
(***************************************************************************)
(* VisionResults.                                                          *)
(***************************************************************************)

\* In the order of the streams, and of the shots of one.
Earlier(a, b) == a.stream < b.stream \/ (a.stream = b.stream /\ a.number < b.number)

\* What is looked at is newer than what was seen last, and the pictures are the
\* last results, as long as nothing has failed since.
DetectorInv ==
  /\ shot \in Detector!Shots /\ round \in {"reading", "detecting"}
  /\ input \in Detector!Shots \cup {None}
  /\ previous \in Detector!Shots \cup {None} /\ newest \in {previous, None}
  /\ pictures \in Seq(Detector!Shots) /\ Len(pictures) <= FrameCapacity
  /\ results \in Seq(Detector!Shots) /\ Len(results) <= ResultCapacity
  /\ previous # None => ~Earlier(shot, previous)
  /\ round = "detecting" =>
       /\ input # None /\ ~Earlier(shot, input)
       /\ previous # None => Earlier(previous, input)
  /\ newest = None => pictures = <<>>
  /\ \A i \in 1..Len(pictures) :
       pictures[i].stream = previous.stream /\ pictures[i].number <= previous.number
  /\ \A i, j \in 1..Len(pictures) : i < j => pictures[i].number < pictures[j].number
  /\ Len(pictures) <= Len(results)
  /\ \A i \in 1..Len(pictures) :
       pictures[i] = results[Len(results) - Len(pictures) + i]

Readiness == ready \in BOOLEAN /\ (ready <=> newest # None)

\* Nothing was looked at.
LEMMA DetectorInit == Detector!Init => DetectorInv /\ Readiness
<1> SUFFICES ASSUME Detector!Init PROVE DetectorInv /\ Readiness
  OBVIOUS
<1>1. DetectorInv
  BY NodesAssumption DEF Detector!Init, DetectorInv, Detector!Shots
<1>2. Readiness
  BY DEF Detector!Init, Readiness
<1> QED
  BY <1>1, <1>2

\* What can be read is of the stream looked at last.
LEMMA DetectorSafe ==
  ASSUME DetectorInv, Readiness
  PROVE  Detector!TypeOK /\ Detector!FramesAreLive
<1>1. \A i \in DOMAIN pictures :
        /\ newest # None /\ pictures[i].stream = newest.stream
        /\ \E j \in DOMAIN results : results[j] = pictures[i]
  <2> TAKE i \in DOMAIN pictures
  <2>1. newest # None /\ pictures[i].stream = newest.stream
    BY DEF DetectorInv
  <2>2. Len(results) - Len(pictures) + i \in DOMAIN results
    BY DEF DetectorInv
  <2> QED
    BY <2>1, <2>2 DEF DetectorInv
<1>2. \A i, j \in DOMAIN pictures : i < j => pictures[i].number < pictures[j].number
  BY DEF DetectorInv
<1>3. Detector!FramesAreLive
  BY <1>1, <1>2, Zenon DEF Readiness, Detector!FramesAreLive
<1>4. Detector!TypeOK
  <2>1. {input, previous, newest} \subseteq Detector!Shots \cup {None}
    BY DEF DetectorInv
  <2> QED
    BY <2>1, Zenon DEF DetectorInv, Readiness, Detector!TypeOK
<1> QED
  BY <1>3, <1>4

\* Newest: the last ones, in their order.
LEMMA NewestAre ==
  ASSUME NEW S, NEW s \in Seq(S), NEW n \in Nat
  PROVE  LET t == Detector!Newest(s, n)
         IN /\ t \in Seq(S) /\ Len(t) <= n /\ Len(t) <= Len(s)
            /\ Len(t) = IF Len(s) <= n THEN Len(s) ELSE n
            /\ \A i \in 1..Len(t) : t[i] = s[Len(s) - Len(t) + i]
<1>1. CASE Len(s) <= n
  BY <1>1 DEF Detector!Newest
<1>2. CASE ~(Len(s) <= n)
  <2>1. Detector!Newest(s, n) = SubSeq(s, Len(s) - n + 1, Len(s))
    BY <1>2 DEF Detector!Newest
  <2>2. Len(s) - n + 1 \in 1..(Len(s) + 1) /\ Len(s) \in Nat
    BY <1>2
  <2> QED
    BY <1>2, <2>1, <2>2
<1> QED
  BY <1>1, <1>2

\* The pictures are of one stream: all of them are of the new frame's, or none is.
LEMMA OfStreamIs ==
  ASSUME DetectorInv, round = "detecting"
  PROVE  \/ Detector!OfStream = pictures /\ (pictures # <<>> => previous.stream = input.stream)
         \/ Detector!OfStream = <<>>
<1> DEFINE Kept(f) ==
      f = [i \in 0..Len(pictures) |->
             IF i = 0 THEN <<>>
             ELSE IF Detector!SameStream(pictures[i]) THEN Append(f[i - 1], pictures[i])
             ELSE f[i - 1]]
           F == CHOOSE f : Kept(f)
<1>1. Detector!OfStream = F[Len(pictures)]
  BY Zenon DEF Detector!OfStream
<1>2. CASE \A i \in 1..Len(pictures) : Detector!SameStream(pictures[i])
  <2> DEFINE all == [i \in 0..Len(pictures) |-> SubSeq(pictures, 1, i)]
  <2>1. Kept(all)
    <3>1. ASSUME NEW i \in 0..Len(pictures)
          PROVE  all[i] = IF i = 0 THEN <<>>
                          ELSE IF Detector!SameStream(pictures[i])
                          THEN Append(all[i - 1], pictures[i]) ELSE all[i - 1]
      <4>1. CASE i = 0
        BY <4>1 DEF DetectorInv
      <4>2. CASE i # 0
        <5>1. Detector!SameStream(pictures[i])
          BY <1>2, <4>2
        <5>2. SubSeq(pictures, 1, i) = Append(SubSeq(pictures, 1, i - 1), pictures[i])
          BY <4>2 DEF DetectorInv
        <5>3. i - 1 \in 0..Len(pictures)
          BY <4>2 DEF DetectorInv
        <5> QED
          BY <4>2, <5>1, <5>2, <5>3
      <4> QED
        BY <4>1, <4>2
    <3>2. all = [i \in 0..Len(pictures) |-> all[i]]
      OBVIOUS
    <3> HIDE DEF all
    <3> QED
      BY <3>1, <3>2, Zenon
  <2>2. Kept(F)
    BY <2>1
  <2> DEFINE S == {i \in Nat : i <= Len(pictures) => F[i] = SubSeq(pictures, 1, i)}
  <2> HIDE DEF F
  <2>3. 0 \in S
    BY <2>2 DEF DetectorInv
  <2>4. ASSUME NEW i \in S PROVE i + 1 \in S
    <3> SUFFICES ASSUME i + 1 <= Len(pictures) PROVE F[i + 1] = SubSeq(pictures, 1, i + 1)
      OBVIOUS
    <3>1. i + 1 \in 1..Len(pictures) /\ i + 1 # 0 /\ (i + 1) - 1 = i /\ i + 1 \in 0..Len(pictures)
      BY DEF DetectorInv
    <3>2. Detector!SameStream(pictures[i + 1])
      BY <1>2, <3>1
    <3> DEFINE e(k) == IF k = 0 THEN <<>>
                       ELSE IF Detector!SameStream(pictures[k]) THEN Append(F[k - 1], pictures[k])
                       ELSE F[k - 1]
    <3>3. F = [k \in 0..Len(pictures) |-> e(k)]
      BY <2>2, Zenon
    <3>4. F[i + 1] = e(i + 1)
      <4> HIDE DEF e
      <4> QED
        BY <3>1, <3>3
    <3>5. F[i + 1] = Append(F[i], pictures[i + 1])
      BY <3>1, <3>2, <3>4
    <3>6. F[i] = SubSeq(pictures, 1, i)
      BY <3>1 DEF DetectorInv
    <3>7. SubSeq(pictures, 1, i + 1) = Append(SubSeq(pictures, 1, i), pictures[i + 1])
      BY <3>1 DEF DetectorInv
    <3> QED
      BY <3>5, <3>6, <3>7
  <2>5. S = Nat
    <3> HIDE DEF S
    <3>1. S \in SUBSET Nat
      BY DEF S
    <3> QED
      BY <2>3, <2>4, <3>1, OneByOne
  <2>6. Len(pictures) \in Nat
    BY DEF DetectorInv
  <2>7. F[Len(pictures)] = SubSeq(pictures, 1, Len(pictures))
    BY <2>5, <2>6
  <2>8. SubSeq(pictures, 1, Len(pictures)) = pictures
    BY DEF DetectorInv
  <2>9. pictures # <<>> => previous.stream = input.stream
    <3> SUFFICES ASSUME pictures # <<>> PROVE previous.stream = input.stream
      OBVIOUS
    <3>1. 1 \in 1..Len(pictures)
      BY DEF DetectorInv
    <3> QED
      BY <1>2, <3>1 DEF DetectorInv, Detector!SameStream
  <2> QED
    BY <1>1, <2>7, <2>8, <2>9
<1>3. CASE \E i \in 1..Len(pictures) : ~Detector!SameStream(pictures[i])
  <2>0. \A i \in 1..Len(pictures) : ~Detector!SameStream(pictures[i])
    BY <1>3 DEF DetectorInv, Detector!SameStream
  <2> DEFINE none == [i \in 0..Len(pictures) |-> <<>>]
  <2>1. Kept(none)
    <3>1. ASSUME NEW i \in 0..Len(pictures)
          PROVE  none[i] = IF i = 0 THEN <<>>
                           ELSE IF Detector!SameStream(pictures[i])
                           THEN Append(none[i - 1], pictures[i]) ELSE none[i - 1]
      <4>1. i # 0 => i \in 1..Len(pictures) /\ i - 1 \in 0..Len(pictures)
        BY DEF DetectorInv
      <4> QED
        BY <2>0, <4>1
    <3>2. none = [i \in 0..Len(pictures) |-> none[i]]
      OBVIOUS
    <3> HIDE DEF none
    <3> QED
      BY <3>1, <3>2, Zenon
  <2>2. Kept(F)
    BY <2>1
  <2> DEFINE S == {i \in Nat : i <= Len(pictures) => F[i] = <<>>}
  <2> HIDE DEF F
  <2>3. 0 \in S
    BY <2>2 DEF DetectorInv
  <2>4. ASSUME NEW i \in S PROVE i + 1 \in S
    <3> SUFFICES ASSUME i + 1 <= Len(pictures) PROVE F[i + 1] = <<>>
      OBVIOUS
    <3>1. i + 1 \in 1..Len(pictures) /\ i + 1 # 0 /\ (i + 1) - 1 = i /\ i + 1 \in 0..Len(pictures)
      BY DEF DetectorInv
    <3> DEFINE e(k) == IF k = 0 THEN <<>>
                       ELSE IF Detector!SameStream(pictures[k]) THEN Append(F[k - 1], pictures[k])
                       ELSE F[k - 1]
    <3>3. F = [k \in 0..Len(pictures) |-> e(k)]
      BY <2>2, Zenon
    <3>4. F[i + 1] = e(i + 1)
      <4> HIDE DEF e
      <4> QED
        BY <3>1, <3>3
    <3>5. F[i + 1] = F[i]
      BY <2>0, <3>1, <3>4
    <3>6. F[i] = <<>>
      BY <3>1 DEF DetectorInv
    <3> QED
      BY <3>5, <3>6
  <2>5. S = Nat
    <3> HIDE DEF S
    <3>1. S \in SUBSET Nat
      BY DEF S
    <3> QED
      BY <2>3, <2>4, <3>1, OneByOne
  <2>6. Len(pictures) \in Nat
    BY DEF DetectorInv
  <2> QED
    BY <1>1, <2>5, <2>6
<1> QED
  BY <1>2, <1>3

\* A shot and its parts.
LEMMA ShotIs ==
  ASSUME NEW s \in Detector!Shots
  PROVE  /\ s.stream \in 1..MaxStarts /\ s.number \in 1..MaxShots
         /\ s.stream \in Nat /\ s.number \in Nat /\ s # None
         /\ s = [stream |-> s.stream, number |-> s.number]
BY NodesAssumption DEF Detector!Shots

\* The node is ready while it has a newest shot.
LEMMA ReadinessStep ==
  ASSUME DetectorInv, Readiness, [Detector!Next]_Detector!vars
  PROVE  Readiness'
<1>1. CASE Detector!Shoot \/ Detector!StartOver \/ Detector!ReadFrame \/ Detector!Expire
  <2>1. UNCHANGED <<newest, ready>>
    BY <1>1 DEF Detector!Shoot, Detector!StartOver, Detector!ReadFrame, Detector!Expire,
                Detector!Kept
  <2> QED
    BY <2>1, Zenon DEF Readiness
<1>2. CASE Detector!RoundFails
  BY <1>2, Zenon DEF Detector!RoundFails, Readiness
<1>3. CASE Detector!Detected
  <2>1. newest' = input /\ ready' = TRUE /\ input # None
    BY <1>3, Zenon DEF Detector!Detected, DetectorInv
  <2> QED
    BY <2>1, Zenon DEF Readiness
<1>4. CASE UNCHANGED Detector!vars
  BY <1>4, Zenon DEF Detector!vars, Readiness
<1> QED
  BY <1>1, <1>2, <1>3, <1>4, Zenon DEF Detector!Next

\* What is kept are the newest pictures of one stream, in its order.
LEMMA DetectorStep ==
  ASSUME DetectorInv, [Detector!Next]_Detector!vars
  PROVE  DetectorInv'
<1> USE DEF Detector!Kept
<1>1. CASE Detector!Shoot \/ Detector!StartOver
  <2>0. shot \in Detector!Shots
    BY DEF DetectorInv
  <2>1. shot' \in Detector!Shots /\ Earlier(shot, shot')
    <3>1. CASE Detector!Shoot
      <4>1. shot.number < MaxShots /\ shot' = [shot EXCEPT !.number = shot.number + 1]
        BY <3>1 DEF Detector!Shoot
      <4>2. shot' = [stream |-> shot.stream, number |-> shot.number + 1]
        BY <2>0, <4>1, ShotIs
      <4>3. shot.number + 1 \in 1..MaxShots
        BY <2>0, <4>1, ShotIs, NodesAssumption
      <4> QED
        BY <2>0, <4>2, <4>3, ShotIs DEF Earlier, Detector!Shots
    <3>2. CASE Detector!StartOver
      <4>1. shot.stream < MaxStarts /\ shot' = [stream |-> shot.stream + 1, number |-> 1]
        BY <3>2 DEF Detector!StartOver
      <4>2. shot.stream + 1 \in 1..MaxStarts /\ 1 \in 1..MaxShots
        BY <2>0, <4>1, ShotIs, NodesAssumption
      <4> QED
        BY <2>0, <4>1, <4>2, ShotIs DEF Earlier, Detector!Shots
    <3> QED
      BY <1>1, <3>1, <3>2
  <2>3. ASSUME NEW s \in Detector!Shots, ~Earlier(shot, s) PROVE ~Earlier(shot', s)
    BY <2>0, <2>1, <2>3, ShotIs DEF Earlier
  <2>2. UNCHANGED <<round, input, previous, newest, pictures, results>>
    BY <1>1 DEF Detector!Shoot, Detector!StartOver
  <2> QED
    BY <2>1, <2>2, <2>3, NodesAssumption DEF DetectorInv
<1>2. CASE Detector!ReadFrame
  <2>1. /\ input' = shot /\ round' = "detecting" /\ shot # previous
        /\ UNCHANGED <<shot, previous, newest, pictures, results>>
    BY <1>2 DEF Detector!ReadFrame
  <2>2. shot \in Detector!Shots /\ shot # None /\ ~Earlier(shot, shot)
    BY ShotIs DEF DetectorInv, Earlier
  <2>3. ASSUME previous # None PROVE Earlier(previous, shot)
    <3>1. previous \in Detector!Shots /\ ~Earlier(shot, previous)
      BY <2>3 DEF DetectorInv
    <3>2. previous.stream # shot.stream \/ previous.number # shot.number
      BY <2>1, <2>2, <3>1, ShotIs
    <3> QED
      BY <2>2, <3>1, <3>2, ShotIs DEF Earlier
  <2> QED
    BY <2>1, <2>2, <2>3 DEF DetectorInv, Earlier
<1>3. CASE Detector!RoundFails
  <2>1. /\ round' = "reading" /\ newest' = None /\ pictures' = <<>>
        /\ UNCHANGED <<shot, input, previous, results>>
    BY <1>3 DEF Detector!RoundFails, Detector!Forgotten
  <2> QED
    BY <2>1, NodesAssumption DEF DetectorInv, Earlier
<1>4. CASE Detector!Detected
  <2> DEFINE of == Detector!OfStream
  <2>1. /\ round = "detecting" /\ round' = "reading" /\ newest' = input /\ previous' = input
        /\ results' = Detector!Newest(Append(results, input), ResultCapacity)
        /\ pictures' = Detector!Newest(Append(of, input), FrameCapacity)
        /\ UNCHANGED <<shot, input>>
    BY <1>4 DEF Detector!Detected, Detector!Retained
  <2>2. \/ of = pictures /\ (pictures # <<>> => previous.stream = input.stream)
        \/ of = <<>>
    BY <2>1, OfStreamIs
  <2> HIDE DEF of
  <2>3. /\ input \in Detector!Shots /\ input # None /\ ~Earlier(shot, input)
        /\ previous # None => Earlier(previous, input)
    BY <2>1, NodesAssumption DEF DetectorInv
  <2>4. /\ of \in Seq(Detector!Shots) /\ Len(of) <= FrameCapacity /\ Len(of) <= Len(results)
        /\ \A i \in 1..Len(of) : of[i] = results[Len(results) - Len(of) + i]
        /\ \A i, j \in 1..Len(of) : i < j => of[i].number < of[j].number
    <3>1. CASE of = pictures
      BY <3>1 DEF DetectorInv
    <3>2. CASE of = <<>>
      BY <3>2, NodesAssumption DEF DetectorInv
    <3> QED
      BY <2>2, <3>1, <3>2
  <2>5. \A i \in 1..Len(of) : of[i].stream = input.stream /\ of[i].number < input.number
    <3> SUFFICES ASSUME NEW i \in 1..Len(of)
                 PROVE  of[i].stream = input.stream /\ of[i].number < input.number
      OBVIOUS
    <3>1. of = pictures /\ previous.stream = input.stream /\ i \in 1..Len(pictures)
      BY <2>2
    <3>2. previous # None
      BY <3>1 DEF DetectorInv
    <3>3. previous.number < input.number
      BY <2>3, <3>1, <3>2, NodesAssumption DEF Earlier, DetectorInv, Detector!Shots
    <3>4. pictures[i].stream = previous.stream /\ pictures[i].number <= previous.number
      BY <3>1 DEF DetectorInv
    <3>5. pictures[i] \in Detector!Shots /\ previous \in Detector!Shots
      BY <3>1, <3>2 DEF DetectorInv
    <3> QED
      BY <2>3, <3>1, <3>3, <3>4, <3>5, NodesAssumption DEF Detector!Shots
  <2> DEFINE more == Append(of, input)
             all == Append(results, input)
  <2>6. /\ more \in Seq(Detector!Shots) /\ Len(more) = Len(of) + 1
        /\ \A i \in 1..Len(more) : more[i] = IF i = Len(more) THEN input ELSE of[i]
    BY <2>3, <2>4
  <2>7. /\ all \in Seq(Detector!Shots) /\ Len(all) = Len(results) + 1
        /\ \A i \in 1..Len(all) : all[i] = IF i = Len(all) THEN input ELSE results[i]
    BY <2>3 DEF DetectorInv
  <2>8. \A i, j \in 1..Len(more) : i < j => more[i].number < more[j].number
    BY <2>4, <2>5, <2>6
  <2>9. \A i \in 1..Len(more) : more[i].stream = input.stream /\ more[i].number <= input.number
    <3>1. \A i \in 1..Len(of) : of[i].number \in Nat
      BY <2>4, ShotIs
    <3> QED
      BY <2>3, <2>5, <2>6, <3>1, ShotIs
  <2>10. ASSUME NEW i \in 1..Len(more) PROVE more[i] = all[Len(all) - Len(more) + i]
    <3>1. CASE i = Len(more)
      BY <2>6, <2>7, <3>1
    <3>2. CASE i # Len(more)
      <4>1. i \in 1..Len(of) /\ Len(all) - Len(more) + i = Len(results) - Len(of) + i
            /\ Len(all) - Len(more) + i \in 1..Len(results)
        BY <2>4, <2>6, <2>7, <3>2 DEF DetectorInv
      <4>2. of[i] = results[Len(results) - Len(of) + i]
        BY <2>4, <4>1
      <4> QED
        BY <2>6, <2>7, <3>2, <4>1, <4>2
    <3> QED
      BY <3>1, <3>2
  <2>11. Len(more) <= Len(all)
    BY <2>4, <2>6, <2>7 DEF DetectorInv
  <2> HIDE DEF more, all
  <2>0. FrameCapacity \in Nat /\ ResultCapacity \in Nat
    BY NodesAssumption
  <2>12. /\ pictures' \in Seq(Detector!Shots) /\ Len(pictures') <= FrameCapacity
         /\ Len(pictures') = IF Len(more) <= FrameCapacity THEN Len(more) ELSE FrameCapacity
         /\ Len(pictures') <= Len(more)
         /\ \A i \in 1..Len(pictures') : pictures'[i] = more[Len(more) - Len(pictures') + i]
    <3>1. pictures' = Detector!Newest(more, FrameCapacity)
      BY <2>1 DEF more
    <3>2. more \in Seq(Detector!Shots)
      BY <2>6
    <3> DEFINE t == Detector!Newest(more, FrameCapacity)
    <3>3. /\ t \in Seq(Detector!Shots) /\ Len(t) <= FrameCapacity /\ Len(t) <= Len(more)
          /\ Len(t) = IF Len(more) <= FrameCapacity THEN Len(more) ELSE FrameCapacity
          /\ \A i \in 1..Len(t) : t[i] = more[Len(more) - Len(t) + i]
      BY <2>0, <3>2, NewestAre
    <3> HIDE DEF t
    <3> QED
      BY <3>1, <3>3 DEF t
  <2>13. /\ results' \in Seq(Detector!Shots) /\ Len(results') <= ResultCapacity
         /\ Len(results') = IF Len(all) <= ResultCapacity THEN Len(all) ELSE ResultCapacity
         /\ Len(results') <= Len(all)
         /\ \A i \in 1..Len(results') : results'[i] = all[Len(all) - Len(results') + i]
    <3>1. results' = Detector!Newest(all, ResultCapacity)
      BY <2>1 DEF all
    <3>2. all \in Seq(Detector!Shots)
      BY <2>7
    <3> DEFINE t == Detector!Newest(all, ResultCapacity)
    <3>3. /\ t \in Seq(Detector!Shots) /\ Len(t) <= ResultCapacity /\ Len(t) <= Len(all)
          /\ Len(t) = IF Len(all) <= ResultCapacity THEN Len(all) ELSE ResultCapacity
          /\ \A i \in 1..Len(t) : t[i] = all[Len(all) - Len(t) + i]
      BY <2>0, <3>2, NewestAre
    <3> HIDE DEF t
    <3> QED
      BY <3>1, <3>3 DEF t
  <2>14. Len(pictures') <= Len(results')
    BY <2>6, <2>7, <2>11, <2>12, <2>13, NodesAssumption
  <2>15. \A i \in 1..Len(pictures') :
           Len(more) - Len(pictures') + i \in 1..Len(more)
    BY <2>6, <2>12
  <2>16. ASSUME NEW i \in 1..Len(pictures')
         PROVE  pictures'[i] = results'[Len(results') - Len(pictures') + i]
    <3> DEFINE m == Len(more) - Len(pictures') + i
               k == Len(results') - Len(pictures') + i
    <3>1. m \in 1..Len(more) /\ pictures'[i] = more[m]
      BY <2>12, <2>15
    <3>2. more[m] = all[Len(all) - Len(more) + m]
      BY <2>10, <3>1
    <3>3. k \in 1..Len(results') /\ Len(all) - Len(results') + k = Len(all) - Len(more) + m
      <4>1. /\ Len(results') \in Nat /\ Len(pictures') \in Nat /\ Len(pictures') <= Len(results')
            /\ Len(all) \in Nat /\ Len(more) \in Nat
        BY <2>6, <2>7, <2>12, <2>13, <2>14
      <4> QED
        BY <4>1
    <3>4. results'[k] = all[Len(all) - Len(results') + k]
      BY <2>13, <3>3
    <3> HIDE DEF m
    <3> QED
      BY <3>1, <3>2, <3>3, <3>4
  <2>17. ASSUME NEW i \in 1..Len(pictures'), NEW j \in 1..Len(pictures'), i < j
         PROVE  pictures'[i].number < pictures'[j].number
    <3>1. Len(more) - Len(pictures') + i < Len(more) - Len(pictures') + j
      BY <2>6, <2>12, <2>17
    <3> QED
      BY <2>8, <2>12, <2>15, <3>1
  <2>18. \A i \in 1..Len(pictures') :
           pictures'[i].stream = previous'.stream /\ pictures'[i].number <= previous'.number
    BY <2>1, <2>9, <2>12, <2>15
  <2>19. previous' # None => ~Earlier(shot', previous')
    BY <2>1, <2>3 DEF Earlier
  <2> QED
    BY <2>1, <2>3, <2>12, <2>13, <2>14, <2>16, <2>17, <2>18, <2>19 DEF DetectorInv
<1>5. CASE Detector!Expire
  <2>1. /\ pictures # <<>> /\ pictures' = Tail(pictures)
        /\ UNCHANGED <<shot, round, input, previous, newest, results>>
    BY <1>5 DEF Detector!Expire
  <2>2. /\ pictures' \in Seq(Detector!Shots) /\ Len(pictures') = Len(pictures) - 1
        /\ \A i \in 1..Len(pictures') : pictures'[i] = pictures[i + 1] /\ i + 1 \in 1..Len(pictures)
    BY <2>1 DEF DetectorInv
  <2>3. ASSUME NEW i \in 1..Len(pictures'), NEW j \in 1..Len(pictures'), i < j
        PROVE  pictures'[i].number < pictures'[j].number
    <3>1. i + 1 < j + 1 /\ i + 1 \in 1..Len(pictures) /\ j + 1 \in 1..Len(pictures)
      BY <2>2, <2>3
    <3>2. pictures[i + 1].number < pictures[j + 1].number
      BY <3>1 DEF DetectorInv
    <3> QED
      BY <2>2, <3>2
  <2>4. ASSUME NEW i \in 1..Len(pictures')
        PROVE  pictures'[i] = results'[Len(results') - Len(pictures') + i]
    <3>1. i + 1 \in 1..Len(pictures)
      BY <2>2
    <3>2. pictures[i + 1] = results[Len(results) - Len(pictures) + (i + 1)]
      BY <3>1 DEF DetectorInv
    <3>3. Len(results) - Len(pictures) + (i + 1) = Len(results') - Len(pictures') + i
      BY <2>1, <2>2 DEF DetectorInv
    <3> QED
      BY <2>1, <2>2, <3>2, <3>3
  <2>5. Len(pictures') <= FrameCapacity /\ Len(pictures') <= Len(results')
    BY <2>1, <2>2, NodesAssumption DEF DetectorInv
  <2>6. newest' # None
    BY <2>1 DEF DetectorInv
  <2>7. previous' # None => ~Earlier(shot', previous')
    BY <2>1 DEF DetectorInv, Earlier
  <2>8. round' = "detecting" => /\ input' # None /\ ~Earlier(shot', input')
                                /\ previous' # None => Earlier(previous', input')
    BY <2>1 DEF DetectorInv, Earlier
  <2>9. \A i \in 1..Len(pictures') :
          pictures'[i].stream = previous'.stream /\ pictures'[i].number <= previous'.number
    BY <2>1, <2>2 DEF DetectorInv
  <2> QED
    BY <2>1, <2>2, <2>3, <2>4, <2>5, <2>6, <2>7, <2>8, <2>9 DEF DetectorInv
<1>6. CASE UNCHANGED Detector!vars
  BY <1>6 DEF Detector!vars, DetectorInv, Earlier
<1> QED
  BY <1>1, <1>2, <1>3, <1>4, <1>5, <1>6 DEF Detector!Next

-------------------------------------------------------------------------------
(***************************************************************************)
(* PlanCache.                                                              *)
(***************************************************************************)

CacheEntries == [intent : Intents, when : Cache!Conditions]

\* Every kept plan has proved itself, and an intent has one at most.
KeptPlans(kept, proved) ==
  /\ kept \in Seq(CacheEntries)
  /\ \A i \in 1..Len(kept) : kept[i] \in proved
  /\ \A i, j \in 1..Len(kept) : i # j => kept[i].intent # kept[j].intent

CacheInv ==
  /\ place \in [Intents -> Places \cup {None}] /\ setup \in 0..MaxSetups
  /\ KeptPlans(entries, verified) /\ Len(entries) <= PlansKept
  /\ verified \subseteq CacheEntries
  /\ \/ goal = Cache!NoGoal
     \/ goal \in [pc : {"planning", "executing"}, intent : Intents,
                  at : Cache!Conditions \cup {None}, transfer : BOOLEAN, cached : BOOLEAN]

\* Nothing was kept.
LEMMA CacheInit == Cache!Init => CacheInv
BY NodesAssumption DEF Cache!Init, CacheInv, KeptPlans

\* What the invariant says of the variables.
LEMMA CacheTyped == CacheInv => Cache!TypeOK
BY DEF CacheInv, KeptPlans, CacheEntries, Cache!TypeOK

\* Without: the others stay.
LEMMA WithoutIs ==
  ASSUME CacheInv, NEW intent
  PROVE  /\ KeptPlans(Cache!Without(intent), {v \in verified : v.intent # intent})
         /\ Len(Cache!Without(intent)) <= Len(entries)
         /\ Cache!Positions(intent) # {} => Len(Cache!Without(intent)) = Len(entries) - 1
<1> DEFINE some == Cache!Positions(intent)
<1>0. /\ entries \in Seq(CacheEntries) /\ some = {i \in 1..Len(entries) : entries[i].intent = intent}
      /\ \A i \in 1..Len(entries) : entries[i] \in verified
      /\ \A i, j \in 1..Len(entries) : i # j => entries[i].intent # entries[j].intent
  BY DEF CacheInv, KeptPlans, Cache!Positions
<1> HIDE DEF some
<1>1. CASE some = {}
  <2>1. Cache!Without(intent) = entries
    BY <1>1 DEF Cache!Without, some
  <2> QED
    BY <1>0, <1>1, <2>1 DEF KeptPlans, some
<1>2. CASE some # {}
  <2> DEFINE k == CHOOSE i \in some : TRUE
             rest == Cache!Without(intent)
  <2>1. k \in some /\ k \in 1..Len(entries) /\ entries[k].intent = intent
    BY <1>0, <1>2
  <2>2. rest = SubSeq(entries, 1, k - 1) \o SubSeq(entries, k + 1, Len(entries))
    BY <1>2 DEF Cache!Without, Cache!RemoveAt, some
  <2> HIDE DEF k
  <2>3. /\ rest \in Seq(CacheEntries) /\ Len(rest) = Len(entries) - 1
        /\ \A i \in 1..Len(rest) : rest[i] = IF i < k THEN entries[i] ELSE entries[i + 1]
    <3>1. k \in 1..Len(entries) /\ Len(entries) \in Nat /\ entries \in Seq(CacheEntries)
      BY <1>0, <2>1
    <3> DEFINE head == SubSeq(entries, 1, k - 1)
               last == SubSeq(entries, k + 1, Len(entries))
    <3>2. /\ head \in Seq(CacheEntries) /\ Len(head) = k - 1
          /\ \A i \in 1..Len(head) : head[i] = entries[i]
      BY <3>1
    <3>3. /\ last \in Seq(CacheEntries) /\ Len(last) = Len(entries) - k
          /\ \A i \in 1..Len(last) : last[i] = entries[k + i]
      BY <3>1
    <3> HIDE DEF head, last
    <3>4. /\ head \o last \in Seq(CacheEntries) /\ Len(head \o last) = Len(head) + Len(last)
          /\ \A i \in 1..Len(head \o last) :
               (head \o last)[i] = IF i <= Len(head) THEN head[i] ELSE last[i - Len(head)]
      <4>1. head \in Seq(CacheEntries) /\ last \in Seq(CacheEntries)
        BY <3>2, <3>3
      <4>2. /\ head \o last \in Seq(CacheEntries) /\ Len(head \o last) = Len(head) + Len(last)
            /\ \A i \in 1..Len(head) + Len(last) :
                 (head \o last)[i] = IF i <= Len(head) THEN head[i] ELSE last[i - Len(head)]
        BY <4>1, ConcatProperties, Zenon
      <4> QED
        BY <4>2
    <3>5. rest = head \o last
      BY <2>2 DEF head, last
    <3> HIDE DEF rest
    <3>6. Len(rest) = Len(entries) - 1
      <4>1. Len(rest) = Len(head) + Len(last)
        BY <3>4, <3>5
      <4>2. Len(head) = k - 1 /\ Len(last) = Len(entries) - k
        BY <3>2, <3>3
      <4>3. k \in Int /\ Len(entries) \in Int
        BY <3>1
      <4> QED
        BY <4>1, <4>2, <4>3
    <3>7. ASSUME NEW i \in 1..Len(rest)
          PROVE  rest[i] = IF i < k THEN entries[i] ELSE entries[i + 1]
      <4>1. CASE i < k
        BY <3>1, <3>2, <3>4, <3>5, <4>1
      <4>2. CASE ~(i < k)
        <5>1. i - (k - 1) \in 1..Len(last) /\ k + (i - (k - 1)) = i + 1
          BY <3>1, <3>3, <3>6, <4>2
        <5>2. rest[i] = last[i - (k - 1)]
          BY <3>1, <3>2, <3>4, <3>5, <4>2
        <5> QED
          BY <3>3, <4>2, <5>1, <5>2
      <4> QED
        BY <4>1, <4>2
    <3> QED
      BY <3>4, <3>5, <3>6, <3>7
  <2> HIDE DEF rest
  <2>4. ASSUME NEW i \in 1..Len(rest)
        PROVE  \E m \in 1..Len(entries) : rest[i] = entries[m] /\ m # k /\ m = IF i < k THEN i ELSE i + 1
    BY <1>0, <2>1, <2>3
  <2>5. \A i \in 1..Len(rest) : rest[i] \in verified /\ rest[i].intent # intent
    BY <1>0, <2>1, <2>4
  <2>6. ASSUME NEW i \in 1..Len(rest), NEW j \in 1..Len(rest), i # j
        PROVE  rest[i].intent # rest[j].intent
    <3>1. PICK m \in 1..Len(entries) : rest[i] = entries[m] /\ m = IF i < k THEN i ELSE i + 1
      BY <2>4
    <3>2. PICK n \in 1..Len(entries) : rest[j] = entries[n] /\ n = IF j < k THEN j ELSE j + 1
      BY <2>4
    <3>3. m # n
      BY <1>0, <2>1, <2>3, <2>6, <3>1, <3>2
    <3> QED
      BY <1>0, <3>1, <3>2, <3>3
  <2>7. KeptPlans(rest, {v \in verified : v.intent # intent}) /\ Len(rest) = Len(entries) - 1
    BY <2>3, <2>5, <2>6 DEF KeptPlans
  <2> QED
    BY <1>0, <2>7 DEF rest
<1> QED
  BY <1>1, <1>2

\* What is put last is of an intent that none of the others has.
LEMMA KeptOneMore ==
  ASSUME NEW kept, NEW proved \in SUBSET CacheEntries, NEW e \in proved,
         KeptPlans(kept, {v \in proved : v.intent # e.intent})
  PROVE  KeptPlans(Append(kept, e), proved) /\ Len(Append(kept, e)) = Len(kept) + 1
<1>1. /\ kept \in Seq(CacheEntries) /\ e \in CacheEntries
      /\ \A i \in 1..Len(kept) : kept[i] \in proved /\ kept[i].intent # e.intent
      /\ \A i, j \in 1..Len(kept) : i # j => kept[i].intent # kept[j].intent
  BY DEF KeptPlans
<1>2. /\ Append(kept, e) \in Seq(CacheEntries) /\ Len(Append(kept, e)) = Len(kept) + 1
      /\ \A i \in 1..Len(Append(kept, e)) :
           Append(kept, e)[i] = IF i = Len(kept) + 1 THEN e ELSE kept[i]
  BY <1>1
<1> QED
  BY <1>1, <1>2 DEF KeptPlans

\* Without the oldest.
LEMMA KeptLess ==
  ASSUME NEW kept, NEW proved, KeptPlans(kept, proved), kept # <<>>
  PROVE  KeptPlans(Tail(kept), proved) /\ Len(Tail(kept)) = Len(kept) - 1
<1>1. /\ Tail(kept) \in Seq(CacheEntries) /\ Len(Tail(kept)) = Len(kept) - 1
      /\ \A i \in 1..Len(Tail(kept)) : Tail(kept)[i] = kept[i + 1] /\ i + 1 \in 1..Len(kept)
  BY DEF KeptPlans
<1>2. ASSUME NEW i \in 1..Len(Tail(kept)), NEW j \in 1..Len(Tail(kept)), i # j
      PROVE  Tail(kept)[i].intent # Tail(kept)[j].intent
  <2>1. i + 1 # j + 1 /\ i + 1 \in 1..Len(kept) /\ j + 1 \in 1..Len(kept)
    BY <1>1, <1>2
  <2>2. kept[i + 1].intent # kept[j + 1].intent
    BY <2>1 DEF KeptPlans
  <2> QED
    BY <1>1, <2>2
<1> QED
  BY <1>1, <1>2 DEF KeptPlans

\* More may have proved itself than is kept.
LEMMA KeptMore ==
  ASSUME NEW kept, NEW some, KeptPlans(kept, some), NEW proved, some \subseteq proved
  PROVE  KeptPlans(kept, proved)
BY DEF KeptPlans

Goals == [pc : {"planning", "executing"}, intent : Intents,
          at : Cache!Conditions \cup {None}, transfer : BOOLEAN, cached : BOOLEAN]

\* What is found was verified where it is used.
LEMMA CacheLookup ==
  ASSUME CacheInv, NEW intent \in Intents, Cache!Lookup(intent)
  PROVE  CacheInv' /\ Cache!CachedAsVerified
<1> DEFINE now == Cache!Applicability(intent)
           hits == {i \in Cache!Positions(intent) : now # None /\ Cache!Applies(entries[i], now)}
<1>1. now \in Cache!Conditions \cup {None}
  BY NodesAssumption DEF CacheInv, Cache!Applicability, Cache!Conditions
<1>2. goal = Cache!NoGoal /\ UNCHANGED <<place, setup, verified>>
  BY DEF Cache!Lookup
<1>3. CASE hits = {}
  <2>1. /\ goal' = [pc |-> "planning", intent |-> intent, at |-> now,
                    transfer |-> FALSE, cached |-> FALSE]
        /\ UNCHANGED entries
    BY <1>3 DEF Cache!Lookup
  <2> HIDE DEF now
  <2>2. goal' \in Goals /\ goal'.cached = FALSE
    BY <1>1, <2>1 DEF Goals
  <2> QED
    BY <1>2, <2>1, <2>2 DEF CacheInv, Goals, Cache!CachedAsVerified
<1>4. CASE hits # {}
  <2>1. /\ goal' = [pc |-> "executing", intent |-> intent, at |-> now,
                    transfer |-> TRUE, cached |-> TRUE]
        /\ \E i \in hits : entries' = Append(Cache!Without(intent), entries[i])
    BY <1>4 DEF Cache!Lookup
  <2>2. PICK i \in hits : entries' = Append(Cache!Without(intent), entries[i])
    BY <2>1
  <2> DEFINE e == entries[i]
  <2>3. i \in 1..Len(entries) /\ i \in Cache!Positions(intent)
        /\ e.intent = intent /\ e.when = now /\ e \in verified /\ e \in CacheEntries
    BY DEF Cache!Positions, Cache!Applies, CacheInv, KeptPlans
  <2>4. e = [intent |-> intent, when |-> now]
    BY <2>3 DEF CacheEntries
  <2> HIDE DEF e, now
  <2>5. KeptPlans(entries', verified) /\ Len(entries') = Len(entries)
    <3>1. KeptPlans(Cache!Without(intent), {v \in verified : v.intent # e.intent})
          /\ Len(Cache!Without(intent)) = Len(entries) - 1
      BY <2>3, WithoutIs
    <3>2. verified \in SUBSET CacheEntries
      BY DEF CacheInv
    <3>3. KeptPlans(Append(Cache!Without(intent), e), verified)
          /\ Len(Append(Cache!Without(intent), e)) = Len(Cache!Without(intent)) + 1
      BY <2>3, <3>1, <3>2, KeptOneMore
    <3>4. Len(entries) \in Nat
      BY DEF CacheInv, KeptPlans
    <3> QED
      BY <2>2, <3>1, <3>3, <3>4 DEF e
  <2>6. goal' \in Goals /\ goal'.intent = intent /\ goal'.at = now
    BY <1>1, <2>1 DEF Goals
  <2>7. Cache!CachedAsVerified
    BY <2>3, <2>4, <2>6 DEF Cache!CachedAsVerified
  <2> QED
    BY <1>2, <2>5, <2>6, <2>7 DEF CacheInv, Goals
<1> QED
  BY <1>3, <1>4

\* A kept plan has proved itself in the place it is kept for.
LEMMA CacheStep ==
  ASSUME CacheInv, [Cache!Next]_Cache!vars
  PROVE  CacheInv' /\ [Cache!CachedAsVerified]_Cache!vars
<1>1. ASSUME NEW intent \in Intents, Cache!Lookup(intent)
      PROVE  CacheInv' /\ Cache!CachedAsVerified
  BY <1>1, CacheLookup
<1>2. ASSUME NEW intent \in Intents, NEW to \in Places \cup {None}, Cache!Moved(intent, to)
      PROVE  CacheInv' /\ Cache!CachedAsVerified
  BY <1>2 DEF Cache!Moved, CacheInv, Cache!CachedAsVerified
<1>3. CASE Cache!SetUp
  BY <1>3, NodesAssumption DEF Cache!SetUp, CacheInv, Cache!CachedAsVerified
<1>4. CASE Cache!Propose
  <2>1. goal \in Goals /\ goal # Cache!NoGoal
    BY <1>4 DEF Cache!Propose, Cache!NoGoal, CacheInv, Goals
  <2>2. goal' \in Goals
    BY <1>4, <2>1 DEF Cache!Propose, Goals
  <2>3. UNCHANGED <<place, setup, entries, verified>>
    BY <1>4 DEF Cache!Propose
  <2> QED
    BY <2>1, <2>2, <2>3 DEF CacheInv, Goals, Cache!CachedAsVerified
<1>5. CASE Cache!NotPlanned \/ Cache!Fails \/ Cache!Replaced \/ \E to \in Places : Cache!Succeeds(to)
  <2>1. goal \in Goals /\ goal' = Cache!NoGoal
    BY <1>5 DEF Cache!NotPlanned, Cache!Fails, Cache!Replaced, Cache!Succeeds, Cache!NoGoal,
                CacheInv, Goals
  <2>2. goal.intent \in Intents /\ goal.at \in Cache!Conditions \cup {None}
    BY <2>1 DEF Goals
  <2> DEFINE without == Cache!Without(goal.intent)
             others == {v \in verified : v.intent # goal.intent}
  <2>3. KeptPlans(without, others) /\ Len(without) <= Len(entries) /\ Len(entries) <= PlansKept
        /\ Len(without) \in Nat /\ Len(entries) \in Nat
    BY WithoutIs DEF CacheInv, KeptPlans
  <2>4. KeptPlans(without, verified) /\ Len(without) <= PlansKept
    BY <2>3, KeptMore, NodesAssumption
  <2> HIDE DEF without
  <2>5. ASSUME Cache!NotPlanned PROVE CacheInv'
    BY <2>1, <2>4, <2>5 DEF Cache!NotPlanned, CacheInv, without
  <2>6. ASSUME Cache!Fails PROVE CacheInv'
    <3>1. entries' = without /\ verified' = others /\ UNCHANGED <<place, setup>>
      BY <2>6 DEF Cache!Fails, without
    <3> QED
      BY <2>1, <2>3, <2>4, <3>1 DEF CacheInv
  <2>7. ASSUME Cache!Replaced PROVE CacheInv'
    BY <2>1, <2>7 DEF Cache!Replaced, CacheInv
  <2>8. ASSUME NEW to \in Places, Cache!Succeeds(to) PROVE CacheInv'
    <3>1. place' \in [Intents -> Places \cup {None}] /\ setup' \in 0..MaxSetups
      BY <2>2, <2>8 DEF Cache!Succeeds, CacheInv
    <3> DEFINE e == [intent |-> goal.intent, when |-> goal.at]
    <3>2. verified' \subseteq CacheEntries /\ verified \subseteq verified'
          /\ (goal.at # None => e \in verified')
      BY <2>2, <2>8 DEF Cache!Succeeds, CacheInv, CacheEntries
    <3>3. CASE goal.at = None \/ ~goal.transfer
      <4>1. entries' = entries
        BY <2>8, <3>3 DEF Cache!Succeeds, Cache!Remember
      <4> QED
        BY <2>1, <3>1, <3>2, <4>1, KeptMore DEF CacheInv
    <3>4. CASE goal.at # None /\ goal.transfer
      <4> DEFINE kept == Append(without, e)
      <4>1. entries' = IF Len(kept) > PlansKept THEN Tail(kept) ELSE kept
        BY <2>8, <3>4 DEF Cache!Succeeds, Cache!Remember, without
      <4>2. e \in verified' /\ verified' \in SUBSET CacheEntries
            /\ KeptPlans(without, {v \in verified' : v.intent # e.intent})
        <5>1. others \subseteq {v \in verified' : v.intent # e.intent}
          BY <3>2
        <5> QED
          BY <2>3, <3>2, <3>4, <5>1, KeptMore
      <4>3. KeptPlans(kept, verified') /\ Len(kept) = Len(without) + 1
        <5> HIDE DEF e
        <5> QED
          BY <4>2, KeptOneMore
      <4> HIDE DEF kept
      <4>4. Len(kept) \in Nat /\ kept # <<>>
        BY <2>3, <4>3
      <4>5. KeptPlans(Tail(kept), verified') /\ Len(Tail(kept)) = Len(kept) - 1
        BY <4>3, <4>4, KeptLess
      <4>6. KeptPlans(entries', verified') /\ Len(entries') <= PlansKept
        BY <2>3, <2>4, <4>1, <4>3, <4>4, <4>5, NodesAssumption
      <4> QED
        BY <2>1, <3>1, <3>2, <4>6 DEF CacheInv
    <3> QED
      BY <3>3, <3>4
  <2>9. Cache!CachedAsVerified
    BY <2>1 DEF Cache!CachedAsVerified
  <2> QED
    BY <1>5, <2>5, <2>6, <2>7, <2>8, <2>9
<1>6. CASE UNCHANGED Cache!vars
  BY <1>6 DEF Cache!vars, CacheInv
<1> QED
  BY <1>1, <1>2, <1>3, <1>4, <1>5, <1>6 DEF Cache!Next

(***************************************************************************)
(* VoiceInput.                                                             *)
(***************************************************************************)

Records(v) ==
  [state : {"absent", "PENDING", "UNKNOWN", "CONFIRMED"}, stage : Voice(v)!Stages,
   bound : Voice(v)!Times \cup {None}, agentFailed : BOOLEAN, accepted : BOOLEAN]

\* What was said in a press that leaves the node was recorded until a release.
Spoken(v) ==
  /\ press \in Voice(v)!Session \cup {None} /\ heard \in Seq(Presses)
  /\ spoken \subseteq released /\ released \subseteq Presses
  /\ press # None /\ press.finishing # "no" => press.id \in released

\* An event is bound to the time of the first snapshot, and its node has stopped
\* for it in no other; a stop that was confirmed, and not as a refusal, is so by the
\* agent's task, by that stop, or because there was nothing to cancel. Of one event:
\* r is its record, f the time it was first bound to, h the holds, and a what the
\* agent found.
EventOk(v, e, r, f, h, a, q, rel) ==
  /\ r.bound = f
  /\ \A t \in Voice(v)!Times : <<e, t>> \in h => t = f
  /\ r.stage # "idle" => r.state = "PENDING"
  /\ r.stage = "delivering" => ~Voice(v)!Stops(e)
  /\ r.state # "absent" => e \in rel \/ Voice(v)!Replayed(e)
  /\ Voice(v)!Stops(e) /\ r.state = "CONFIRMED" /\ (r.accepted \/ ~Voice(v)!Replayed(e)) =>
       a = "task" \/ (\E t \in Voice(v)!Times : <<e, t>> \in h) \/ e \in q

\* What the agent, the robot and the TTS node can be in.
Around(v) ==
  /\ first \in [Presses -> Voice(v)!Times \cup {None}] /\ quiet \subseteq Presses
  /\ epoch \in 0..VoiceEpochs[v] /\ held \in BOOLEAN
  /\ tts \in [epoch : 0..VoiceEpochs[v], action : 0..VoiceEpochs[v], active : BOOLEAN]
  /\ holds \subseteq Presses \X Voice(v)!Times
  /\ agent \in [Presses -> {"unasked", "task", "idle"}]

Bound(v) ==
  /\ record \in [Presses -> Records(v)] /\ Around(v)
  /\ \A e \in Presses : EventOk(v, e, record[e], first[e], holds, agent[e], quiet, released)

VoiceInv(v) == Spoken(v) /\ Bound(v)

\* Nothing was said.
LEMMA VoiceInit == \A v \in Voices : Voice(v)!Init => VoiceInv(v)
<1> SUFFICES ASSUME NEW v \in Voices, Voice(v)!Init PROVE VoiceInv(v)
  OBVIOUS
<1>1. VoiceEpochs[v] \in Nat
  BY NodesAssumption
<1>2. Spoken(v)
  BY DEF Spoken, Voice!Init
<1>3. record = [e \in Presses |-> [state |-> "absent", stage |-> "idle", bound |-> None,
                                  agentFailed |-> FALSE, accepted |-> FALSE]]
  BY DEF Voice!Init
<1>4. record \in [Presses -> Records(v)]
  BY <1>3 DEF Records, Voice!Stages
<1>5. Around(v)
  <2>1. /\ first \in [Presses -> Voice(v)!Times \cup {None}] /\ quiet \subseteq Presses
        /\ holds \subseteq Presses \X Voice(v)!Times
        /\ agent \in [Presses -> {"unasked", "task", "idle"}]
    <3>1. /\ first = [e \in Presses |-> None] /\ quiet = {} /\ holds = {}
          /\ agent = [e \in Presses |-> "unasked"]
      BY DEF Voice!Init
    <3> QED
      BY <3>1
  <2>2. /\ epoch = 0 /\ held = FALSE
        /\ tts = [epoch |-> 0, action |-> 0, active |-> FALSE]
    BY DEF Voice!Init
  <2>3. 0 \in 0..VoiceEpochs[v]
    BY <1>1
  <2> QED
    BY <2>1, <2>2, <2>3 DEF Around
<1>6. ASSUME NEW e \in Presses
      PROVE  EventOk(v, e, record[e], first[e], holds, agent[e], quiet, released)
  <2>1. /\ record[e].bound = None /\ record[e].stage = "idle" /\ record[e].state = "absent"
        /\ first[e] = None /\ holds = {}
    BY <1>3 DEF Voice!Init
  <2> QED
    BY <2>1 DEF EventOk
<1> QED
  BY <1>2, <1>4, <1>5, <1>6 DEF VoiceInv, Bound

\* The button.
LEMMA SpokenStep ==
  ASSUME NEW v \in Voices, Spoken(v), [Voice(v)!Next]_voice
  PROVE  Spoken(v)' /\ released \subseteq released'
<1> USE DEF Spoken, Voice!voice, Voice!peers, Voice!Session, Voice!Current
<1>0. HistoryOf[v] \in Nat \ {0} /\ Len(heard) \in Nat
  BY NodesAssumption
<1>1. ASSUME NEW id \in Presses, Voice(v)!Begin(id) PROVE Spoken(v)' /\ released \subseteq released'
  BY <1>1 DEF Voice!Begin
<1>2. ASSUME Voice(v)!Captured PROVE Spoken(v)' /\ released \subseteq released'
  BY <1>2 DEF Voice!Captured
<1>3. ASSUME NEW id \in Presses, Voice(v)!End(id) PROVE Spoken(v)' /\ released \subseteq released'
  BY <1>3 DEF Voice!End
<1>4. ASSUME press # None, heard' = IF Len(heard) < HistoryOf[v] THEN Append(heard, press.id)
                      ELSE Append(Tail(heard), press.id)
      PROVE  heard' \in Seq(Presses)
  BY <1>0, <1>4
<1>5. ASSUME Voice(v)!Recognize PROVE Spoken(v)' /\ released \subseteq released'
  BY <1>4, <1>5 DEF Voice!Recognize
<1>6. ASSUME Voice(v)!Forwarded PROVE Spoken(v)' /\ released \subseteq released'
  BY <1>4, <1>6 DEF Voice!Forwarded
<1>7. ASSUME \/ \E e \in Presses : \/ Voice(v)!Handle(e) \/ Voice(v)!Interrupt(e)
                                   \/ Voice(v)!Bind(e) \/ Voice(v)!Hold(e) \/ Voice(v)!Deliver(e)
             \/ Voice(v)!Reopen \/ Voice(v)!Talk
      PROVE  UNCHANGED <<press, heard, spoken, released>>
  BY <1>7 DEF Voice!Handle, Voice!Interrupt, Voice!Bind, Voice!Hold, Voice!Deliver, Voice!Reopen,
              Voice!Talk, Voice!asr
<1>8. CASE UNCHANGED voice
  BY <1>8 DEF voice
<1> QED
  BY <1>1, <1>2, <1>3, <1>5, <1>6, <1>7, <1>8 DEF Voice!Next

\* The other events of a node are not touched.
LEMMA BoundOne ==
  ASSUME NEW v \in Voices, Bound(v), Around(v)', NEW e \in Presses, NEW r \in Records(v),
         record' = [record EXCEPT ![e] = r],
         \A d \in Presses : d # e => first'[d] = first[d],
         holds \subseteq holds',
         \A d \in Presses, t \in Voice(v)!Times :
           d # e /\ <<d, t>> \in holds' => <<d, t>> \in holds,
         \A d \in Presses : agent[d] = "task" => agent'[d] = "task",
         quiet \subseteq quiet', released \subseteq released',
         EventOk(v, e, r, first'[e], holds', agent'[e], quiet', released')
  PROVE  Bound(v)'
<1>1. /\ record' \in [Presses -> Records(v)]
      /\ \A d \in Presses : record'[d] = IF d = e THEN r ELSE record[d]
  BY DEF Bound
<1>2. ASSUME NEW d \in Presses
      PROVE  EventOk(v, d, record'[d], first'[d], holds', agent'[d], quiet', released')
  <2>1. CASE d = e
    BY <1>1, <2>1
  <2>2. CASE d # e
    <3>1. /\ record'[d] = record[d] /\ first'[d] = first[d]
          /\ EventOk(v, d, record[d], first[d], holds, agent[d], quiet, released)
      BY <1>1, <2>2 DEF Bound
    <3> QED
      BY <2>2, <3>1 DEF EventOk
  <2> QED
    BY <2>1, <2>2
<1>3. Records(v)' = Records(v)
  BY DEF Records, Voice!Stages, Voice!Times
<1> QED
  BY <1>1, <1>2, <1>3 DEF Bound, EventOk, Voice!Times, Voice!Stops, Voice!Replayed

\* An execution ends confirmed, or it does not.
LEMMA EndsIs ==
  ASSUME NEW v \in Voices, Bound(v), NEW e \in Presses, NEW phase, record' = Voice(v)!Ends(e, phase)
  PROVE  \E r \in Records(v) :
           /\ record' = [record EXCEPT ![e] = r] /\ r.bound = record[e].bound
           /\ r.stage = "idle" /\ r.state \in {"CONFIRMED", "UNKNOWN"}
           /\ r.state = "CONFIRMED" /\ (r.accepted \/ ~Voice(v)!Replayed(e)) => phase = "STOPPED"
<1> DEFINE a == phase = "STOPPED" /\ ~record[e].agentFailed
           s == IF a \/ (phase = "REJECTED" /\ Voice(v)!Replayed(e)) THEN "CONFIRMED" ELSE "UNKNOWN"
           r == [record[e] EXCEPT !.stage = "idle", !.accepted = a, !.state = s]
<1>1. s \in {"CONFIRMED", "UNKNOWN"} /\ a \in BOOLEAN
  OBVIOUS
<1>2. s = "CONFIRMED" /\ (a \/ ~Voice(v)!Replayed(e)) => phase = "STOPPED"
  OBVIOUS
<1>3. record' = [record EXCEPT ![e] = r] /\ record[e] \in Records(v)
  BY DEF Voice!Ends, Bound
<1> HIDE DEF a, s
<1>4. /\ r \in Records(v) /\ r.bound = record[e].bound
      /\ r.stage = "idle" /\ r.state = s /\ r.accepted = a
  BY <1>1, <1>3 DEF Records, Voice!Stages
<1> HIDE DEF r
<1> QED
  BY <1>1, <1>2, <1>3, <1>4

\* A delivery begins an execution.
LEMMA HandleBound ==
  ASSUME NEW v \in Voices, Spoken(v), Bound(v), NEW e \in Presses, Voice(v)!Handle(e)
  PROVE  Bound(v)'
<1> DEFINE s == IF IntentsOf[v][e] = "ignore" THEN "CONFIRMED" ELSE "PENDING"
           g == CASE IntentsOf[v][e] = "stop" -> "interrupting"
                  [] IntentsOf[v][e] \in {"hush", "hold", "barge_in"} -> "binding"
                  [] IntentsOf[v][e] \in {"goal", "append"} -> "delivering"
                  [] OTHER -> "idle"
           r == [record[e] EXCEPT !.state = s, !.stage = g, !.agentFailed = FALSE]
<1>1. /\ record' = [record EXCEPT ![e] = r] /\ record[e] \in Records(v)
      /\ UNCHANGED <<released, first, quiet, epoch, held, tts, holds, agent>>
      /\ e \in released \/ Voice(v)!Replayed(e)
  BY DEF Voice!Handle, Voice!asr, Voice!peers, Bound, Spoken
<1>2. /\ s \in {"CONFIRMED", "PENDING"}
      /\ s = "CONFIRMED" => ~Voice(v)!Stops(e)
      /\ g # "idle" => s = "PENDING"
  BY DEF Voice!Stops
<1>3. /\ g \in {"interrupting", "binding", "delivering", "idle"}
      /\ g = "delivering" => ~Voice(v)!Stops(e)
  BY DEF Voice!Stops
<1> HIDE DEF s, g
<1>4. r \in Records(v) /\ r.bound = record[e].bound /\ r.stage = g /\ r.state = s
  BY <1>1, <1>2, <1>3 DEF Records, Voice!Stages
<1> HIDE DEF r
<1>5. Around(v)'
  BY <1>1 DEF Bound, Around, Voice!Times
<1>6. EventOk(v, e, record[e], first[e], holds, agent[e], quiet, released)
  BY DEF Bound
<1>7. EventOk(v, e, r, first'[e], holds', agent'[e], quiet', released')
  BY <1>1, <1>2, <1>3, <1>4, <1>6 DEF EventOk
<1> QED
  BY <1>1, <1>4, <1>5, <1>7, BoundOne

\* What the invariant says of one event.
LEMMA BoundIs ==
  ASSUME NEW v \in Voices, Bound(v), NEW e \in Presses
  PROVE  /\ record[e] \in Records(v) /\ Around(v)
         /\ EventOk(v, e, record[e], first[e], holds, agent[e], quiet, released)
         /\ Voice(v)!Seen(e) \in Voice(v)!Times
<1>1. record[e] \in Records(v) /\ Around(v)
  BY DEF Bound
<1>2. Voice(v)!Seen(e) \in Voice(v)!Times
  <2>1. VoiceEpochs[v] \in Nat
    BY NodesAssumption
  <2>2. epoch \in 0..VoiceEpochs[v] /\ tts.epoch \in 0..VoiceEpochs[v] /\ tts.action \in 0..VoiceEpochs[v]
    BY <1>1 DEF Around
  <2> QED
    BY <2>1, <2>2 DEF Voice!Seen, Voice!Times
<1> QED
  BY <1>1, <1>2 DEF Bound

\* The execution of an event ends, and its node keeps the stops it has made.
LEMMA BoundEnds ==
  ASSUME NEW v \in Voices, Bound(v), Around(v)', NEW e \in Presses, NEW phase,
         record' = Voice(v)!Ends(e, phase), record[e].stage # "idle",
         UNCHANGED <<released, first>>, quiet \subseteq quiet',
         holds' = holds \/ holds' = holds \cup {<<e, record[e].bound>>},
         \A d \in Presses : agent[d] = "task" => agent'[d] = "task",
         Voice(v)!Stops(e) /\ phase = "STOPPED" =>
           agent'[e] = "task" \/ (\E t \in Voice(v)!Times : <<e, t>> \in holds') \/ e \in quiet'
  PROVE  Bound(v)'
<1>1. PICK r \in Records(v) :
        /\ record' = [record EXCEPT ![e] = r] /\ r.bound = record[e].bound
        /\ r.stage = "idle" /\ r.state \in {"CONFIRMED", "UNKNOWN"}
        /\ r.state = "CONFIRMED" /\ (r.accepted \/ ~Voice(v)!Replayed(e)) => phase = "STOPPED"
  BY EndsIs
<1>2. EventOk(v, e, record[e], first[e], holds, agent[e], quiet, released)
  BY BoundIs
<1>3. /\ holds \subseteq holds'
      /\ \A d \in Presses, t \in Voice(v)!Times : d # e /\ <<d, t>> \in holds' => <<d, t>> \in holds
      /\ \A t \in Voice(v)!Times : <<e, t>> \in holds' => t = first[e]
  BY <1>2 DEF EventOk
<1>4. EventOk(v, e, r, first'[e], holds', agent'[e], quiet', released')
  BY <1>1, <1>2, <1>3 DEF EventOk
<1>5. /\ \A d \in Presses : d # e => first'[d] = first[d]
      /\ record' = [record EXCEPT ![e] = r] /\ released \subseteq released'
  BY <1>1
<1> QED
  BY <1>3, <1>4, <1>5, BoundOne

\* An execution goes on.
LEMMA BoundGoesOn ==
  ASSUME NEW v \in Voices, Bound(v), Around(v)', NEW e \in Presses, NEW r \in Records(v),
         record' = [record EXCEPT ![e] = r], r.state = record[e].state,
         r.stage \in {"binding", "holding"}, record[e].stage # "idle",
         r.bound = first'[e], first[e] # None => first'[e] = first[e],
         \A d \in Presses : d # e => first'[d] = first[d],
         UNCHANGED <<released, holds, quiet>>,
         \A d \in Presses : agent[d] = "task" => agent'[d] = "task"
  PROVE  Bound(v)'
<1>1. EventOk(v, e, record[e], first[e], holds, agent[e], quiet, released)
  BY BoundIs
<1>2. \A t \in Voice(v)!Times : <<e, t>> \in holds' => t = first'[e]
  BY <1>1, NodesAssumption DEF EventOk
<1>3. EventOk(v, e, r, first'[e], holds', agent'[e], quiet', released')
  BY <1>1, <1>2 DEF EventOk
<1> QED
  BY <1>3, BoundOne

\* The agent is asked to stop its task.
LEMMA InterruptBound ==
  ASSUME NEW v \in Voices, Bound(v), NEW e \in Presses, Voice(v)!Interrupt(e)
  PROVE  Bound(v)'
<1>1. /\ UNCHANGED <<released, first, quiet, epoch, held, tts, holds>>
      /\ record[e].stage = "interrupting"
      /\ agent' = agent \/ \E found \in {"task", "idle"} :
           agent[e] \in {"unasked", found} /\ agent' = [agent EXCEPT ![e] = found]
  BY DEF Voice!Interrupt, Voice!asr
<1>2. /\ agent' \in [Presses -> {"unasked", "task", "idle"}]
      /\ \A d \in Presses : agent[d] = "task" => agent'[d] = "task"
  BY <1>1, BoundIs DEF Around
<1>3. Around(v)'
  BY <1>1, <1>2, BoundIs DEF Around, Voice!Times
<1>4. record[e] \in Records(v) /\ record[e].bound = first[e]
  BY BoundIs DEF EventOk
<1>5. CASE agent'[e] = "task" /\ \E phase \in {"STOPPED", "UNKNOWN"} : record' = Voice(v)!Ends(e, phase)
  BY <1>1, <1>2, <1>3, <1>5, BoundEnds
<1>6. CASE record' = [record EXCEPT ![e].stage = "binding"]
  <2> DEFINE r == [record[e] EXCEPT !.stage = "binding"]
  <2>1. record' = [record EXCEPT ![e] = r]
    BY <1>6
  <2>2. r \in Records(v) /\ r.state = record[e].state /\ r.bound = record[e].bound /\ r.stage = "binding"
    BY <1>4 DEF Records, Voice!Stages
  <2> HIDE DEF r
  <2> QED
    BY <1>1, <1>2, <1>3, <1>4, <2>1, <2>2, BoundGoesOn
<1>7. CASE record' = [record EXCEPT ![e].stage = "binding", ![e].agentFailed = TRUE]
  <2> DEFINE r == [record[e] EXCEPT !.stage = "binding", !.agentFailed = TRUE]
  <2>1. record' = [record EXCEPT ![e] = r]
    BY <1>7
  <2>2. r \in Records(v) /\ r.state = record[e].state /\ r.bound = record[e].bound /\ r.stage = "binding"
    BY <1>4 DEF Records, Voice!Stages
  <2> HIDE DEF r
  <2> QED
    BY <1>1, <1>2, <1>3, <1>4, <2>1, <2>2, BoundGoesOn
<1> QED
  BY <1>5, <1>6, <1>7 DEF Voice!Interrupt

\* The snapshot of a node is bound, or shows that there is nothing to cancel.
LEMMA BindBound ==
  ASSUME NEW v \in Voices, Bound(v), NEW e \in Presses, Voice(v)!Bind(e)
  PROVE  Bound(v)'
<1>1. UNCHANGED <<released, epoch, held, tts, holds, agent>> /\ record[e].stage = "binding"
  BY DEF Voice!Bind, Voice!asr, Voice!peers
<1>2. /\ record[e] \in Records(v) /\ record[e].bound = first[e] /\ Around(v)
      /\ Voice(v)!Seen(e) \in Voice(v)!Times
  BY BoundIs DEF EventOk
<1>3. CASE record' = Voice(v)!Ends(e, "UNKNOWN") /\ UNCHANGED <<first, quiet>>
  <2>1. Around(v)'
    BY <1>1, <1>2, <1>3 DEF Around, Voice!Times
  <2> QED
    BY <1>1, <1>3, <2>1, BoundEnds
<1>4. CASE quiet' = quiet \cup {e} /\ record' = Voice(v)!Ends(e, "STOPPED") /\ UNCHANGED first
  <2>1. Around(v)'
    BY <1>1, <1>2, <1>4 DEF Around, Voice!Times
  <2> QED
    BY <1>1, <1>4, <2>1, BoundEnds
<1>5. CASE /\ record' = [record EXCEPT ![e].stage = "holding",
                           ![e].bound = IF Voice(v)!Unbound(e) THEN Voice(v)!Seen(e) ELSE @]
           /\ first' = [first EXCEPT ![e] = IF @ = None THEN Voice(v)!Seen(e) ELSE @]
           /\ UNCHANGED quiet
  <2> DEFINE b == IF record[e].bound = None THEN Voice(v)!Seen(e) ELSE record[e].bound
             r == [record[e] EXCEPT !.stage = "holding", !.bound = b]
  <2>1. record' = [record EXCEPT ![e] = r]
    BY <1>5 DEF Voice!Unbound
  <2>2. /\ b \in Voice(v)!Times \cup {None}
        /\ b = first'[e] /\ (first[e] # None => first'[e] = first[e])
        /\ first' \in [Presses -> Voice(v)!Times \cup {None}]
        /\ \A d \in Presses : d # e => first'[d] = first[d]
    BY <1>2, <1>5 DEF Records, Around
  <2> HIDE DEF b
  <2>3. r \in Records(v) /\ r.state = record[e].state /\ r.bound = b /\ r.stage = "holding"
    BY <1>2, <2>2 DEF Records, Voice!Stages
  <2> HIDE DEF r
  <2>4. Around(v)'
    BY <1>1, <1>2, <1>5, <2>2 DEF Around, Voice!Times
  <2> QED
    BY <1>1, <1>5, <2>1, <2>2, <2>3, <2>4, BoundGoesOn
<1> QED
  BY <1>3, <1>4, <1>5 DEF Voice!Bind

\* The robot holds, or the TTS node cancels its utterance.
LEMMA HoldBound ==
  ASSUME NEW v \in Voices, Bound(v), NEW e \in Presses, Voice(v)!Hold(e)
  PROVE  Bound(v)'
<1>1. /\ UNCHANGED <<released, first, quiet, agent>> /\ record[e].stage = "holding"
      /\ VoiceEpochs[v] \in Nat
  BY NodesAssumption DEF Voice!Hold, Voice!asr
<1>2. Around(v) /\ Voice(v)!Seen(e) \in Voice(v)!Times
  BY BoundIs
<1>3. CASE /\ Voice(v)!Effective(e) /\ Voice(v)!Seen(e).epoch < VoiceEpochs[v]
           /\ IF Voice(v)!ToSpeech(e)
              THEN tts' = [tts EXCEPT !.epoch = @ + 1] /\ UNCHANGED <<epoch, held>>
              ELSE epoch' = epoch + 1 /\ held' = TRUE /\ UNCHANGED tts
           /\ holds' = holds \cup {<<e, Voice(v)!Seen(e)>>}
           /\ \E phase \in {"STOPPED", "UNKNOWN"} : record' = Voice(v)!Ends(e, phase)
  <2>1. /\ record[e].bound = Voice(v)!Seen(e)
        /\ holds' = holds \cup {<<e, record[e].bound>>} /\ <<e, Voice(v)!Seen(e)>> \in holds'
    BY <1>3 DEF Voice!Effective
  <2>2. PICK phase \in {"STOPPED", "UNKNOWN"} : record' = Voice(v)!Ends(e, phase)
    BY <1>3
  <2>3. /\ epoch' \in 0..VoiceEpochs[v] /\ held' \in BOOLEAN
        /\ tts' \in [epoch : 0..VoiceEpochs[v], action : 0..VoiceEpochs[v], active : BOOLEAN]
    <3>1. CASE Voice(v)!ToSpeech(e)
      <4>1. tts.epoch < VoiceEpochs[v]
        BY <1>3, <3>1 DEF Voice!Seen
      <4> QED
        BY <1>1, <1>2, <1>3, <3>1, <4>1 DEF Around
    <3>2. CASE ~Voice(v)!ToSpeech(e)
      <4>1. epoch < VoiceEpochs[v]
        BY <1>3, <3>2 DEF Voice!Seen
      <4> QED
        BY <1>1, <1>2, <1>3, <3>2, <4>1 DEF Around
    <3> QED
      BY <3>1, <3>2
  <2>4. Around(v)'
    BY <1>1, <1>2, <1>3, <2>3 DEF Around, Voice!Times
  <2> QED
    BY <1>1, <1>2, <2>1, <2>2, <2>4, BoundEnds
<1>4. CASE /\ \/ Voice(v)!Stopped(e) /\ record' = Voice(v)!Ends(e, "STOPPED")
              \/ record' = Voice(v)!Ends(e, "REJECTED")
              \/ record' = Voice(v)!Ends(e, "UNKNOWN")
           /\ UNCHANGED <<epoch, held, tts, holds>>
  <2>1. Around(v)'
    BY <1>1, <1>2, <1>4 DEF Around, Voice!Times
  <2> QED
    BY <1>1, <1>4, <2>1, BoundEnds DEF Voice!Stopped
<1> QED
  BY <1>3, <1>4 DEF Voice!Hold

\* The voice node, the agent, the robot and the TTS node.
LEMMA VoiceStep ==
  ASSUME NEW v \in Voices, VoiceInv(v), [Voice(v)!Next]_voice
  PROVE  VoiceInv(v)'
<1>0. Spoken(v) /\ Bound(v) /\ Spoken(v)' /\ released \subseteq released'
  BY SpokenStep DEF VoiceInv
<1>1. ASSUME NEW e \in Presses, Voice(v)!Deliver(e) PROVE Bound(v)'
  <2>1. /\ UNCHANGED <<released, first, quiet, epoch, held, tts, holds, agent>>
        /\ record[e].stage = "delivering"
    BY <1>1 DEF Voice!Deliver, Voice!asr, Voice!peers
  <2>2. PICK phase \in {"STOPPED", "UNKNOWN"} : record' = Voice(v)!Ends(e, phase)
    BY <1>1 DEF Voice!Deliver
  <2>3. ~Voice(v)!Stops(e) /\ Around(v)
    BY <1>0, <2>1, BoundIs DEF EventOk
  <2>4. Around(v)'
    BY <2>1, <2>3 DEF Around, Voice!Times
  <2> QED
    BY <1>0, <2>1, <2>2, <2>3, <2>4, BoundEnds
<1>2. ASSUME UNCHANGED <<record, first, quiet, holds, agent>>, Around(v)'
      PROVE  Bound(v)'
  <2>1. Records(v)' = Records(v)
    BY DEF Records, Voice!Stages, Voice!Times
  <2>2. ASSUME NEW e \in Presses
        PROVE  EventOk(v, e, record[e], first[e], holds, agent[e], quiet, released')
    BY <1>0, BoundIs DEF EventOk
  <2> QED
    BY <1>0, <1>2, <2>1, <2>2 DEF Bound, EventOk, Voice!Times, Voice!Stops, Voice!Replayed
<1>3. VoiceEpochs[v] \in Nat /\ Around(v)
  BY <1>0, NodesAssumption DEF Bound
<1>4. ASSUME Voice(v)!Reopen PROVE Bound(v)'
  <2>1. UNCHANGED <<record, first, quiet, tts, holds, agent>>
    BY <1>4 DEF Voice!Reopen, Voice!voice
  <2>2. epoch' \in 0..VoiceEpochs[v]
    BY <1>3, <1>4 DEF Voice!Reopen, Around
  <2>3. held' \in BOOLEAN
    BY <1>4 DEF Voice!Reopen
  <2>4. Around(v)'
    BY <1>3, <2>1, <2>2, <2>3 DEF Around, Voice!Times
  <2> QED
    BY <1>2, <2>1, <2>4
<1>5. ASSUME Voice(v)!Talk PROVE Bound(v)'
  <2>1. UNCHANGED <<record, first, quiet, epoch, held, holds, agent>>
    BY <1>5 DEF Voice!Talk, Voice!voice
  <2>2. tts' \in [epoch : 0..VoiceEpochs[v], action : 0..VoiceEpochs[v], active : BOOLEAN]
    <3>1. tts \in [epoch : 0..VoiceEpochs[v], action : 0..VoiceEpochs[v], active : BOOLEAN]
      BY <1>3 DEF Around
    <3>2. CASE tts.action < VoiceEpochs[v] /\ tts' = [tts EXCEPT !.action = @ + 1, !.active = TRUE]
      <4>1. tts.action + 1 \in 0..VoiceEpochs[v]
        BY <1>3, <3>1, <3>2
      <4> QED
        BY <3>1, <3>2, <4>1
    <3>3. CASE tts' = [tts EXCEPT !.active = FALSE]
      BY <3>1, <3>3
    <3>4. ASSUME NEW a \in {tts.active, FALSE}, tts.epoch < VoiceEpochs[v],
                 tts' = [tts EXCEPT !.epoch = @ + 1, !.active = a]
          PROVE  tts' \in [epoch : 0..VoiceEpochs[v], action : 0..VoiceEpochs[v], active : BOOLEAN]
      <4>1. tts.epoch + 1 \in 0..VoiceEpochs[v]
        BY <1>3, <3>1, <3>4
      <4>2. a \in BOOLEAN
        BY <3>1, <3>4
      <4> QED
        BY <3>1, <3>4, <4>1, <4>2
    <3> QED
      BY <1>5, <3>2, <3>3, <3>4 DEF Voice!Talk
  <2>3. Around(v)'
    BY <1>3, <2>1, <2>2 DEF Around, Voice!Times
  <2> QED
    BY <1>2, <2>1, <2>3
<1>6. ASSUME \/ \E id \in Presses : Voice(v)!Begin(id) \/ Voice(v)!End(id)
             \/ Voice(v)!Captured \/ Voice(v)!Recognize \/ Voice(v)!Forwarded
             \/ UNCHANGED voice
      PROVE  Bound(v)'
  <2>1. UNCHANGED <<record, first, quiet, holds, agent, epoch, held, tts>>
    BY <1>6 DEF voice, Voice!Begin, Voice!End, Voice!Captured, Voice!Recognize, Voice!Forwarded,
                Voice!voice, Voice!peers
  <2>2. Around(v)'
    BY <1>3, <2>1 DEF Around, Voice!Times
  <2> QED
    BY <1>2, <2>1, <2>2
<1>7. Bound(v)'
  BY <1>0, <1>1, <1>4, <1>5, <1>6, HandleBound, InterruptBound, BindBound, HoldBound DEF Voice!Next
<1> QED
  BY <1>0, <1>7 DEF VoiceInv

\* What was confirmed has stopped, a repeated stop stops nothing new, and the
\* variables have their types.
LEMMA VoiceSafe ==
  ASSUME NEW v \in Voices, VoiceInv(v)
  PROVE  Voice(v)!TypeOK /\ Voice(v)!RepeatsStopNothingNew /\ Voice(v)!ConfirmedStopsStopped
<1>1. Spoken(v) /\ Bound(v)
  BY DEF VoiceInv
<1>2. Voice(v)!TypeOK
  BY <1>1 DEF Spoken, Bound, Around, Records, Voice!TypeOK
<1>3. Voice(v)!RepeatsStopNothingNew
  BY <1>1 DEF Bound, EventOk, Voice!RepeatsStopNothingNew
<1>4. Voice(v)!ConfirmedStopsStopped
  BY <1>1 DEF Bound, EventOk, Voice!ConfirmedStopsStopped, Voice!Stopped
<1> QED
  BY <1>2, <1>3, <1>4

(***************************************************************************)
(* ActionHandle.                                                           *)
(***************************************************************************)

\* What the client has been told is so: how far a submission has come, and
\* whether our action may run under the boot our request carries.
Submission ==
  /\ node.active = "mine" <=> mine = "running"
  /\ mine = "running" => context.boot = node.boot
  /\ submitted = "no" => mine = "unsent"
  /\ mine = "unsent" => submitted \in {"no", "refused"}
  /\ answer = "none" <=> mine \in {"unsent", "travelling"}
  /\ answer = "refused" <=> mine = "refused"
  /\ submitted = "held" => mine \in {"running", "over", "forgotten"}
  /\ submitted = "refused" => mine \in {"unsent", "refused"}

\* Who has asked our action to stop: the node while it stores our request,
\* and any epoch after the one our request is of.
Stopping ==
  /\ cancel.at # "no" \/ cancel.made \/ stored => submitted = "held"
  /\ cancel.at \in {"ready", "answered"} => cancel.made
  /\ cancel.made /\ mine = "running" /\ cancel.epoch # node.epoch => node.stopping
  /\ stored /\ mine = "running" => node.stopping
  /\ cancel.at = "answered" => mine \in {"over", "forgotten"} \/ node.stopping
  /\ node.stopping => node.active # "none"
  /\ struck \subseteq {"mine"}

HandleNodes ==
  [boot : 1..MaxBoots, epoch : 0..HandleEpochs, open : BOOLEAN,
   active : Handle!Actions \cup {"none"}, stopping : BOOLEAN]

HandleCancels ==
  [at : {"no", "reading", "ready", "answered"}, epoch : 0..HandleEpochs, made : BOOLEAN]

HandleInv == Handle!TypeOK /\ Submission /\ Stopping

\* Nothing was sent.
LEMMA HandleInit == Handle!Init => HandleInv
<1> SUFFICES ASSUME Handle!Init PROVE HandleInv
  OBVIOUS
<1>1. HandleEpochs \in Nat /\ MaxBoots \in Nat \ {0}
  BY NodesAssumption
<1>2. Handle!TypeOK
  <2> DEFINE b == 1
             z == 0
  <2>1. /\ node = [boot |-> b, epoch |-> z, open |-> TRUE, active |-> "none", stopping |-> FALSE]
        /\ context = [boot |-> b, epoch |-> z]
        /\ cancel = [at |-> "no", epoch |-> z, made |-> FALSE]
    BY DEF Handle!Init
  <2>2. b \in 1..MaxBoots /\ z \in 0..HandleEpochs
    BY <1>1
  <2> HIDE DEF b, z
  <2>3. /\ node \in [boot : 1..MaxBoots, epoch : 0..HandleEpochs, open : BOOLEAN,
                     active : Handle!Actions \cup {"none"}, stopping : BOOLEAN]
        /\ context \in [boot : 1..MaxBoots, epoch : 0..HandleEpochs]
        /\ cancel \in [at : {"no", "reading", "ready", "answered"}, epoch : 0..HandleEpochs,
                       made : BOOLEAN]
    BY <2>1, <2>2 DEF Handle!Actions
  <2> QED
    BY <2>3 DEF Handle!Init, Handle!TypeOK
<1>3. Submission /\ Stopping
  BY DEF Handle!Init, Submission, Stopping
<1> QED
  BY <1>2, <1>3 DEF HandleInv

\* The node after a stop: its action, if there is one, is told to stop.
LEMMA StoppedIs ==
  ASSUME Handle!TypeOK, node' = Handle!Stopped, node.epoch < HandleEpochs
  PROVE  /\ node' \in HandleNodes
         /\ node'.boot = node.boot /\ node'.epoch = node.epoch + 1 /\ node'.active = node.active
         /\ node'.stopping <=> node.active # "none"
<1> DEFINE e == node.epoch + 1
           s == node.active # "none"
<1>1. node \in HandleNodes /\ HandleEpochs \in Nat
  BY NodesAssumption DEF Handle!TypeOK, HandleNodes, Handle!Actions
<1>2. node' = [node EXCEPT !.epoch = e, !.open = FALSE, !.stopping = s]
  BY DEF Handle!Stopped
<1>3. e \in 0..HandleEpochs
  BY <1>1 DEF HandleNodes
<1>4. s \in BOOLEAN
  OBVIOUS
<1> HIDE DEF e, s
<1>5. node' \in HandleNodes /\ node'.boot = node.boot /\ node'.epoch = e /\ node'.active = node.active
      /\ node'.stopping = s
  BY <1>1, <1>2, <1>3, <1>4 DEF HandleNodes
<1>6. node'.epoch = node.epoch + 1
  BY <1>5 DEF e
<1>7. node'.stopping <=> node.active # "none"
  BY <1>5 DEF s
<1> QED
  BY <1>5, <1>6, <1>7

\* What others do to the node.
LEMMA OthersDo ==
  ASSUME HandleInv
  PROVE  /\ Handle!OtherAllows =>
              /\ node' \in HandleNodes /\ node'.boot = node.boot /\ node.active = "none"
              /\ node'.active = "none" /\ node'.stopping = node.stopping
         /\ Handle!OtherSubmits =>
              /\ node' \in HandleNodes /\ node'.boot = node.boot /\ node.active = "none"
              /\ node'.active = "other" /\ node'.stopping = node.stopping /\ node'.epoch = node.epoch
         /\ Handle!Ends =>
              /\ node' \in HandleNodes /\ node'.boot = node.boot /\ node.active # "none"
              /\ node'.active = "none" /\ node'.stopping = FALSE /\ node'.epoch = node.epoch
<1>1. node \in HandleNodes /\ HandleEpochs \in Nat
  BY NodesAssumption DEF HandleInv, Handle!TypeOK, HandleNodes, Handle!Actions
<1>2. ASSUME Handle!OtherAllows
      PROVE  /\ node' \in HandleNodes /\ node'.boot = node.boot /\ node.active = "none"
             /\ node'.active = "none" /\ node'.stopping = node.stopping
  <2> DEFINE e == node.epoch + 1
  <2>1. node' = [node EXCEPT !.epoch = e, !.open = TRUE] /\ node.active = "none"
    BY <1>2 DEF Handle!OtherAllows
  <2>2. e \in 0..HandleEpochs
    BY <1>1, <1>2 DEF HandleNodes, Handle!OtherAllows
  <2> HIDE DEF e
  <2> QED
    BY <1>1, <2>1, <2>2 DEF HandleNodes
<1>3. ASSUME Handle!OtherSubmits
      PROVE  /\ node' \in HandleNodes /\ node'.boot = node.boot /\ node.active = "none"
             /\ node'.active = "other" /\ node'.stopping = node.stopping /\ node'.epoch = node.epoch
  BY <1>1, <1>3 DEF Handle!OtherSubmits, HandleNodes, Handle!Actions
<1>4. ASSUME Handle!Ends
      PROVE  /\ node' \in HandleNodes /\ node'.boot = node.boot /\ node.active # "none"
             /\ node'.active = "none" /\ node'.stopping = FALSE /\ node'.epoch = node.epoch
  BY <1>1, <1>4 DEF Handle!Ends, HandleNodes, Handle!Actions
<1> QED
  BY <1>2, <1>3, <1>4

\* A new process has nothing of the old one.
LEMMA RestartDoes ==
  ASSUME HandleInv, Handle!Restart
  PROVE  /\ node' \in HandleNodes /\ node'.boot = node.boot + 1 /\ node'.active = "none"
         /\ node'.stopping = FALSE /\ stored' = FALSE
         /\ mine' = IF mine \in {"running", "over"} THEN mine' ELSE mine
         /\ mine \in {"running", "over"} => mine' \in {"over", "forgotten"}
         /\ UNCHANGED <<context, submitted, cancel, polled, answer, struck>>
<1> DEFINE b == node.boot + 1
           z == 0
<1>1. PICK open_ \in BOOLEAN :
        node' = [boot |-> b, epoch |-> z, open |-> open_, active |-> "none", stopping |-> FALSE]
  BY DEF Handle!Restart
<1>2. node \in HandleNodes /\ HandleEpochs \in Nat /\ MaxBoots \in Nat
  BY NodesAssumption DEF HandleInv, Handle!TypeOK, HandleNodes, Handle!Actions
<1>3. b \in 1..MaxBoots /\ z \in 0..HandleEpochs
  BY <1>2 DEF HandleNodes, Handle!Restart
<1> HIDE DEF b, z
<1>4. node' \in HandleNodes /\ node'.boot = b /\ node'.active = "none" /\ node'.stopping = FALSE
  BY <1>1, <1>3 DEF HandleNodes, Handle!Actions
<1>5. node'.boot = node.boot + 1
  BY <1>4 DEF b
<1>6. stored' = FALSE
  BY DEF Handle!Restart
<1> QED
  BY <1>4, <1>5, <1>6 DEF Handle!Restart, Handle!client

\* Our request reaches the node.
LEMMA ArriveDoes ==
  ASSUME HandleInv, Handle!Arrive
  PROVE  /\ UNCHANGED <<context, submitted, cancel, polled, stored, struck>> /\ mine = "travelling"
         /\ \/ /\ node' \in HandleNodes /\ node'.boot = node.boot /\ node'.epoch = node.epoch
               /\ node'.active = "mine" /\ node.active = "none" /\ node'.stopping = node.stopping
               /\ context.boot = node.boot /\ mine' = "running" /\ answer' = "accepted"
            \/ mine' = "refused" /\ answer' = "refused" /\ UNCHANGED node
<1>1. node \in HandleNodes
  BY DEF HandleInv, Handle!TypeOK, HandleNodes, Handle!Actions
<1>2. ASSUME node' = [node EXCEPT !.active = "mine"]
      PROVE  /\ node' \in HandleNodes /\ node'.boot = node.boot /\ node'.epoch = node.epoch
             /\ node'.active = "mine" /\ node'.stopping = node.stopping
  BY <1>1, <1>2 DEF HandleNodes, Handle!Actions
<1> QED
  BY <1>2 DEF Handle!Arrive, Handle!client

\* Our cancel reaches the node.
LEMMA DeliverDoes ==
  ASSUME HandleInv, Handle!Deliver
  PROVE  /\ UNCHANGED <<mine, context, submitted, polled, answer>> /\ cancel.at = "ready"
         /\ cancel' \in {[cancel EXCEPT !.at = "answered"], [cancel EXCEPT !.at = "no"]}
         /\ \/ /\ Handle!Accepted /\ stored' = TRUE /\ struck' = struck \cup {"mine"}
               /\ node' \in HandleNodes /\ node'.boot = node.boot /\ node'.epoch = node.epoch + 1
               /\ node.active = "mine" /\ node'.active = "mine" /\ node'.stopping = TRUE
            \/ ~Handle!Accepted /\ UNCHANGED <<node, stored, struck>>
<1>1. ASSUME Handle!Accepted
      PROVE  /\ stored' = TRUE /\ struck' = struck \cup {"mine"}
             /\ node' \in HandleNodes /\ node'.boot = node.boot /\ node'.epoch = node.epoch + 1
             /\ node.active = "mine" /\ node'.active = "mine" /\ node'.stopping = TRUE
  <2>1. node' = Handle!Stopped /\ node.epoch < HandleEpochs /\ node.active = "mine"
        /\ struck' = struck \cup {"mine"} /\ stored' = TRUE
    BY <1>1 DEF Handle!Deliver, Handle!Accepted, Handle!Addressed
  <2>2. node' \in HandleNodes
    BY <2>1, StoppedIs DEF HandleInv
  <2>3. node'.stopping = TRUE
    BY <2>1, <2>2, StoppedIs DEF HandleInv, HandleNodes
  <2> QED
    BY <2>1, <2>2, <2>3, StoppedIs DEF HandleInv
<1> QED
  BY <1>1 DEF Handle!Deliver

\* The variables keep their types.
LEMMA HandleTypes ==
  ASSUME HandleInv, [Handle!Next]_handle
  PROVE  Handle!TypeOK'
<1>1. /\ node \in HandleNodes
      /\ context \in [boot : 1..MaxBoots, epoch : 0..HandleEpochs]
      /\ cancel \in HandleCancels
      /\ mine \in {"unsent", "travelling", "refused", "running", "over", "forgotten"}
      /\ submitted \in {"no", "waiting", "checking", "held", "refused", "doubtful"}
      /\ answer \in {"none", "accepted", "refused"}
      /\ polled \in {"no", "over", "forgotten"}
      /\ stored \in BOOLEAN /\ struck \subseteq Handle!Actions
  BY DEF HandleInv, Handle!TypeOK, HandleNodes, HandleCancels
<1>2. node' \in HandleNodes
  <2>1. CASE Handle!OtherHolds
    BY <2>1, StoppedIs DEF Handle!OtherHolds, HandleInv
  <2>2. CASE Handle!OtherAllows \/ Handle!OtherSubmits \/ Handle!Ends
    BY <2>2, OthersDo
  <2>3. CASE Handle!Restart \/ Handle!Arrive \/ Handle!Deliver
    BY <1>1, <2>3, RestartDoes, ArriveDoes, DeliverDoes
  <2>4. CASE UNCHANGED node
    BY <1>1, <2>4
  <2> QED
    BY <2>1, <2>2, <2>3, <2>4
       DEF Handle!Next, Handle!Submit, Handle!Answered, Handle!Check, Handle!Wait, Handle!Cancel,
           Handle!Make, Handle!CancelLost, handle
<1>3. cancel' \in HandleCancels
  <2>1. CASE Handle!Cancel \/ Handle!CancelLost
    BY <1>1, <2>1 DEF Handle!Cancel, Handle!CancelLost, HandleCancels
  <2>2. CASE Handle!Make
    <3> DEFINE e == node.epoch
    <3>1. \/ cancel' = [at |-> "ready", epoch |-> e, made |-> TRUE]
          \/ cancel' = [cancel EXCEPT !.at = "no"]
      BY <2>2 DEF Handle!Make
    <3>2. e \in 0..HandleEpochs
      BY <1>1 DEF HandleNodes
    <3> HIDE DEF e
    <3>3. [at |-> "ready", epoch |-> e, made |-> TRUE] \in HandleCancels
      BY <3>2 DEF HandleCancels
    <3>4. [cancel EXCEPT !.at = "no"] \in HandleCancels
      BY <1>1 DEF HandleCancels
    <3> QED
      BY <3>1, <3>3, <3>4
  <2>3. CASE Handle!Deliver
    BY <1>1, <2>3, DeliverDoes DEF HandleCancels
  <2>4. CASE UNCHANGED cancel
    BY <1>1, <2>4
  <2> QED
    BY <2>1, <2>2, <2>3, <2>4
       DEF Handle!Next, Handle!Submit, Handle!Answered, Handle!Check, Handle!Wait, Handle!Arrive,
           Handle!OtherHolds, Handle!OtherAllows, Handle!OtherSubmits, Handle!Ends, Handle!Restart,
           Handle!client, handle
<1>4. context' \in [boot : 1..MaxBoots, epoch : 0..HandleEpochs]
  <2>1. CASE Handle!Submit
    BY <1>1, <2>1 DEF Handle!Submit, HandleNodes
  <2>2. CASE UNCHANGED context
    BY <1>1, <2>2
  <2> QED
    BY <2>1, <2>2
       DEF Handle!Next, Handle!Answered, Handle!Check, Handle!Wait, Handle!Arrive, Handle!Cancel,
           Handle!Make, Handle!CancelLost, Handle!Deliver, Handle!OtherHolds, Handle!OtherAllows,
           Handle!OtherSubmits, Handle!Ends, Handle!Restart, Handle!client, handle
<1>5. /\ mine' \in {"unsent", "travelling", "refused", "running", "over", "forgotten"}
      /\ submitted' \in {"no", "waiting", "checking", "held", "refused", "doubtful"}
      /\ answer' \in {"none", "accepted", "refused"}
      /\ polled' \in {"no", "over", "forgotten"}
  <2>1. CASE Handle!OtherHolds \/ Handle!OtherAllows \/ Handle!OtherSubmits \/ Handle!Ends
    BY <1>1, <2>1 DEF Handle!OtherHolds, Handle!OtherAllows, Handle!OtherSubmits, Handle!Ends,
                      Handle!client
  <2>2. CASE Handle!Restart \/ Handle!Arrive \/ Handle!Deliver
    BY <1>1, <2>2, RestartDoes, ArriveDoes, DeliverDoes
  <2>3. CASE Handle!Submit \/ Handle!Answered \/ Handle!Check \/ Handle!Wait
    BY <1>1, <2>3 DEF Handle!Submit, Handle!Answered, Handle!Check, Handle!Wait, Handle!Reconciled
  <2>4. CASE Handle!Cancel \/ Handle!Make \/ Handle!CancelLost \/ UNCHANGED handle
    BY <1>1, <2>4 DEF Handle!Cancel, Handle!Make, Handle!CancelLost, handle
  <2> QED
    BY <2>1, <2>2, <2>3, <2>4 DEF Handle!Next
<1>6. stored' \in BOOLEAN /\ struck' \subseteq Handle!Actions
  <2>1. CASE Handle!Restart \/ Handle!Arrive \/ Handle!Deliver
    BY <1>1, <2>1, RestartDoes, ArriveDoes, DeliverDoes DEF Handle!Actions
  <2>2. CASE UNCHANGED <<stored, struck>>
    BY <1>1, <2>2
  <2> QED
    BY <2>1, <2>2
       DEF Handle!Next, Handle!Submit, Handle!Answered, Handle!Check, Handle!Wait, Handle!Cancel,
           Handle!Make, Handle!CancelLost, Handle!OtherHolds, Handle!OtherAllows,
           Handle!OtherSubmits, Handle!Ends, handle
<1> QED
  BY <1>2, <1>3, <1>4, <1>5, <1>6 DEF Handle!TypeOK, HandleNodes, HandleCancels

\* What the client was told of its submission.
LEMMA SubmissionStep ==
  ASSUME HandleInv, [Handle!Next]_handle
  PROVE  Submission'
<1>0. /\ Submission /\ node \in HandleNodes
      /\ mine \in {"unsent", "travelling", "refused", "running", "over", "forgotten"}
      /\ answer \in {"none", "accepted", "refused"}
  BY DEF HandleInv, Handle!TypeOK, HandleNodes
<1>1. CASE Handle!OtherHolds
  BY <1>0, <1>1, StoppedIs DEF Handle!OtherHolds, Handle!client, HandleInv, Submission
<1>2. CASE Handle!OtherAllows \/ Handle!OtherSubmits
  BY <1>0, <1>2, OthersDo DEF Handle!OtherAllows, Handle!OtherSubmits, Handle!client, Submission
<1>3. CASE Handle!Ends
  BY <1>0, <1>3, OthersDo DEF Handle!Ends, Handle!client, Submission
<1>4. CASE Handle!Restart
  BY <1>0, <1>4, RestartDoes DEF Submission
<1>5. CASE Handle!Arrive
  BY <1>0, <1>5, ArriveDoes DEF Submission
<1>6. CASE Handle!Submit
  BY <1>0, <1>6 DEF Handle!Submit, Submission
<1>7. CASE Handle!Answered
  BY <1>0, <1>7 DEF Handle!Answered, Submission
<1>8. CASE Handle!Check
  BY <1>0, <1>8 DEF Handle!Check, Handle!Reconciled, Submission
<1>9. CASE Handle!Wait \/ Handle!Cancel \/ Handle!Make \/ Handle!CancelLost
  BY <1>0, <1>9 DEF Handle!Wait, Handle!Cancel, Handle!Make, Handle!CancelLost, Submission
<1>10. CASE Handle!Deliver
  BY <1>0, <1>10, DeliverDoes DEF Submission
<1>11. CASE UNCHANGED handle
  BY <1>0, <1>11 DEF handle, Submission
<1> QED
  BY <1>1, <1>2, <1>3, <1>4, <1>5, <1>6, <1>7, <1>8, <1>9, <1>10, <1>11 DEF Handle!Next

\* Who is asked to stop.
LEMMA StoppingStep ==
  ASSUME HandleInv, [Handle!Next]_handle
  PROVE  Stopping'
<1>0. /\ Submission /\ Stopping /\ node \in HandleNodes /\ cancel \in HandleCancels
      /\ mine \in {"unsent", "travelling", "refused", "running", "over", "forgotten"}
  BY DEF HandleInv, Handle!TypeOK, HandleNodes, HandleCancels
<1>1. CASE Handle!OtherHolds
  BY <1>0, <1>1, StoppedIs
     DEF Handle!OtherHolds, Handle!client, HandleInv, Submission, Stopping, HandleNodes, HandleCancels
<1>2. CASE Handle!OtherAllows \/ Handle!OtherSubmits
  BY <1>0, <1>2, OthersDo
     DEF Handle!OtherAllows, Handle!OtherSubmits, Handle!client, Submission, Stopping
<1>3. CASE Handle!Ends
  BY <1>0, <1>3, OthersDo DEF Handle!Ends, Handle!client, Submission, Stopping
<1>4. CASE Handle!Restart
  BY <1>0, <1>4, RestartDoes DEF Submission, Stopping
<1>5. CASE Handle!Arrive
  <2>1. submitted # "held"
    BY <1>0, <1>5, ArriveDoes DEF Submission
  <2>2. cancel.made = FALSE /\ cancel.at = "no" /\ ~stored
    BY <1>0, <2>1 DEF Stopping, HandleCancels
  <2>3. cancel'.made = FALSE /\ cancel'.at = "no" /\ struck' = struck
    BY <1>5, <2>2, ArriveDoes
  <2>4. node'.stopping => node'.active # "none"
    BY <1>0, <1>5, ArriveDoes DEF Stopping
  <2>5. ~stored'
    BY <1>5, <2>2, ArriveDoes
  <2> QED
    BY <1>0, <2>3, <2>4, <2>5 DEF Stopping
<1>6. CASE Handle!Submit \/ Handle!Answered \/ Handle!Check \/ Handle!Wait
  <2>1. /\ UNCHANGED <<node, cancel, stored, struck>>
        /\ mine' = "running" => mine = "running"
        /\ mine \in {"over", "forgotten"} => mine' \in {"over", "forgotten"}
        /\ submitted = "held" => submitted' = "held"
    BY <1>0, <1>6 DEF Handle!Submit, Handle!Answered, Handle!Check, Handle!Wait
  <2> QED
    BY <1>0, <2>1 DEF Stopping
<1>7. CASE Handle!Cancel \/ Handle!Make \/ Handle!CancelLost
  BY <1>0, <1>7 DEF Handle!Cancel, Handle!Make, Handle!CancelLost, HandleNodes, HandleCancels, Stopping
<1>8. CASE Handle!Deliver
  BY <1>0, <1>8, DeliverDoes
     DEF Handle!Accepted, Handle!Addressed, Submission, Stopping, HandleNodes, HandleCancels
<1>9. CASE UNCHANGED handle
  BY <1>0, <1>9 DEF handle, Stopping
<1> QED
  BY <1>1, <1>2, <1>3, <1>4, <1>5, <1>6, <1>7, <1>8, <1>9 DEF Handle!Next

LEMMA HandleStep == HandleInv /\ [Handle!Next]_handle => HandleInv'
BY HandleTypes, SubmissionStep, StoppingStep DEF HandleInv

\* A cancel that was answered finds the action over or stopping.
LEMMA HandleSafe == HandleInv => Handle!HandleIsTrue
BY DEF HandleInv, Submission, Stopping, Handle!HandleIsTrue

(***************************************************************************)
(* TaskClient.                                                             *)
(***************************************************************************)

\* The agent has begun to cancel for the handle once, and remembers it by the
\* receipt; what the last poll has read as settled stands while that agent lives.
ClientInv ==
  /\ Client!TypeOK /\ Client!HandleIsTrue
  /\ fenced > 0 => receipt # "none"
  /\ poll \in Client!Settled => report["mine"] \in {poll, "gone"}
  /\ tCurrent # "none" => report[tCurrent] # "gone"

\* The agent knows no task.
LEMMA TaskClientInit == Client!Init => ClientInv
<1> SUFFICES ASSUME Client!Init PROVE ClientInv
  OBVIOUS
<1>1. /\ tCurrent = "none" /\ report = [t \in Client!Tasks |-> "absent"] /\ tPlan = "absent"
      /\ receipt = "none" /\ poll = "none" /\ watch = "off" /\ tEnded = "none"
      /\ mode \in {"async", "sync"}
      /\ cancels = [c \in Client!Calls |-> [sent |-> "no", caller |-> "idle"]]
  BY DEF Client!Init, Client!NoReceipt
<1>2. tAsked = FALSE
  BY DEF Client!Init
<1>3. fenced \in 0..MaxCancels /\ fenced = 0 /\ restarts \in 0..MaxRestarts
  BY NodesAssumption DEF Client!Init
<1>4. report \in [Client!Tasks -> Client!States] /\ report["mine"] = "absent" /\ report["other"] = "absent"
  BY <1>1 DEF Client!Tasks, Client!States
<1>5. Client!TypeOK
  BY <1>1, <1>2, <1>3, <1>4 DEF Client!TypeOK, Client!NoReceipt
<1>6. Client!HandleIsTrue
  BY <1>1, <1>3, <1>4 DEF Client!HandleIsTrue, Client!Settled
<1> QED
  BY <1>1, <1>3, <1>5, <1>6 DEF ClientInv, Client!Settled

\* What a task is reported as after each action of the agent: what has settled
\* stays so, or is gone with the agent.
Reported ==
  /\ report' \in [Client!Tasks -> Client!States]
  /\ \A t \in Client!Tasks :
       report[t] \in Client!Settled \cup {"gone"} => report'[t] = report[t]
  /\ report["mine"] \in {"CANCELLING", "CANCELLED", "UNKNOWN"} =>
       report'["mine"] \in {"CANCELLING", "CANCELLED", "UNKNOWN"}

LEMMA CancellingIs ==
  ASSUME Client!TypeOK, Client!Cancelling, tCurrent # "none",
         report[tCurrent] \notin Client!Settled \cup {"gone"}
  PROVE  /\ Reported /\ report'[tCurrent] = "CANCELLING"
         /\ \A t \in Client!Tasks \ {tCurrent} : report'[t] = "CANCELLING" => report[t] = "CANCELLING"
         /\ tPlan' \in {"absent", "gone", "WAITING", "DONE", "STALE"}
<1>1. /\ report \in [Client!Tasks -> Client!States] /\ tCurrent \in Client!Tasks
      /\ tPlan \in {"absent", "gone", "WAITING", "DONE", "STALE"}
  BY DEF Client!TypeOK
<1>2. \A t \in Client!Tasks :
        report'[t] = IF report[t] = "QUEUED" /\ t # tCurrent THEN "CANCELLED"
                     ELSE IF t = tCurrent THEN "CANCELLING" ELSE report[t]
  BY <1>1 DEF Client!Cancelling, Client!Dequeued
<1>3. DOMAIN report' = Client!Tasks
  BY DEF Client!Cancelling, Client!Dequeued
<1>4. report' \in [Client!Tasks -> Client!States]
  <2>1. report' = [t \in Client!Tasks |-> report'[t]]
    BY <1>2 DEF Client!Cancelling, Client!Dequeued
  <2>2. \A t \in Client!Tasks : report'[t] \in Client!States
    BY <1>1, <1>2 DEF Client!States, Client!TERMINAL, Client!Settled
  <2> QED
    BY <2>1, <2>2
<1>5. "mine" \in Client!Tasks
  BY DEF Client!Tasks
<1>6. Reported
  BY <1>1, <1>2, <1>4, <1>5 DEF Reported, Client!Settled
<1>7. tPlan' \in {"absent", "gone", "WAITING", "DONE", "STALE"}
  BY <1>1 DEF Client!Cancelling
<1> QED
  BY <1>1, <1>2, <1>6, <1>7

\* What the invariant says of the variables.
LEMMA ClientTypes ==
  ASSUME ClientInv
  PROVE  /\ mode \in {"async", "sync", "closed"} /\ restarts \in 0..MaxRestarts
         /\ tCurrent \in Client!Tasks \cup {"none"} /\ report \in [Client!Tasks -> Client!States]
         /\ tPlan \in {"absent", "gone", "WAITING", "DONE", "STALE"}
         /\ receipt \in Client!States \cup {"none"}
         /\ cancels \in [Client!Calls -> [sent : {"no", "wire", "over"},
                                         caller : {"idle", "waits", "over"}]]
         /\ poll \in {"none", "asked"} \cup Client!States
         /\ watch \in {"off", "goal", "on", "over"}
         /\ tEnded \in Client!States \cup {"none"}
         /\ fenced \in 0..MaxCancels /\ tAsked \in BOOLEAN
         /\ MaxCancels \in Nat /\ MaxRestarts \in Nat
BY NodesAssumption DEF ClientInv, Client!TypeOK, Client!NoReceipt

\* The agent goes on, and the handle is not concerned.
GoesOn ==
  /\ Reported /\ UNCHANGED <<receipt, fenced, mode, restarts, cancels, poll, watch, tEnded>>
  /\ tCurrent' \in Client!Tasks \cup {"none"}
  /\ tPlan' \in {"absent", "gone", "WAITING", "DONE", "STALE"} /\ tAsked' \in BOOLEAN
  /\ report'["other"] = "CANCELLING" => tAsked'
  /\ tCurrent' # "none" => report'[tCurrent'] # "gone"

LEMMA GoesOnSafe ==
  ASSUME ClientInv, GoesOn
  PROVE  ClientInv'
<1>1. "mine" \in Client!Tasks
  BY DEF Client!Tasks
<1>2. Client!TypeOK'
  BY ClientTypes DEF GoesOn, Reported, Client!TypeOK, Client!NoReceipt
<1>3. Client!HandleIsTrue'
  BY <1>1 DEF ClientInv, Client!HandleIsTrue, GoesOn, Reported, Client!Settled
<1>4. fenced' > 0 => receipt' # "none"
  BY DEF ClientInv, GoesOn
<1>5. poll' \in Client!Settled => report'["mine"] \in {poll', "gone"}
  BY <1>1 DEF ClientInv, GoesOn, Reported, Client!Settled
<1> QED
  BY <1>2, <1>3, <1>4, <1>5 DEF ClientInv, Client!Settled, GoesOn

LEMMA AgentGoesOn ==
  ASSUME ClientInv
  PROVE  /\ \A t \in Client!Tasks : Client!Starts(t) => GoesOn
         /\ Client!Enqueued \/ Client!Goal \/ Client!Executes \/ Client!FinishesCancel => GoesOn
         /\ Client!OtherCancels => GoesOn
<1> USE DEF Client!caller, Client!watching
<1>0. /\ report["other"] = "CANCELLING" => tAsked
      /\ tCurrent # "none" => report[tCurrent] # "gone"
      /\ Client!Tasks = {"mine", "other"}
  BY DEF ClientInv, Client!HandleIsTrue, Client!Tasks
<1>1. ASSUME NEW t \in Client!Tasks, Client!Starts(t) PROVE GoesOn
  BY <1>0, <1>1, ClientTypes DEF Client!Starts, GoesOn, Reported, Client!States, Client!TERMINAL, Client!Settled
<1>2. CASE Client!Enqueued
  BY <1>0, <1>2, ClientTypes DEF Client!Enqueued, GoesOn, Reported, Client!States, Client!TERMINAL, Client!Settled
<1>3. CASE Client!Goal
  BY <1>0, <1>3, ClientTypes DEF Client!Goal, GoesOn, Reported, Client!States, Client!TERMINAL, Client!Settled
<1>4. CASE Client!Executes
  <2>1. PICK end \in Client!TERMINAL :
          /\ report' = Client!Dequeued([report EXCEPT ![tCurrent] = end],
                                       IF end = "SUCCEEDED" THEN "RUNNING" ELSE "CANCELLED")
          /\ tCurrent' = IF end = "SUCCEEDED" /\ {t \in Client!Tasks : report[t] = "QUEUED"} # {}
                         THEN CHOOSE t \in {t \in Client!Tasks : report[t] = "QUEUED"} : TRUE
                         ELSE tCurrent
    BY <1>4 DEF Client!Executes
  <2>2. tCurrent' \in Client!Tasks \cup {"none"}
    BY <2>1, ClientTypes
  <2>3. tCurrent \in Client!Tasks /\ report[tCurrent] = "RUNNING"
    BY <1>4, ClientTypes DEF Client!Executes
  <2>4. /\ report' = [t \in Client!Tasks |-> report'[t]]
        /\ \A t \in Client!Tasks :
             report'[t] = IF report[t] = "QUEUED" /\ t # tCurrent
                          THEN IF end = "SUCCEEDED" THEN "RUNNING" ELSE "CANCELLED"
                          ELSE IF t = tCurrent THEN end ELSE report[t]
    BY <2>1, <2>3, ClientTypes DEF Client!Dequeued
  <2>5. \A t \in Client!Tasks : report'[t] \in Client!States
    BY <2>4, ClientTypes DEF Client!States, Client!TERMINAL, Client!Settled
  <2>6. Reported /\ (report'["other"] = "CANCELLING" => report["other"] = "CANCELLING")
    BY <1>0, <2>3, <2>4, <2>5 DEF Reported, Client!Settled, Client!TERMINAL
  <2>7. tCurrent' # "none" => report'[tCurrent'] # "gone"
    <3>1. CASE tCurrent' = tCurrent
      BY <3>1, <2>3, <2>4 DEF Client!TERMINAL, Client!Settled
    <3>2. CASE tCurrent' # tCurrent
      <4>1. /\ end = "SUCCEEDED" /\ {t \in Client!Tasks : report[t] = "QUEUED"} # {}
            /\ tCurrent' = CHOOSE t \in {t \in Client!Tasks : report[t] = "QUEUED"} : TRUE
        BY <3>2, <2>1
      <4>2. tCurrent' \in {t \in Client!Tasks : report[t] = "QUEUED"}
        BY <4>1
      <4> QED
        BY <4>1, <4>2, <3>2, <2>4
    <3> QED
      BY <3>1, <3>2
  <2>8. tPlan' = tPlan /\ tAsked' = tAsked
        /\ UNCHANGED <<receipt, fenced, mode, restarts, cancels, poll, watch, tEnded>>
    BY <1>4 DEF Client!Executes
  <2> QED
    BY <1>0, <2>2, <2>6, <2>7, <2>8, ClientTypes DEF GoesOn
<1>5. CASE Client!FinishesCancel
  <2>1. tCurrent \in Client!Tasks /\ report[tCurrent] = "CANCELLING"
    BY <1>5, ClientTypes DEF Client!FinishesCancel
  <2>2. PICK end \in {"CANCELLED", "UNKNOWN"} : report' = [report EXCEPT ![tCurrent] = end]
    BY <1>5 DEF Client!FinishesCancel
  <2>3. Reported /\ (report'["other"] = "CANCELLING" => report["other"] = "CANCELLING")
    BY <1>0, <2>1, <2>2, ClientTypes DEF Reported, Client!States, Client!TERMINAL, Client!Settled
  <2> QED
    BY <1>0, <1>5, <2>3, ClientTypes DEF GoesOn, Client!FinishesCancel
<1>6. ASSUME Client!OtherCancels PROVE GoesOn
  <2>1. /\ tCurrent # "none" /\ report[tCurrent] \notin Client!Settled \cup {"gone"}
        /\ Client!Cancelling /\ tCurrent' = tCurrent
        /\ UNCHANGED <<receipt, fenced, mode, restarts, cancels, poll, watch, tEnded>>
    BY <1>6 DEF Client!OtherCancels, Client!Settled
  <2>2. tAsked' = (tAsked \/ tCurrent = "other")
    BY <1>6 DEF Client!OtherCancels
  <2>3. tAsked' \in BOOLEAN
    BY <2>2
  <2>4. report'["other"] = "CANCELLING" => tAsked'
    BY <1>0, <2>1, <2>2, CancellingIs DEF ClientInv
  <2>5. Client!TypeOK
    BY DEF ClientInv
  <2> QED
    BY <2>1, <2>3, <2>4, <2>5, CancellingIs, ClientTypes DEF GoesOn
<1> QED
  BY <1>1, <1>2, <1>3, <1>4, <1>5, <1>6

\* A new agent.
LEMMA AgentRestartsSafe ==
  ASSUME ClientInv, Client!AgentRestarts
  PROVE  ClientInv'
<1>1. /\ restarts' = restarts + 1 /\ restarts < MaxRestarts /\ tCurrent' = "none"
      /\ report' = [t \in Client!Tasks |-> IF report[t] = "absent" THEN "absent" ELSE "gone"]
      /\ tPlan' = IF tPlan = "absent" THEN "absent" ELSE "gone"
      /\ receipt' = "none" /\ fenced' = 0
      /\ UNCHANGED <<mode, cancels, poll, watch, tEnded>>
  BY DEF Client!AgentRestarts, Client!caller, Client!watching, Client!NoReceipt
<1>2. tAsked' \in BOOLEAN
  BY DEF Client!AgentRestarts
<1>3. restarts' \in 0..MaxRestarts /\ fenced' \in 0..MaxCancels
  BY <1>1, ClientTypes
<1>4. /\ report' \in [Client!Tasks -> Client!States]
      /\ \A t \in Client!Tasks : report'[t] = IF report[t] = "absent" THEN "absent" ELSE "gone"
      /\ {"mine", "other"} = Client!Tasks
  BY <1>1 DEF Client!States, Client!Tasks
<1>5. Client!TypeOK'
  BY <1>1, <1>2, <1>3, <1>4, ClientTypes DEF Client!TypeOK, Client!NoReceipt
<1>6. Client!HandleIsTrue'
  BY <1>1, <1>4 DEF ClientInv, Client!HandleIsTrue, Client!Settled
<1> QED
  BY <1>1, <1>4, <1>5, <1>6 DEF ClientInv, Client!Settled

\* An answer that is remembered says what the task is reported as.
LEMMA ReceiptSafe ==
  ASSUME ClientInv, Reported,
         UNCHANGED <<restarts, tCurrent, tAsked, mode, poll, watch, tEnded>>,
         cancels' \in [Client!Calls -> [sent : {"no", "wire", "over"}, caller : {"idle", "waits", "over"}]],
         tPlan' \in {"absent", "gone", "WAITING", "DONE", "STALE"},
         fenced' \in 0..MaxCancels, fenced' <= 1, fenced' > 0 => receipt' # "none",
         \/ receipt' = receipt
         \/ receipt' \in Client!Settled /\ report'["mine"] = receipt'
         \/ receipt' = "CANCELLING" /\ report'["mine"] = "CANCELLING",
         report'["other"] = "CANCELLING" => report["other"] = "CANCELLING",
         tCurrent # "none" => report'[tCurrent] # "gone"
  PROVE  ClientInv'
<1>1. "mine" \in Client!Tasks /\ "other" \in Client!Tasks
  BY DEF Client!Tasks
<1>2. receipt' \in Client!States \cup {"none"}
  BY ClientTypes DEF Client!States, Client!TERMINAL
<1>3. Client!TypeOK'
  BY <1>2, ClientTypes DEF Reported, Client!TypeOK, Client!NoReceipt
<1>4. Client!HandleIsTrue'
  BY <1>1 DEF Reported, ClientInv, Client!HandleIsTrue, Client!Settled
<1>5. poll' \in Client!Settled => report'["mine"] \in {poll', "gone"}
  BY <1>1 DEF ClientInv, Reported, Client!Settled
<1> QED
  BY <1>3, <1>4, <1>5 DEF ClientInv, Client!Settled

\* The agent is asked to cancel by the handle.
LEMMA CancelServedSafe ==
  ASSUME ClientInv, NEW c \in Client!Calls, Client!CancelServed(c)
  PROVE  ClientInv'
<1>1. UNCHANGED <<restarts, tCurrent, tAsked, mode, poll, watch, tEnded>>
  BY DEF Client!CancelServed, Client!watching
<1>2. cancels' \in [Client!Calls -> [sent : {"no", "wire", "over"}, caller : {"idle", "waits", "over"}]]
  BY ClientTypes DEF Client!CancelServed, Client!Answered
<1>3. "mine" \in Client!Tasks /\ "other" \in Client!Tasks /\ ClientInv
  BY DEF Client!Tasks
<1>4. CASE UNCHANGED <<report, tPlan, receipt, fenced>>
  <2>1. Reported
    BY <1>4, ClientTypes DEF Reported
  <2>2. fenced' <= 1 /\ (fenced' > 0 => receipt' # "none") /\ (tCurrent # "none" => report'[tCurrent] # "gone")
    BY <1>4 DEF ClientInv, Client!HandleIsTrue
  <2> QED
    BY <1>1, <1>2, <1>4, <2>1, <2>2, ClientTypes, ReceiptSafe
<1>5. CASE /\ ~Client!Known /\ report["mine"] = "QUEUED"
           /\ report' = [report EXCEPT !["mine"] = "CANCELLED"]
           /\ receipt' = "CANCELLED" /\ UNCHANGED <<tPlan, fenced>>
  <2>1. Reported /\ report'["mine"] = "CANCELLED" /\ report'["other"] = report["other"]
    BY <1>3, <1>5, ClientTypes DEF Reported, Client!States, Client!TERMINAL, Client!Settled
  <2>2. tCurrent # "none" => report'[tCurrent] # "gone"
    BY <1>3, <1>5, ClientTypes DEF ClientInv
  <2>3. fenced' <= 1
    BY <1>5 DEF ClientInv, Client!HandleIsTrue
  <2> QED
    BY <1>1, <1>2, <1>5, <2>1, <2>2, <2>3, ClientTypes, ReceiptSafe DEF Client!Settled
<1>6. CASE /\ ~Client!Known /\ tCurrent = "mine"
           /\ receipt' = IF report[tCurrent] \in Client!Settled THEN report[tCurrent] ELSE "CANCELLING"
           /\ IF report[tCurrent] \in Client!Settled \cup {"CANCELLING"}
              THEN UNCHANGED <<report, tPlan, fenced>>
              ELSE Client!Cancelling /\ fenced' = fenced + 1
  <2>1. report["mine"] # "gone"
    BY <1>6 DEF ClientInv
  <2>2. CASE report["mine"] \in Client!Settled \cup {"CANCELLING"}
    <3>1. Reported
      BY <1>6, <2>2, ClientTypes DEF Reported
    <3>2. fenced' <= 1 /\ UNCHANGED <<report, tPlan, fenced>>
      BY <1>6, <2>2 DEF ClientInv, Client!HandleIsTrue
    <3>3. receipt' # "none"
      BY <1>6 DEF Client!Settled
    <3> QED
      BY <1>1, <1>2, <1>6, <2>1, <2>2, <3>1, <3>2, <3>3, ClientTypes, ReceiptSafe
  <2>3. CASE report["mine"] \notin Client!Settled \cup {"CANCELLING"}
    <3>1. /\ Client!Cancelling /\ fenced' = fenced + 1 /\ receipt' = "CANCELLING"
          /\ receipt = "none"
      BY <1>6, <2>3 DEF Client!Known, Client!NoReceipt
    <3>2. fenced' = 1
      BY <3>1, ClientTypes DEF ClientInv
    <3>3. fenced' \in 0..MaxCancels
      BY <3>2, ClientTypes DEF Client!Calls
    <3>4. /\ Reported /\ report'["mine"] = "CANCELLING"
          /\ report'["other"] = "CANCELLING" => report["other"] = "CANCELLING"
          /\ tPlan' \in {"absent", "gone", "WAITING", "DONE", "STALE"}
      <4>1. Client!TypeOK
        BY DEF ClientInv
      <4> QED
        BY <1>3, <1>6, <2>1, <2>3, <3>1, <4>1, CancellingIs
    <3> QED
      BY <1>1, <1>2, <1>6, <3>1, <3>2, <3>3, <3>4, ReceiptSafe
  <2> QED
    BY <2>2, <2>3
<1> QED
  BY <1>4, <1>5, <1>6 DEF Client!CancelServed, Client!Targets

\* The handle's own steps: the poll reads what is reported.
HandleReads ==
  /\ UNCHANGED <<restarts, tCurrent, report, tPlan, receipt, fenced, tAsked>>
  /\ mode' \in {"async", "sync", "closed"}
  /\ cancels' \in [Client!Calls -> [sent : {"no", "wire", "over"}, caller : {"idle", "waits", "over"}]]
  /\ watch' \in {"off", "goal", "on", "over"}
  /\ poll' = poll \/ poll' \in {"none", "asked"} \/ poll' = report["mine"]
  /\ tEnded' = tEnded \/ (tEnded' = poll /\ poll \in Client!States)

LEMMA ReadsSafe ==
  ASSUME ClientInv, HandleReads
  PROVE  ClientInv'
<1>1. "mine" \in Client!Tasks
  BY DEF Client!Tasks
<1>2. poll' \in {"none", "asked"} \cup Client!States /\ tEnded' \in Client!States \cup {"none"}
  BY <1>1, ClientTypes DEF HandleReads
<1>3. Client!TypeOK'
  BY <1>2, ClientTypes DEF Client!TypeOK, Client!NoReceipt, HandleReads
<1>4. Client!HandleIsTrue' /\ (poll' \in Client!Settled => report'["mine"] \in {poll', "gone"})
  BY <1>1 DEF ClientInv, Client!HandleIsTrue, Client!Settled, HandleReads
<1> QED
  BY <1>3, <1>4 DEF ClientInv, Client!Settled, HandleReads

LEMMA HandleDoesRead ==
  ASSUME ClientInv
  PROVE  /\ \A c \in Client!Calls :
              Client!Cancel(c) \/ Client!CancelLost(c) \/ Client!CancelTimeout(c) => HandleReads
         /\ Client!Watch \/ Client!WaitGoal \/ Client!WatchEnds \/ Client!SessionEnds => HandleReads
         /\ Client!Poll \/ Client!PollServed \/ Client!Polled => HandleReads
<1> USE DEF Client!agent, Client!watching, HandleReads
<1>1. ASSUME NEW c \in Client!Calls, Client!Cancel(c) \/ Client!CancelLost(c) \/ Client!CancelTimeout(c)
      PROVE  HandleReads
  <2>1. cancels' \in [Client!Calls -> [sent : {"no", "wire", "over"}, caller : {"idle", "waits", "over"}]]
    BY <1>1, ClientTypes DEF Client!Cancel, Client!CancelLost, Client!CancelTimeout
  <2> QED
    BY <1>1, <2>1, ClientTypes DEF Client!Cancel, Client!CancelLost, Client!CancelTimeout
<1>2. ASSUME Client!Watch PROVE HandleReads
  BY <1>2, ClientTypes DEF Client!Watch
<1>3. ASSUME Client!WaitGoal PROVE HandleReads
  <2>1. watch' \in {"off", "goal", "on", "over"}
    <3>1. watch' = CASE tPlan = "WAITING" -> "goal" [] tPlan = "DONE" -> "on" [] OTHER -> "over"
      BY <1>3 DEF Client!WaitGoal
    <3> QED
      BY <3>1
  <2> QED
    BY <1>3, <2>1, ClientTypes DEF Client!WaitGoal
<1>4. ASSUME Client!WatchEnds PROVE HandleReads
  BY <1>4, ClientTypes DEF Client!WatchEnds
<1>5. ASSUME Client!SessionEnds PROVE HandleReads
  BY <1>5, ClientTypes DEF Client!SessionEnds
<1>6. ASSUME Client!Poll PROVE HandleReads
  BY <1>6, ClientTypes DEF Client!Poll
<1>7. ASSUME Client!PollServed PROVE HandleReads
  BY <1>7, ClientTypes DEF Client!PollServed, Client!Reported
<1>8. ASSUME Client!Polled PROVE HandleReads
  BY <1>8, ClientTypes DEF Client!Polled
<1> QED
  BY <1>1, <1>2, <1>3, <1>4, <1>5, <1>6, <1>7, <1>8

LEMMA TaskClientStep ==
  ASSUME ClientInv, [Client!Next]_task_client
  PROVE  ClientInv'
<1>1. CASE \/ \E t \in Client!Tasks : Client!Starts(t)
           \/ Client!Enqueued \/ Client!Goal \/ Client!Executes \/ Client!FinishesCancel
           \/ Client!OtherCancels
  BY <1>1, AgentGoesOn, GoesOnSafe
<1>2. CASE Client!AgentRestarts \/ \E c \in Client!Calls : Client!CancelServed(c)
  BY <1>2, AgentRestartsSafe, CancelServedSafe
<1>3. CASE \/ \E c \in Client!Calls : Client!Cancel(c) \/ Client!CancelLost(c) \/ Client!CancelTimeout(c)
           \/ Client!Watch \/ Client!WaitGoal \/ Client!WatchEnds \/ Client!SessionEnds
           \/ Client!Poll \/ Client!PollServed \/ Client!Polled
  BY <1>3, HandleDoesRead, ReadsSafe
<1>4. CASE UNCHANGED task_client
  BY <1>4, ClientTypes, ReadsSafe DEF task_client, HandleReads
<1> QED
  BY <1>1, <1>2, <1>3, <1>4 DEF Client!Next

(***************************************************************************)
(* SpeechOutput.                                                           *)
(***************************************************************************)

\* A thread that has not begun to play, or has returned definitely, leaves the
\* device closed; one that is about to close it has silenced it, and has heard the
\* utterance out unless it was stopped.
Sounding ==
  /\ handler \in Speech!Settled =>
       thread \in {"none", "audio", "nothing", "failed", "played", "silenced"}
  /\ handler = "synthesizing" => thread \in {"render", "audio", "nothing", "failed"}
  /\ handler = "playing" => thread \notin {"none", "render", "audio", "nothing"}
  /\ handler = "unwinding" => thread # "none"
  /\ thread \in {"none", "render", "audio", "nothing", "failed", "open", "played", "silenced"} =>
       stream = "closed"
  /\ thread = "close" => stream = "silent"
  /\ thread = "abort" => stopped

Counted ==
  /\ completed <= drained /\ drained <= utterance
  /\ thread \in {"render", "audio", "nothing", "failed", "open", "write"} =>
       drained < utterance \/ handler \in Speech!Settled
  /\ thread = "drain" => drained < utterance
  /\ handler = "playing" /\ thread = "played" => completed < drained
  /\ handler = "playing" /\ thread = "close" => stopped \/ completed < drained

SpeechInv == Speech!TypeOK /\ Sounding /\ Counted

\* Nothing was said.
LEMMA SpeechInit == Speech!Init => SpeechInv
<1> SUFFICES ASSUME Speech!Init PROVE SpeechInv
  OBVIOUS
<1>1. Utterances \in Nat /\ Blocks \in Nat
  BY NodesAssumption
<1>2. Speech!TypeOK
  <2>1. /\ stop = FALSE /\ stopped = FALSE /\ handler = "idle" /\ thread = "none" /\ stream = "closed"
        /\ {cancelled, block, completed, utterance, drained} = {0}
    BY DEF Speech!Init
  <2>2. cancelled \in 0..2 /\ block \in 0..Blocks /\ {completed, utterance, drained} \subseteq 0..Utterances
    BY <1>1, <2>1
  <2> QED
    BY <2>1, <2>2 DEF Speech!TypeOK, Speech!Ends, Speech!Settled
<1>3. Sounding
  BY DEF Speech!Init, Sounding
<1>4. Counted
  BY DEF Speech!Init, Counted
<1> QED
  BY <1>2, <1>3, <1>4 DEF SpeechInv

LEMMA SpeechTypes ==
  ASSUME Speech!TypeOK
  PROVE  /\ stop \in BOOLEAN /\ stopped \in BOOLEAN
         /\ handler \in {"idle", "true", "false", "failed", "cancelled", "unknown", "abandoned",
                         "synthesizing", "playing", "unwinding"}
         /\ thread \in {"none", "render", "open", "write", "abort", "drain", "close",
                        "audio", "nothing", "failed", "played", "silenced", "doubtful"}
         /\ stream \in {"closed", "playing", "silent"}
         /\ cancelled \in 0..2 /\ block \in 0..Blocks
         /\ completed \in 0..Utterances /\ utterance \in 0..Utterances /\ drained \in 0..Utterances
         /\ Utterances \in Nat /\ Blocks \in Nat
BY NodesAssumption DEF Speech!TypeOK, Speech!Ends, Speech!Settled, Speech!Returned

\* Where the device and the threads are.
LEMMA SoundingStep == SpeechInv /\ [Speech!Next]_speech => Sounding'
<1> SUFFICES ASSUME SpeechInv, [Speech!Next]_speech PROVE Sounding'
  OBVIOUS
<1> USE DEF Sounding, Speech!Settled, Speech!Frame, Speech!Returned
<1>0. Speech!TypeOK /\ Sounding
  BY DEF SpeechInv
<1>1. CASE Speech!Speak \/ Speech!SetStop \/ Speech!Relay
  BY <1>0, <1>1, SpeechTypes DEF Speech!Speak, Speech!SetStop, Speech!Relay, Speech!Running
<1>2. CASE Speech!CancelCoroutine
  BY <1>0, <1>2, SpeechTypes DEF Speech!CancelCoroutine, Speech!Running, Speech!Unwinding
<1>3. CASE Speech!Unwound
  BY <1>0, <1>3, SpeechTypes DEF Speech!Unwound
<1>4. CASE Speech!Synthesized
  BY <1>0, <1>4, SpeechTypes DEF Speech!Synthesized
<1>5. CASE Speech!Played
  BY <1>0, <1>5, SpeechTypes DEF Speech!Played, Speech!Spoken
<1>6. CASE Speech!Render \/ Speech!Open
  BY <1>0, <1>6, SpeechTypes DEF Speech!Render, Speech!Open
<1>7. CASE Speech!Write \/ Speech!Drain
  BY <1>0, <1>7, SpeechTypes DEF Speech!Write, Speech!Drain, Speech!Fails
<1>8. CASE Speech!Abort
  BY <1>0, <1>8, SpeechTypes DEF Speech!Abort, Speech!Fails, Speech!Silenced
<1>9. CASE Speech!Closes
  BY <1>0, <1>9, SpeechTypes DEF Speech!Closes
<1>10. CASE UNCHANGED speech
  BY <1>0, <1>10 DEF speech
<1> QED
  BY <1>1, <1>2, <1>3, <1>4, <1>5, <1>6, <1>7, <1>8, <1>9, <1>10 DEF Speech!Next

\* Another utterance.
LEMMA SpeakCounted ==
  ASSUME SpeechInv, Speech!Speak
  PROVE  Speech!TypeOK' /\ Counted'
<1> DEFINE said == utterance + 1
<1>1. /\ completed \in 0..Utterances /\ drained \in 0..Utterances /\ utterance \in 0..Utterances
      /\ Utterances \in Nat /\ Blocks \in Nat /\ stream \in {"closed", "playing", "silent"}
      /\ completed <= drained /\ drained <= utterance
  BY SpeechTypes DEF SpeechInv, Counted
<1>2. utterance < Utterances /\ utterance' = said /\ cancelled' = 0 /\ block' = 0
      /\ UNCHANGED <<stream, completed, drained>>
  BY DEF Speech!Speak
<1>3. said \in 0..Utterances /\ drained < said
  BY <1>1, <1>2
<1> HIDE DEF said
<1>4. /\ {completed', utterance', drained'} \subseteq 0..Utterances
      /\ cancelled' \in 0..2 /\ block' \in 0..Blocks
      /\ completed' <= drained' /\ drained' < utterance' /\ drained' <= utterance'
  BY <1>1, <1>2, <1>3
<1>5. /\ handler' \in {"false", "synthesizing"} /\ thread' \in {"none", "render"}
      /\ {stop', stopped'} \subseteq BOOLEAN
  BY DEF Speech!Speak
<1>6. Speech!TypeOK'
  BY <1>1, <1>2, <1>4, <1>5 DEF Speech!TypeOK, Speech!Ends, Speech!Settled
<1>7. Counted'
  BY <1>4, <1>5 DEF Counted
<1> QED
  BY <1>6, <1>7

\* What has been said and heard.
LEMMA CountedStep == SpeechInv /\ [Speech!Next]_speech => Speech!TypeOK' /\ Counted'
<1> SUFFICES ASSUME SpeechInv, [Speech!Next]_speech PROVE Speech!TypeOK' /\ Counted'
  OBVIOUS
<1> USE DEF Speech!TypeOK, Counted, Sounding, Speech!Ends, Speech!Settled, Speech!Frame, Speech!Returned
<1>0. Speech!TypeOK /\ Sounding /\ Counted
  BY DEF SpeechInv
<1>1. CASE Speech!Speak
  BY <1>1, SpeakCounted
<1>2. CASE Speech!SetStop \/ Speech!Relay
  BY <1>0, <1>2, SpeechTypes DEF Speech!SetStop, Speech!Relay, Speech!Running
<1>3. CASE Speech!CancelCoroutine
  BY <1>0, <1>3, SpeechTypes DEF Speech!CancelCoroutine, Speech!Running, Speech!Unwinding
<1>4. CASE Speech!Unwound
  BY <1>0, <1>4, SpeechTypes DEF Speech!Unwound
<1>5. CASE Speech!Synthesized
  BY <1>0, <1>5, SpeechTypes DEF Speech!Synthesized
<1>6. CASE Speech!Played
  BY <1>0, <1>6, SpeechTypes DEF Speech!Played, Speech!Spoken
<1>7. CASE Speech!Render \/ Speech!Open
  BY <1>0, <1>7, SpeechTypes DEF Speech!Render, Speech!Open
<1>8. CASE Speech!Write
  BY <1>0, <1>8, SpeechTypes DEF Speech!Write, Speech!Fails
<1>9. CASE Speech!Drain
  BY <1>0, <1>9, SpeechTypes DEF Speech!Drain, Speech!Fails
<1>10. CASE Speech!Abort
  BY <1>0, <1>10, SpeechTypes DEF Speech!Abort, Speech!Fails, Speech!Silenced
<1>11. CASE Speech!Closes
  BY <1>0, <1>11, SpeechTypes DEF Speech!Closes
<1>12. CASE UNCHANGED speech
  BY <1>0, <1>12 DEF speech
<1> QED
  BY <1>1, <1>2, <1>3, <1>4, <1>5, <1>6, <1>7, <1>8, <1>9, <1>10, <1>11, <1>12 DEF Speech!Next

LEMMA SpeechStep == SpeechInv /\ [Speech!Next]_speech => SpeechInv'
BY SoundingStep, CountedStep DEF SpeechInv

LEMMA SpeechSafe == SpeechInv => Speech!SilentWhenSettled
BY SpeechTypes DEF SpeechInv, Sounding, Counted, Speech!SilentWhenSettled, Speech!Settled, Speech!Returned

(***************************************************************************)
(* JawDrive.                                                               *)
(***************************************************************************)

\* The register tells the truth unless it is older than the command; what waits
\* for the command's end sees an older one only while it says "moving", or does not
\* believe it yet.
JawInv ==
  /\ Jaw!TypeOK
  /\ ~fresh => /\ register = "arrived" => opening = aimed
               /\ register = "caught" => Jaw!Blocked
  /\ opening = wanted => reached
  /\ driving \in {"polling", "timeout", "halting", "failing"} => aimed = wanted
  /\ driving = "waiting" => aimed = noted
  /\ driving = "polling" /\ waited => ~fresh
  /\ driving = "polling" /\ turning /\ fresh => register = "moving"
  /\ driving \in {"halting", "failing", "waiting"} /\ noted = wanted => reached
  /\ driving = "idle" =>
       /\ ended = "arrived" => opening = wanted /\ aimed = wanted
       /\ ended = "caught" => aimed = wanted /\ Jaw!Blocked
       /\ ended = "stopped" => (aimed = wanted => reached)

\* The jaw is open.
LEMMA JawInit == Jaw!Init => JawInv
<1> SUFFICES ASSUME Jaw!Init PROVE JawInv
  OBVIOUS
<1>1. Width \in Nat
  BY NodesAssumption
<1>2. Jaw!TypeOK
  <2>1. /\ opening \in 0..Width /\ aimed \in 0..Width /\ wanted \in 0..Width /\ noted \in 0..Width
        /\ contact \in 0..Width \cup {-1}
    BY <1>1 DEF Jaw!Init, Jaw!Positions
  <2>2. fresh = FALSE /\ turning = FALSE /\ waited = FALSE /\ jStopped = FALSE /\ reached = TRUE
    BY DEF Jaw!Init
  <2>3. register = "arrived" /\ driving = "idle" /\ ended = "none"
    BY DEF Jaw!Init
  <2> QED
    BY <2>1, <2>2, <2>3 DEF Jaw!TypeOK, Jaw!Positions, Jaw!Ends
<1> QED
  BY <1>2 DEF Jaw!Init, JawInv

LEMMA JawTypes ==
  ASSUME JawInv
  PROVE  /\ Width \in Nat /\ opening \in 0..Width /\ aimed \in 0..Width /\ wanted \in 0..Width
         /\ noted \in 0..Width /\ contact \in 0..Width \cup {-1}
         /\ register \in {"moving", "arrived", "caught"}
         /\ fresh \in BOOLEAN /\ turning \in BOOLEAN /\ waited \in BOOLEAN /\ jStopped \in BOOLEAN
         /\ reached \in BOOLEAN
         /\ driving \in {"idle", "polling", "timeout", "halting", "failing", "waiting"}
         /\ ended \in {"arrived", "caught", "stopped", "unknown", "none"}
BY NodesAssumption DEF JawInv, Jaw!TypeOK, Jaw!Positions, Jaw!Ends

LEMMA JawTyped ==
  ASSUME opening' \in 0..Width, aimed' \in 0..Width, wanted' \in 0..Width, noted' \in 0..Width,
         contact' \in 0..Width \cup {-1},
         fresh' \in BOOLEAN, turning' \in BOOLEAN, waited' \in BOOLEAN, jStopped' \in BOOLEAN,
         reached' \in BOOLEAN, register' \in {"moving", "arrived", "caught"},
         driving' \in {"idle", "polling", "timeout", "halting", "failing", "waiting"},
         ended' \in {"arrived", "caught", "stopped", "unknown", "none"}
  PROVE  Jaw!TypeOK'
<1>1. {fresh', turning', waited', jStopped', reached'} \subseteq BOOLEAN
  OBVIOUS
<1>2. {opening', aimed', wanted', noted'} \subseteq Jaw!Positions /\ contact' \in Jaw!Positions \cup {-1}
  BY DEF Jaw!Positions
<1> QED
  BY <1>1, <1>2 DEF Jaw!TypeOK, Jaw!Ends

\* The jaw goes one position on towards where it is aimed.
LEMMA SlideSafe ==
  ASSUME JawInv, Jaw!Slide
  PROVE  JawInv'
<1> DEFINE to == IF aimed > opening THEN opening + 1 ELSE opening - 1
           there == reached \/ to = wanted
<1>1. to \in 0..Width /\ opening # aimed /\ ~Jaw!Blocked
  BY JawTypes DEF Jaw!Slide, Jaw!Moving
<1>2. there \in BOOLEAN
  OBVIOUS
<1>3. /\ opening' = to /\ reached' = there
      /\ UNCHANGED <<aimed, contact, register, fresh, driving, wanted, turning, waited, jStopped,
                     noted, ended>>
  BY DEF Jaw!Slide
<1>4. (reached => there) /\ (to = wanted => there)
  OBVIOUS
<1> HIDE DEF to, there
<1>5. Jaw!TypeOK'
  BY <1>1, <1>2, <1>3, JawTypes DEF Jaw!TypeOK, Jaw!Positions, Jaw!Ends
<1>6. fresh \/ register = "moving"
  BY <1>1, JawTypes DEF JawInv
<1> QED
  BY <1>1, <1>3, <1>4, <1>5, <1>6, JawTypes DEF JawInv, Jaw!Blocked

\* A command is written, or may have been; the register has not followed.
LEMMA CommandSafe ==
  ASSUME JawInv, Jaw!Command
  PROVE  JawInv'
<1>1. PICK to \in {0, Width} : wanted' = to
  BY DEF Jaw!Command
<1>2. /\ to \in 0..Width /\ reached' = (opening = to) /\ reached' \in BOOLEAN
      /\ opening' = opening /\ contact' = contact /\ register' = register /\ noted' = noted
      /\ turning' = FALSE /\ waited' = FALSE /\ jStopped' = FALSE
  BY <1>1, JawTypes DEF Jaw!Command, Jaw!Written
<1>3. \/ driving' = "polling" /\ ended' = "none" /\ aimed' = to /\ fresh' = TRUE
      \/ driving' = "idle" /\ ended' = "unknown" /\ aimed' = to /\ fresh' = TRUE
      \/ driving' = "idle" /\ ended' = "unknown" /\ aimed' = aimed /\ fresh' = fresh
  BY <1>1 DEF Jaw!Command, Jaw!Written
<1>4. Jaw!TypeOK'
  BY <1>1, <1>2, <1>3, JawTypes DEF Jaw!TypeOK, Jaw!Positions, Jaw!Ends
<1> QED
  BY <1>1, <1>2, <1>3, <1>4, JawTypes DEF JawInv, Jaw!Blocked

\* What is read of the register ends the command only when it is up to date.
LEMMA PollSafe ==
  ASSUME JawInv, Jaw!Poll
  PROVE  JawInv'
<1>1. /\ driving = "polling" /\ turning' = (turning \/ register = "moving")
      /\ UNCHANGED <<opening, aimed, contact, register, fresh, reached, wanted, waited, jStopped, noted>>
  BY DEF Jaw!Poll, Jaw!device
<1>2. turning' \in BOOLEAN
  BY <1>1
<1>3. CASE register # "moving" /\ (turning' \/ waited)
  <2>1. driving' = "idle" /\ ended' = register
    BY <1>3 DEF Jaw!Poll, Jaw!Terminal
  <2>2. ~fresh /\ aimed = wanted
    BY <1>1, <1>3 DEF JawInv
  <2>3. (register = "arrived" => opening = aimed) /\ (register = "caught" => Jaw!Blocked)
    BY <2>2 DEF JawInv
  <2>4. Jaw!TypeOK'
    BY <1>1, <1>2, <1>3, <2>1, JawTypes, JawTyped
  <2> QED
    BY <1>1, <1>3, <2>1, <2>2, <2>3, <2>4, JawTypes DEF JawInv, Jaw!Blocked
<1>4. CASE ~(register # "moving" /\ (turning' \/ waited))
  <2>1. ended' = ended /\ driving' \in {"polling", "timeout"}
    BY <1>4 DEF Jaw!Poll, Jaw!Terminal
  <2>2. Jaw!TypeOK'
    BY <1>1, <1>2, <2>1, JawTypes DEF Jaw!TypeOK, Jaw!Positions, Jaw!Ends
  <2> QED
    BY <1>1, <1>4, <2>1, <2>2, JawTypes DEF JawInv, Jaw!Blocked
<1> QED
  BY <1>3, <1>4

\* The jaw is aimed at where it was read to be.
LEMMA HaltSafe ==
  ASSUME JawInv, Jaw!HaltReads \/ Jaw!HaltWrites \/ Jaw!JawRests \/ Jaw!LineFails
  PROVE  JawInv'
<1> USE JawTypes DEF Jaw!Positions, Jaw!Ends, Jaw!device, Jaw!Blocked, Jaw!Written, JawInv, Jaw!TypeOK
<1>1. CASE Jaw!HaltReads
  BY <1>1 DEF Jaw!HaltReads
<1>2. CASE Jaw!HaltWrites
  BY <1>2 DEF Jaw!HaltWrites, Jaw!Halted
<1>3. CASE Jaw!JawRests
  BY <1>3 DEF Jaw!JawRests
<1>4. CASE Jaw!LineFails
  <2>1. /\ driving' = "idle" /\ ended' = "unknown"
        /\ aimed' \in 0..Width /\ fresh' \in BOOLEAN /\ (fresh' \/ (fresh' = fresh /\ aimed' = aimed))
        /\ UNCHANGED <<opening, contact, register, reached, wanted, turning, waited, jStopped, noted>>
    BY <1>4 DEF Jaw!LineFails, Jaw!Fault
  <2> QED
    BY <2>1
<1> QED
  BY <1>1, <1>2, <1>3, <1>4

LEMMA JawStep == JawInv /\ [Jaw!Next]_jaw => JawInv'
<1> SUFFICES ASSUME JawInv, [Jaw!Next]_jaw PROVE JawInv'
  OBVIOUS
<1>1. CASE Jaw!Sense
  <2> DEFINE says == IF Jaw!Moving THEN "moving" ELSE IF Jaw!Blocked THEN "caught" ELSE "arrived"
  <2>1. /\ says \in {"moving", "caught", "arrived"}
        /\ says = "arrived" => opening = aimed
        /\ says = "caught" => Jaw!Blocked
    BY DEF Jaw!Moving
  <2>2. /\ register' = says /\ fresh' = FALSE
        /\ UNCHANGED <<opening, aimed, contact, reached, driving, wanted, turning, waited, jStopped,
                       noted, ended>>
    BY <1>1 DEF Jaw!Sense
  <2> HIDE DEF says
  <2>3. Jaw!TypeOK'
    BY <2>1, <2>2, JawTypes, JawTyped
  <2> QED
    BY <2>1, <2>2, <2>3, JawTypes DEF JawInv, Jaw!Blocked
<1>2. CASE Jaw!SetStop \/ Jaw!Wait
  <2>1. /\ waited' \in BOOLEAN /\ jStopped' \in BOOLEAN
        /\ waited' => waited \/ (driving = "polling" /\ ~fresh)
        /\ UNCHANGED <<opening, aimed, contact, register, fresh, reached, driving, wanted, turning,
                       noted, ended>>
    <3>1. CASE Jaw!SetStop
      BY <3>1, JawTypes DEF Jaw!SetStop, Jaw!device
    <3>2. CASE Jaw!Wait
      <4>1. waited' = TRUE /\ jStopped' = jStopped /\ driving = "polling" /\ ~fresh
        BY <3>2 DEF Jaw!Wait
      <4> QED
        BY <3>2, <4>1, JawTypes DEF Jaw!Wait, Jaw!device
    <3> QED
      BY <1>2, <3>1, <3>2
  <2>2. Jaw!TypeOK'
    BY <2>1, JawTypes, JawTyped
  <2> QED
    BY <2>1, <2>2, JawTypes DEF JawInv, Jaw!Blocked
<1>3. CASE UNCHANGED jaw
  BY <1>3 DEF jaw, JawInv, Jaw!TypeOK, Jaw!Blocked
<1> QED
  BY <1>1, <1>2, <1>3, SlideSafe, CommandSafe, PollSafe, HaltSafe DEF Jaw!Next

LEMMA JawSafe == JawInv => Jaw!JawAsReported
BY JawTypes DEF JawInv, Jaw!JawAsReported, Jaw!Moving, Jaw!Blocked

(***************************************************************************)
(* MockWorld.                                                              *)
(***************************************************************************)

MockWorlds ==
  [at : [Objects -> {"table", "gripper", "B", "C"}], held : Objects \cup {NoObject},
   pose : {"home", "B"}]

\* The object held is the one in the gripper; a skill that waits has changed
\* nothing, and what is to fail once has failed a pick or is still to come.
GripperTrue == \A o \in Objects : world.held = o <=> world.at[o] = "gripper"
MockInv ==
  /\ Mock!TypeOK /\ GripperTrue
  /\ result \in {"failed", "cancelled", "unknown"} => world = past
  /\ task # Mock!Idle => world = past
  /\ fault \in Mock!Once => refused + remaining <= 1

LEMMA MockInit == Mock!Init => MockInv
<1> SUFFICES ASSUME Mock!Init PROVE MockInv
  OBVIOUS
<1>1. /\ fault \in Mock!Faults /\ remaining = 1 /\ refused = 0 /\ past = world
      /\ task = Mock!Idle /\ told = FALSE /\ result = "none"
  BY DEF Mock!Init
<1>2. world = [at |-> [o \in Objects |-> "table"], held |-> NoObject, pose |-> "home"]
  BY DEF Mock!Init
<1>3. world \in MockWorlds
  BY <1>2 DEF MockWorlds
<1>4. GripperTrue
  BY <1>2, NodesAssumption DEF GripperTrue
<1>5. Mock!TypeOK
  <2>1. remaining \in 0..1 /\ refused \in 0..2
    BY <1>1
  <2> QED
    BY <1>1, <1>3, <2>1 DEF Mock!TypeOK, MockWorlds
<1> QED
  BY <1>1, <1>4, <1>5 DEF MockInv

LEMMA MockTypes ==
  ASSUME MockInv
  PROVE  /\ fault \in Mock!Faults /\ remaining \in {0, 1} /\ refused \in {0, 1, 2}
         /\ world \in MockWorlds /\ past \in MockWorlds
         /\ task \in Mock!Tasks \cup {Mock!Idle} /\ told \in BOOLEAN
         /\ result \in {"none", "succeeded", "failed", "cancelled", "unknown"}
<1>1. /\ fault \in Mock!Faults /\ world \in MockWorlds /\ past \in MockWorlds
      /\ task \in Mock!Tasks \cup {Mock!Idle} /\ told \in BOOLEAN
      /\ result \in {"none", "succeeded", "failed", "cancelled", "unknown"}
  BY DEF MockInv, Mock!TypeOK, MockWorlds
<1>2. remaining \in 0..1 /\ refused \in 0..2
  BY DEF MockInv, Mock!TypeOK
<1> QED
  BY <1>1, <1>2

\* What a skill does leaves one object in the gripper at most.
LEMMA EffectIs ==
  ASSUME MockInv, task \in Mock!Tasks, Mock!Fits
  PROVE  /\ Mock!Effect \in MockWorlds
         /\ \A o \in Objects : Mock!Effect.held = o <=> Mock!Effect.at[o] = "gripper"
<1> DEFINE w == Mock!Effect
           there == [world.at EXCEPT ![task.object] = "gripper"]
           put == [world.at EXCEPT ![task.object] = task.place]
<1>1. world \in MockWorlds /\ GripperTrue
  BY MockTypes DEF MockInv
<1>2. CASE task.skill = "pick"
  <2>1. task.object \in Objects /\ world.held = NoObject
    BY <1>2 DEF Mock!Fits, Mock!Free
  <2>2. w = [world EXCEPT !.held = task.object, !.at[task.object] = "gripper"]
    BY <1>2 DEF Mock!Effect
  <2>3. w.held = task.object /\ w.at = there /\ w.pose = world.pose /\ w = [at |-> w.at, held |-> w.held, pose |-> w.pose]
    BY <1>1, <2>2 DEF MockWorlds
  <2>4. there \in [Objects -> {"table", "gripper", "B", "C"}]
    BY <1>1 DEF MockWorlds
  <2>5. w \in MockWorlds
    BY <1>1, <2>1, <2>3, <2>4 DEF MockWorlds
  <2>6. \A o \in Objects : there[o] = IF o = task.object THEN "gripper" ELSE world.at[o]
    BY <1>1 DEF MockWorlds
  <2>7. \A o \in Objects : world.at[o] # "gripper"
    BY <1>1, <2>1, NodesAssumption DEF GripperTrue
  <2> HIDE DEF there
  <2> QED
    BY <2>3, <2>5, <2>6, <2>7
<1>3. CASE task.skill = "place"
  <2>1. task.object = world.held /\ task.object \in Objects \cup {Stranger} /\ task.place \in {"B", "C"}
    BY <1>3 DEF Mock!Fits, Mock!Tasks
  <2>2. task.object \in Objects
    BY <1>1, <2>1, NodesAssumption DEF MockWorlds
  <2>3. w = [world EXCEPT !.held = NoObject, !.at[task.object] = task.place]
    BY <1>3 DEF Mock!Effect
  <2>4. w.held = NoObject /\ w.at = put /\ w.pose = world.pose /\ w = [at |-> w.at, held |-> w.held, pose |-> w.pose]
    BY <1>1, <2>3 DEF MockWorlds
  <2>5. put \in [Objects -> {"table", "gripper", "B", "C"}]
    BY <1>1, <2>1 DEF MockWorlds
  <2>6. w \in MockWorlds
    BY <1>1, <2>4, <2>5 DEF MockWorlds
  <2>7. \A o \in Objects : put[o] = IF o = task.object THEN task.place ELSE world.at[o]
    BY <1>1 DEF MockWorlds
  <2>8. \A o \in Objects : o # task.object => world.at[o] # "gripper"
    BY <1>1, <2>1 DEF GripperTrue
  <2> HIDE DEF put
  <2> QED
    BY <2>1, <2>4, <2>6, <2>7, <2>8, NodesAssumption
<1>4. CASE task.skill \notin {"pick", "place"}
  <2>1. w = world \/ (w = [world EXCEPT !.pose = task.place] /\ task.place \in {"home", "B"})
    <3>1. CASE task.skill = "move_named_pose"
      BY <3>1 DEF Mock!Effect, Mock!Tasks
    <3>2. CASE task.skill # "move_named_pose"
      <4>1. ~(task.skill = "pick") /\ ~(task.skill = "place") /\ ~(task.skill = "move_named_pose")
        BY <1>4, <3>2
      <4> QED
        BY <4>1 DEF Mock!Effect
    <3> QED
      BY <3>1, <3>2
  <2>2. w \in MockWorlds /\ w.held = world.held /\ w.at = world.at
    BY <1>1, <2>1 DEF MockWorlds
  <2> QED
    BY <1>1, <2>2 DEF GripperTrue
<1> QED
  BY <1>2, <1>3, <1>4

LEMMA MockStep == MockInv /\ [Mock!Next]_mock => MockInv'
<1> SUFFICES ASSUME MockInv, [Mock!Next]_mock PROVE MockInv'
  OBVIOUS
<1> USE DEF Mock!Ends
<1>0. /\ fault \in Mock!Faults /\ remaining \in {0, 1} /\ refused \in {0, 1, 2}
      /\ world \in MockWorlds /\ past \in MockWorlds
      /\ task \in Mock!Tasks \cup {Mock!Idle} /\ told \in BOOLEAN
      /\ result \in {"none", "succeeded", "failed", "cancelled", "unknown"}
  BY MockTypes
<1>1. ASSUME fault' \in Mock!Faults, remaining' \in {0, 1}, refused' \in {0, 1, 2},
             world' \in MockWorlds, past' \in MockWorlds, task' \in Mock!Tasks \cup {Mock!Idle},
             told' \in BOOLEAN, result' \in {"none", "succeeded", "failed", "cancelled", "unknown"}
      PROVE  Mock!TypeOK'
  <2>1. remaining' \in 0..1 /\ refused' \in 0..2
    BY <1>1
  <2> QED
    BY <1>1, <2>1 DEF Mock!TypeOK, MockWorlds
<1>2. CASE Mock!Begin
  <2>1. /\ task' \in Mock!Tasks /\ told' = FALSE /\ result' = "none" /\ past' = world
        /\ UNCHANGED <<fault, remaining, world, refused>>
    BY <1>2 DEF Mock!Begin
  <2>2. Mock!TypeOK'
    BY <1>0, <1>1, <2>1
  <2> QED
    BY <2>1, <2>2 DEF MockInv, GripperTrue
<1>3. CASE Mock!Stop
  <2>1. told' = TRUE /\ UNCHANGED <<fault, remaining, world, task, result, past, refused>>
    BY <1>3 DEF Mock!Stop
  <2>2. Mock!TypeOK'
    BY <1>0, <1>1, <2>1
  <2> QED
    BY <2>1, <2>2 DEF MockInv, GripperTrue, Mock!Idle
<1>4. CASE Mock!Prevented
  <2>1. /\ task # Mock!Idle /\ task' = Mock!Idle /\ result' \in {"unknown", "cancelled", "failed"}
        /\ UNCHANGED <<fault, told, past, world>>
        /\ remaining' = IF Mock!Injected THEN Mock!Spent ELSE remaining
        /\ refused' = IF Mock!Injected /\ refused < 2 THEN refused + 1 ELSE refused
    BY <1>4 DEF Mock!Prevented
  <2>2. world = past
    BY <2>1 DEF MockInv
  <2>3. /\ remaining' \in {0, 1} /\ refused' \in {0, 1, 2}
        /\ fault \in Mock!Once => refused' + remaining' <= 1
    <3>1. CASE Mock!Injected
      <4>1. remaining = 1 /\ remaining' \in {0, 1} /\ (fault \in Mock!Once => remaining' = 0)
        BY <1>0, <2>1, <3>1 DEF Mock!Injected, Mock!Spent
      <4>2. fault \in Mock!Once => refused = 0
        BY <1>0, <4>1 DEF MockInv
      <4> QED
        BY <1>0, <2>1, <3>1, <4>1, <4>2
    <3>2. CASE ~Mock!Injected
      BY <1>0, <2>1, <3>2 DEF MockInv
    <3> QED
      BY <3>1, <3>2
  <2>4. Mock!TypeOK'
    BY <1>0, <1>1, <2>1, <2>3
  <2> QED
    BY <2>1, <2>2, <2>3, <2>4 DEF MockInv, GripperTrue, Mock!Idle
<1>5. CASE Mock!Done
  <2>1. /\ task # Mock!Idle /\ task' = Mock!Idle
        /\ result' = IF Mock!Fits THEN "succeeded" ELSE "failed"
        /\ world' = IF Mock!Fits THEN Mock!Effect ELSE world
        /\ UNCHANGED <<fault, told, past, remaining, refused>>
    BY <1>5 DEF Mock!Done
  <2>2. world = past
    BY <2>1 DEF MockInv
  <2>3. task \in Mock!Tasks
    BY <1>0, <2>1
  <2>4. world' \in MockWorlds /\ GripperTrue'
    <3>1. CASE Mock!Fits
      <4>1. world' = Mock!Effect
        BY <2>1, <3>1
      <4> QED
        BY <2>3, <3>1, <4>1, EffectIs DEF GripperTrue
    <3>2. CASE ~Mock!Fits
      BY <1>0, <2>1, <3>2 DEF MockInv, GripperTrue
    <3> QED
      BY <3>1, <3>2
  <2>5. Mock!TypeOK'
    BY <1>0, <1>1, <2>1, <2>4
  <2> QED
    BY <2>1, <2>2, <2>4, <2>5 DEF MockInv, Mock!Idle
<1>6. CASE UNCHANGED mock
  <2>1. UNCHANGED <<fault, remaining, world, task, told, result, past, refused>>
    BY <1>6 DEF mock
  <2>2. Mock!TypeOK'
    BY <1>0, <1>1, <2>1
  <2> QED
    BY <2>1, <2>2 DEF MockInv, GripperTrue, Mock!Idle
<1> QED
  BY <1>2, <1>3, <1>4, <1>5, <1>6 DEF Mock!Next

LEMMA MockSafe ==
  ASSUME MockInv
  PROVE  Mock!WorldAsReported
<1>1. fault \in Mock!Once => refused <= 1
  BY MockTypes DEF MockInv
<1> QED
  BY <1>1 DEF MockInv, GripperTrue, Mock!WorldAsReported

(***************************************************************************)
(* VirtualModel.                                                           *)
(***************************************************************************)

\* What a path leads to is what its command asked for, of the arm or of the jaw;
\* what is published is as old as the last step, and names no pose while the arm
\* is led elsewhere.
Walk ==
  motion \in {"looping", "stepping", "stepped", "verifying", "orphan"} =>
    /\ skill \in {"move_named_pose", "move_relative", "set_gripper"}
    /\ skill = "set_gripper" => vJawPath = target /\ target \in {"open", "close"}
    /\ skill # "set_gripper" => vJawPath = Nowhere /\ vPath = vGoal /\ vPath \in Model!Arms
    /\ skill = "move_named_pose" => vGoal = target /\ target \in Poses
    /\ motion # "looping" /\ skill # "set_gripper" => label = Nowhere
    /\ motion \notin {"verifying", "orphan"} => index <= PathSteps

ModelInv ==
  /\ Model!TypeOK /\ Model!WorldAsReported /\ Walk
  /\ motion = "begin" =>
       /\ skill \in Model!Motions /\ index = 1
       /\ skill = "move_named_pose" => target \in Poses
       /\ skill = "set_gripper" => target \in {"open", "close"}
  /\ motion \in {"begin", "looping", "stepping", "verifying"} => reported = Model!Read
  /\ motion = "orphan" => outcome = "unknown"

LEMMA ModelInit == Model!Init => ModelInv
<1> SUFFICES ASSUME Model!Init PROVE ModelInv
  OBVIOUS
<1> USE NodesAssumption
<1>1. /\ vArm = Home /\ vJaw = "open" /\ vPath = Nowhere /\ vJawPath = Nowhere /\ vGoal = Nowhere
      /\ vWidth = "open" /\ motion = "idle" /\ skill = Nowhere /\ target = Nowhere /\ index = 1
      /\ vHalt = FALSE /\ label = Home /\ outcome = "none"
      /\ reported = [arm |-> Home, jaw |-> "open"] /\ before = [arm |-> Home, jaw |-> "open"]
  BY DEF Model!Init, Model!Read
<1>2. [arm |-> Home, jaw |-> "open"] \in Model!Reads
  BY DEF Model!Reads, Model!Arms, Model!Jaws
<1>3. index \in 1..PathSteps + 1
  BY <1>1
<1>4. Model!TypeOK
  BY <1>1, <1>2, <1>3 DEF Model!TypeOK, Model!Arms, Model!Jaws
<1>5. Model!WorldAsReported
  BY <1>1 DEF Model!WorldAsReported, Model!Read
<1> QED
  BY <1>1, <1>4, <1>5 DEF ModelInv, Walk

LEMMA ModelTypes ==
  ASSUME ModelInv
  PROVE  /\ vArm \in Model!Arms /\ vJaw \in Model!Jaws
         /\ vPath \in Model!Arms \cup {Nowhere} /\ vJawPath \in Model!Jaws \cup {Nowhere}
         /\ vGoal \in Model!Arms \cup {Nowhere} /\ vWidth \in Model!Jaws
         /\ motion \in {"idle", "begin", "looping", "stepping", "stepped", "verifying", "orphan"}
         /\ skill \in Model!Motions \cup {Nowhere}
         /\ target \in Poses \cup {"open", "close", Nowhere}
         /\ index \in 1..PathSteps + 1 /\ vHalt \in BOOLEAN
         /\ label \in Poses \cup {Nowhere} /\ reported \in Model!Reads /\ before \in Model!Reads
         /\ outcome \in {"none", "succeeded", "failed", "cancelled", "unknown"}
         /\ PathSteps \in Nat \ {0}
         /\ Nowhere \notin Poses \cup {"shifted", "between", "open", "close"}
         /\ Model!Read \in Model!Reads /\ Model!Read.arm = vArm /\ Model!Read.jaw = vJaw
<1>1. Model!TypeOK
  BY DEF ModelInv
<1>2. Model!Read \in Model!Reads /\ Model!Read.arm = vArm /\ Model!Read.jaw = vJaw
  BY <1>1 DEF Model!Read, Model!Reads, Model!TypeOK
<1> QED
  BY <1>1, <1>2, NodesAssumption DEF Model!TypeOK

\* A step leads the arm or the jaw on, never the other one.
LEMMA MovesIs ==
  ASSUME ModelInv, Model!Moves, motion \in {"stepping", "orphan"}
  PROVE  /\ vArm' \in Model!Arms /\ vJaw' \in Model!Jaws
         /\ UNCHANGED <<vPath, vJawPath, vGoal, vWidth>>
         /\ skill = "set_gripper" => vArm' = vArm
         /\ skill # "set_gripper" => vJaw' = vJaw /\ label = Nowhere
<1>1. Walk /\ motion \notin {"looping", "idle", "begin"}
  BY DEF ModelInv
<1>2. CASE skill = "set_gripper"
  <2>1. vJawPath # Nowhere /\ vJawPath \in Model!Jaws
    BY <1>1, <1>2, ModelTypes DEF Walk, Model!Jaws
  <2> QED
    BY <1>2, <2>1, ModelTypes DEF Model!Moves, Model!Along, Model!Jaws
<1>3. CASE skill # "set_gripper"
  <2>1. vJawPath = Nowhere /\ vPath \in Model!Arms /\ label = Nowhere
    BY <1>1, <1>3 DEF Walk
  <2> QED
    BY <1>3, <2>1, ModelTypes DEF Model!Moves, Model!Along, Model!Arms
<1> QED
  BY <1>2, <1>3

\* The executor, and the calls that leave the model where it is.
LEMMA HandlerSafe ==
  ASSUME ModelInv,
         \/ Model!Begin \/ Model!Stop \/ Model!CallFails \/ Model!Observe \/ Model!Unreachable
         \/ Model!Loop \/ Model!Resume \/ Model!Verify \/ Model!Cancelled
  PROVE  ModelInv'
<1> USE ModelTypes DEF Model!Ends, Model!Frame, Model!model, Model!published
<1>0. /\ Model!WorldAsReported /\ Walk /\ Model!Read' = [arm |-> vArm', jaw |-> vJaw']
      /\ Model!Read = [arm |-> vArm, jaw |-> vJaw]
  BY DEF ModelInv, Model!Read
<1>1. CASE Model!Begin
  <2>1. /\ skill' \in Model!Motions
        /\ skill' = "move_named_pose" => target' \in Poses
        /\ skill' = "set_gripper" => target' \in {"open", "close"}
        /\ target' \in Poses \cup {"open", "close", Nowhere}
    <3>1. target' \in CASE skill' = "move_named_pose" -> Poses
                         [] skill' = "set_gripper" -> {"open", "close"}
                         [] OTHER -> {Nowhere}
      BY <1>1 DEF Model!Begin
    <3>2. skill' \in Model!Motions
      BY <1>1 DEF Model!Begin
    <3>3. CASE skill' = "move_named_pose"
      BY <3>1, <3>2, <3>3
    <3>4. CASE skill' = "set_gripper"
      BY <3>1, <3>2, <3>4
    <3>5. CASE skill' # "move_named_pose" /\ skill' # "set_gripper"
      BY <3>1, <3>2, <3>5
    <3> QED
      BY <3>2, <3>3, <3>4, <3>5
  <2>2. /\ motion' = "begin" /\ vHalt' = FALSE /\ index' = 1 /\ outcome' = "none"
        /\ before' = Model!Read /\ reported' = reported /\ label' = label
        /\ UNCHANGED <<vArm, vJaw, vPath, vJawPath, vGoal, vWidth>>
        /\ motion = "idle" /\ outcome # "unknown"
    BY <1>1 DEF Model!Begin
  <2>3. reported = Model!Read /\ Model!Read' = Model!Read
    BY <1>0, <2>2 DEF Model!WorldAsReported
  <2>4. Model!TypeOK'
    <3>1. index' \in 1..PathSteps + 1
      BY <2>2
    <3>2. vHalt' \in BOOLEAN /\ before' \in Model!Reads /\ reported' \in Model!Reads
      BY <2>2
    <3>3. motion' = "begin" /\ outcome' = "none" /\ label' = label
          /\ UNCHANGED <<vArm, vJaw, vPath, vJawPath, vGoal, vWidth>>
      BY <2>2
    <3> QED
      BY <2>1, <3>1, <3>2, <3>3 DEF Model!TypeOK
  <2>5. Model!WorldAsReported'
    <3>1. before'.arm = vArm' /\ before'.jaw = vJaw'
      <4>1. before' = [arm |-> vArm, jaw |-> vJaw] /\ vArm' = vArm /\ vJaw' = vJaw
        BY <1>0, <2>2
      <4> QED
        BY <4>1
    <3>2. label' # Nowhere => vArm' = label'
      BY <1>0, <2>2 DEF Model!WorldAsReported
    <3>3. motion' # "idle"
      BY <2>2
    <3> QED
      BY <3>1, <3>2, <3>3 DEF Model!WorldAsReported
  <2> QED
    BY <2>1, <2>2, <2>3, <2>4, <2>5 DEF ModelInv, Walk
<1>2. CASE Model!Stop
  <2>1. /\ vHalt' = TRUE
        /\ UNCHANGED <<vArm, vJaw, vPath, vJawPath, vGoal, vWidth, motion, skill, target, index, label,
                       reported, outcome, before>>
    BY <1>2 DEF Model!Stop
  <2>2. Model!TypeOK' /\ Model!Read' = Model!Read
    BY <1>0, <2>1 DEF Model!TypeOK
  <2> QED
    BY <1>0, <2>1, <2>2 DEF ModelInv, Walk, Model!WorldAsReported
<1>3. CASE Model!CallFails \/ Model!Observe \/ Model!Unreachable \/ Model!Cancelled
  <2>1. /\ UNCHANGED <<vArm, vJaw, vPath, vJawPath, vGoal, vWidth, skill, target, index, vHalt, label, before>>
        /\ outcome' \in {"unknown", "failed", "succeeded", "cancelled"}
        /\ \/ motion' = "idle" /\ outcome' = "unknown" /\ reported' = reported
           \/ motion' = "idle" /\ reported' = Model!Read
           \/ motion = "stepping" /\ motion' = "orphan" /\ outcome' = "unknown" /\ reported' = reported
    BY <1>0, <1>3 DEF Model!CallFails, Model!Observe, Model!Unreachable, Model!Cancelled, ModelInv
  <2>2. Model!TypeOK' /\ Model!Read' = Model!Read
    BY <1>0, <2>1 DEF Model!TypeOK
  <2> QED
    BY <1>0, <2>1, <2>2 DEF ModelInv, Walk, Model!WorldAsReported
<1>4. CASE Model!Loop
  <2>1. /\ UNCHANGED <<vArm, vJaw, vPath, vJawPath, vGoal, vWidth, skill, target, index, vHalt, before, reported>>
        /\ motion = "looping" /\ reported = Model!Read
        /\ \/ motion' = "idle" /\ outcome' = "cancelled" /\ label' = label
           \/ /\ motion' = "stepping" /\ outcome' = outcome
              /\ label' = IF skill # "set_gripper" THEN Nowhere ELSE label
    BY <1>4 DEF Model!Loop, ModelInv, Model!Unlabelled
  <2>2. Model!TypeOK' /\ Model!Read' = Model!Read
    BY <1>0, <2>1 DEF Model!TypeOK
  <2> QED
    BY <1>0, <2>1, <2>2 DEF ModelInv, Walk, Model!WorldAsReported
<1>5. CASE Model!Resume
  <2>1. /\ UNCHANGED <<vArm, vJaw, vPath, vJawPath, vGoal, vWidth, skill, target, vHalt, before, label>>
        /\ motion = "stepped" /\ reported' = Model!Read
        /\ \/ motion' = "idle" /\ outcome' = "cancelled" /\ index' = index
           \/ /\ index' = index + 1 /\ outcome' = outcome
              /\ motion' = IF index < PathSteps THEN "looping" ELSE "verifying"
    BY <1>5 DEF Model!Resume
  <2>2. index <= PathSteps
    BY <1>0, <2>1 DEF Walk
  <2>3. index' \in 1..PathSteps + 1 /\ (motion' = "looping" => index' <= PathSteps)
    BY <2>1, <2>2
  <2>4. Model!TypeOK' /\ Model!Read' = Model!Read
    BY <1>0, <2>1, <2>3 DEF Model!TypeOK
  <2> QED
    BY <1>0, <2>1, <2>3, <2>4 DEF ModelInv, Walk, Model!WorldAsReported
<1>6. CASE Model!Verify
  <2>1. /\ UNCHANGED <<vArm, vJaw, vPath, vJawPath, vGoal, vWidth, skill, target, index, vHalt, before, reported>>
        /\ motion = "verifying" /\ motion' = "idle" /\ outcome' \in {"cancelled", "succeeded", "failed"}
        /\ \/ label' = label
           \/ label' = target /\ vArm = vGoal /\ skill = "move_named_pose"
    BY <1>6 DEF Model!Verify, Model!Verified
  <2>2. label' # label => label' = vArm /\ label' \in Poses \cup {Nowhere}
    BY <1>0, <2>1 DEF Walk
  <2>3. Model!TypeOK' /\ Model!Read' = Model!Read
    BY <1>0, <2>1, <2>2 DEF Model!TypeOK
  <2> QED
    BY <1>0, <2>1, <2>2, <2>3 DEF ModelInv, Walk, Model!WorldAsReported
<1> QED
  BY <1>1, <1>2, <1>3, <1>4, <1>5, <1>6

\* begin, begin_relative, begin_gripper.
LEMMA PrepareSafe ==
  ASSUME ModelInv, Model!Prepare
  PROVE  ModelInv'
<1> USE ModelTypes DEF Model!Frame, Model!published
<1>1. /\ UNCHANGED <<vArm, vJaw, label, reported, outcome, skill, target, index, vHalt, before>>
      /\ motion = "begin" /\ motion' = "looping" /\ index = 1 /\ reported = Model!Read
      /\ skill \in Model!Motions
  BY DEF Model!Prepare, ModelInv
<1>2. /\ skill # "observe"
      /\ vPath' \in Model!Arms \cup {Nowhere} /\ vJawPath' \in Model!Jaws \cup {Nowhere}
      /\ vGoal' \in Model!Arms \cup {Nowhere} /\ vWidth' \in Model!Jaws
      /\ skill = "set_gripper" => vJawPath' = target /\ target \in {"open", "close"}
      /\ skill # "set_gripper" => vJawPath' = Nowhere /\ vPath' = vGoal' /\ vPath' \in Model!Arms
      /\ skill = "move_named_pose" => vGoal' = target /\ target \in Poses
  <2>1. CASE skill = "move_named_pose"
    BY <1>1, <2>1 DEF Model!Prepare, Model!PlanArm, Model!Cleared, ModelInv, Model!Arms, Model!Motions
  <2>2. CASE skill = "move_relative"
    BY <1>1, <2>2 DEF Model!Prepare, Model!PlanArm, Model!Cleared, ModelInv, Model!Arms, Model!Motions
  <2>3. CASE skill = "set_gripper"
    BY <1>1, <2>3 DEF Model!Prepare, Model!PlanJaw, ModelInv, Model!Jaws, Model!Motions
  <2>4. skill # "observe"
    BY DEF Model!Prepare
  <2> QED
    BY <1>1, <2>1, <2>2, <2>3, <2>4 DEF Model!Motions
<1>3. Model!TypeOK'
  BY <1>1, <1>2 DEF Model!TypeOK
<1>4. Model!WorldAsReported' /\ Model!Read' = Model!Read
  BY <1>1 DEF ModelInv, Model!WorldAsReported, Model!Read
<1> QED
  BY <1>1, <1>2, <1>3, <1>4 DEF ModelInv, Walk, Model!Motions

\* The model steps, for the handler or for nobody.
LEMMA StepSafe ==
  ASSUME ModelInv, Model!Step \/ Model!StepFails \/ Model!Orphan
  PROVE  ModelInv'
<1> USE ModelTypes DEF Model!Frame, Model!published, Model!model, Model!Ends
<1>1. /\ UNCHANGED <<label, reported, skill, target, index, vHalt, before>>
      /\ motion \in {"stepping", "orphan"}
      /\ \/ motion = "stepping" /\ motion' = "stepped" /\ outcome' = outcome
         \/ motion' = "idle" /\ outcome' = "unknown"
      /\ Model!Moves \/ UNCHANGED <<vArm, vJaw, vPath, vJawPath, vGoal, vWidth>>
  BY DEF Model!Step, Model!StepFails, Model!Orphan, ModelInv
<1>2. /\ vArm' \in Model!Arms /\ vJaw' \in Model!Jaws
      /\ UNCHANGED <<vPath, vJawPath, vGoal, vWidth>>
      /\ skill = "set_gripper" => vArm' = vArm
      /\ skill # "set_gripper" => vJaw' = vJaw /\ label = Nowhere
  <2>1. Walk
    BY DEF ModelInv
  <2> QED
    BY <1>1, <2>1, MovesIs DEF Walk
<1>3. Model!TypeOK'
  BY <1>1, <1>2 DEF Model!TypeOK
<1>4. Model!WorldAsReported'
  BY <1>1, <1>2 DEF ModelInv, Model!WorldAsReported, Model!Read
<1>5. Walk'
  BY <1>1, <1>2 DEF ModelInv, Walk
<1> QED
  BY <1>1, <1>3, <1>4, <1>5 DEF ModelInv

LEMMA ModelStep == ModelInv /\ [Model!Next]_model => ModelInv'
<1> SUFFICES ASSUME ModelInv, [Model!Next]_model PROVE ModelInv'
  OBVIOUS
<1>1. CASE UNCHANGED model
  BY <1>1 DEF model, ModelInv, Walk, Model!TypeOK, Model!WorldAsReported, Model!Read
<1> QED
  BY <1>1, HandlerSafe, PrepareSafe, StepSafe DEF Model!Next

(***************************************************************************)
(* VirtualGrasp.                                                           *)
(***************************************************************************)

Wheres == [Boxes -> {"table", "lifted"}]
Phases == {"idle", "matching", "planning", "candidate", "travel", "approach", "closing", "lift",
           "found", "none", "raised", "planned", "rereading", "looping", "stepping", "stepped",
           "verifying"}
Trying == {"candidate", "travel", "approach", "closing", "lift", "found", "none", "raised"}
Lifts == {"looping", "stepping", "stepped", "verifying"}
Lifting == <<Grasp!Way("before", "wide"), Grasp!Way("at", "wide"), Grasp!Way("at", "on"),
             Grasp!Way("at", "on"), Grasp!Way("up", "on")>>

GraspTypes ==
  /\ gArm \in Grasp!Arms /\ gJaw \in Grasp!Jaws /\ where \in Wheres
  /\ mounted \in Boxes \cup {NoBox} /\ gHeld \in Boxes \cup {NoBox}
  /\ object \in Boxes \cup {NoBox} /\ aim \in Boxes \cup {NoBox} /\ active \subseteq Boxes
  /\ grasping \in Phases /\ gHalt \in BOOLEAN
  /\ gOutcome \in {"none", "succeeded", "failed", "cancelled", "unknown"}
  /\ begun.where \in Wheres /\ gReported.where \in Wheres
  /\ try \in 0..Candidates + 1 /\ (grasping \in {"travel", "approach", "closing", "lift"} => try <= Candidates)

\* The path of the last grasp that was found, and how far it has been walked.
GraspPath ==
  /\ \/ route = <<>> /\ attachAt = 0 /\ gIndex = 0
     \/ route = Lifting /\ attachAt = 4 /\ gIndex \in 0..6
  /\ grasping \notin Lifts \cup {"idle"} => gIndex = 0
  /\ grasping \in Lifts \cup {"planned", "rereading"} =>
       route = Lifting /\ object = aim /\ aim \in Boxes
  /\ grasping \in Lifts => gIndex \in 1..6
  /\ grasping \in {"stepping", "stepped"} => gIndex <= 5

\* What is published is the model, but after a step, in a search and after an
\* unknown end.
Shown == gReported = [arm |-> gArm, jaw |-> gJaw, where |-> where, held |-> gHeld]
Publishes ==
  /\ grasping \notin Trying \cup {"stepped"} /\ ~(grasping = "idle" /\ gOutcome = "unknown") => Shown
  /\ grasping = "stepped" => \A o \in Boxes \ {aim} : gReported.where[o] = where[o]
  /\ grasping # "idle" => gOutcome = "none"
  /\ gOutcome = "succeeded" => gHeld = aim /\ where[aim] = "lifted"

\* The model holds what the adapter says, and that alone may be lifted; a search
\* begins with nothing held, and tries to hold the object observed.
Carried ==
  /\ grasping \notin Trying =>
       /\ mounted = gHeld /\ active = {gHeld} \ {NoBox}
       /\ \A o \in Boxes : where[o] = "lifted" => o = gHeld
  /\ grasping \in Trying =>
       /\ gHeld = NoBox /\ mounted \in {NoBox, aim} /\ active \subseteq {aim}
       /\ begun.active = {} /\ where = begun.where
       /\ \A o \in Boxes : where[o] # "lifted"
       /\ begun.arm \in Grasp!Arms /\ begun.jaw \in Grasp!Jaws
       /\ gReported = [arm |-> begun.arm, jaw |-> begun.jaw, where |-> begun.where, held |-> NoBox]
  /\ grasping \in Trying \cup {"planning"} => aim \in Boxes
  /\ grasping \in {"planned", "rereading"} => gHeld = NoBox
  /\ grasping \in Lifts =>
       gHeld = IF gIndex > 4 \/ (grasping = "stepped" /\ gIndex = 4) THEN aim ELSE NoBox

GraspInv == GraspTypes /\ GraspPath /\ Publishes /\ Carried

LEMMA GraspInit == Grasp!Init => GraspInv
<1> SUFFICES ASSUME Grasp!Init PROVE GraspInv
  OBVIOUS
<1> USE NodesAssumption DEF Grasp!Init, Grasp!World
<1>1. where \in Wheres /\ begun.where = where /\ gReported.where = where
  BY DEF Wheres
<1>2. GraspTypes
  <2>1. try \in 0..Candidates + 1
    OBVIOUS
  <2> QED
    BY <1>1, <2>1 DEF GraspTypes, Grasp!Arms, Grasp!Jaws, Phases
<1>3. GraspPath
  BY DEF GraspPath, Lifts
<1>4. Publishes
  BY DEF Publishes, Shown, Trying
<1>5. Carried
  BY DEF Carried, Trying, Lifts
<1> QED
  BY <1>2, <1>3, <1>4, <1>5 DEF GraspInv

LEMMA LiftingIs ==
  /\ Lifting \in Seq([arm : Grasp!Arms, jaw : Grasp!Jaws]) /\ Len(Lifting) = 5
  /\ \A i \in 1..5 : /\ Lifting[i].arm \in Grasp!Arms /\ Lifting[i].jaw \in Grasp!Jaws
                     /\ Lifting[i].arm = "up" <=> i = 5
BY DEF Lifting, Grasp!Way, Grasp!Arms, Grasp!Jaws

\* The executor, the observation, and the beginning of the search.
LEMMA ObservedSafe ==
  ASSUME GraspInv, Grasp!Begin \/ Grasp!Stop \/ Grasp!Match \/ Grasp!Plan
  PROVE  GraspInv'
<1> USE DEF Grasp!world, Grasp!adapter, Grasp!Frame, Grasp!Ends, Grasp!Goes
<1>0. GraspTypes /\ GraspPath /\ Publishes /\ Carried /\ Candidates \in Nat /\ NoBox \notin Boxes
  BY NodesAssumption DEF GraspInv
<1>1. CASE Grasp!Begin
  <2>1. /\ grasping = "idle" /\ gOutcome # "unknown" /\ grasping' = "matching" /\ gOutcome' = "none"
        /\ gIndex' = 0 /\ aim' = NoBox
        /\ UNCHANGED <<gArm, gJaw, where, mounted, active, gHeld, object, route, attachAt, try, begun, gReported>>
    BY <1>1 DEF Grasp!Begin
  <2>2. gHalt' = FALSE
    BY <1>1 DEF Grasp!Begin
  <2>3. GraspTypes'
    BY <1>0, <2>1, <2>2 DEF GraspTypes, Phases
  <2>4. GraspPath' /\ Publishes' /\ Carried'
    BY <1>0, <2>1 DEF GraspPath, Publishes, Shown, Carried, Trying, Lifts
  <2> QED
    BY <2>3, <2>4 DEF GraspInv
<1>2. CASE Grasp!Stop
  <2>1. UNCHANGED <<gArm, gJaw, where, mounted, active, gHeld, object, route, attachAt, try, begun, gReported,
                    grasping, aim, gIndex, gOutcome>>
    BY <1>2 DEF Grasp!Stop
  <2>2. gHalt' = TRUE
    BY <1>2 DEF Grasp!Stop
  <2>3. GraspTypes'
    BY <1>0, <2>1, <2>2 DEF GraspTypes
  <2>4. GraspPath' /\ Publishes' /\ Carried'
    BY <1>0, <2>1 DEF GraspPath, Publishes, Shown, Carried
  <2> QED
    BY <2>3, <2>4 DEF GraspInv
<1>3. CASE Grasp!Match
  <2>1. /\ grasping = "matching"
        /\ UNCHANGED <<gArm, gJaw, where, mounted, active, gHeld, object, route, attachAt, try, begun, gReported,
                       gIndex, gHalt>>
        /\ \/ grasping' = "planning" /\ aim' \in Boxes /\ gOutcome' = gOutcome
           \/ grasping' = "idle" /\ aim' = aim /\ gOutcome' = "failed"
    BY <1>3 DEF Grasp!Match
  <2>3. GraspTypes'
    BY <1>0, <2>1 DEF GraspTypes, Phases
  <2>4. GraspPath' /\ Publishes' /\ Carried'
    BY <1>0, <2>1 DEF GraspPath, Publishes, Shown, Carried, Trying, Lifts
  <2> QED
    BY <2>3, <2>4 DEF GraspInv
<1>4. CASE Grasp!Plan
  <2>0. /\ grasping = "planning" /\ Shown /\ aim \in Boxes
        /\ UNCHANGED <<gArm, gJaw, where, mounted, active, gHeld, object, route, attachAt, aim, gReported,
                       gIndex, gHalt>>
    BY <1>0, <1>4 DEF Grasp!Plan, Publishes, Carried, Trying
  <2>1. CASE Grasp!Engaged
    <3>1. grasping' = "idle" /\ gOutcome' = "failed" /\ UNCHANGED <<try, begun>>
      BY <1>4, <2>1 DEF Grasp!Plan
    <3>2. GraspTypes'
      BY <1>0, <2>0, <3>1 DEF GraspTypes, Phases
    <3>3. GraspPath' /\ Publishes' /\ Carried'
      BY <1>0, <2>0, <3>1 DEF GraspPath, Publishes, Shown, Carried, Trying, Lifts
    <3> QED
      BY <3>2, <3>3 DEF GraspInv
  <2>2. CASE ~Grasp!Engaged
    <3>1. /\ gHeld = NoBox /\ grasping' = "candidate" /\ gOutcome' = gOutcome /\ try' = 1
          /\ begun' = Grasp!World
      BY <1>4, <2>2 DEF Grasp!Plan, Grasp!Engaged
    <3>2. begun'.arm = gArm /\ begun'.jaw = gJaw /\ begun'.where = where /\ begun'.active = active
      BY <3>1 DEF Grasp!World
    <3>3. GraspTypes'
      <4>1. try' \in 0..Candidates + 1
        BY <1>0, <3>1
      <4> QED
        BY <1>0, <2>0, <3>1, <3>2, <4>1 DEF GraspTypes, Phases
    <3>4. GraspPath' /\ Publishes'
      BY <1>0, <2>0, <3>1 DEF GraspPath, Publishes, Shown, Trying, Lifts
    <3>5. Carried'
      BY <1>0, <2>0, <3>1, <3>2 DEF GraspTypes, Shown, Carried, Trying, Lifts
    <3> QED
      BY <3>3, <3>4, <3>5 DEF GraspInv
  <2> QED
    BY <2>1, <2>2
<1> QED
  BY <1>1, <1>2, <1>3, <1>4

\* A step of the search.
LEMMA TrialSafe ==
  ASSUME GraspInv, grasping \in Trying, grasping' \in Trying, gOutcome' = gOutcome,
         gArm' \in Grasp!Arms, gJaw' \in Grasp!Jaws, where' = where,
         mounted' \in {NoBox, aim}, active' \subseteq {aim},
         try' \in 0..Candidates + 1, grasping' \in {"travel", "approach", "closing", "lift"} => try' <= Candidates,
         UNCHANGED <<gHeld, object, route, attachAt, aim, gIndex, begun, gHalt, gReported>>
  PROVE  GraspInv'
<1>0. GraspTypes /\ GraspPath /\ Publishes /\ Carried /\ aim \in Boxes
  BY DEF GraspInv, Carried
<1>1. GraspTypes'
  BY <1>0 DEF GraspTypes, Phases, Trying
<1>2. GraspPath'
  BY <1>0 DEF GraspPath, Trying, Lifts
<1>3. Publishes'
  BY <1>0 DEF Publishes, Shown, Trying
<1>4. Carried'
  BY <1>0 DEF Carried, Trying, Lifts
<1> QED
  BY <1>1, <1>2, <1>3, <1>4 DEF GraspInv

LEMMA SearchSafe ==
  ASSUME GraspInv, Grasp!Candidate \/ Grasp!Travel \/ Grasp!Approach \/ Grasp!Closing \/ Grasp!Lift
  PROVE  GraspInv'
<1> USE DEF Grasp!adapter, Grasp!Frame, Grasp!Goes, Grasp!NextTry
<1>0. /\ GraspTypes /\ Carried /\ Candidates \in Nat
  BY NodesAssumption DEF GraspInv
<1>1. /\ grasping \in Trying /\ UNCHANGED <<gHeld, object, route, attachAt, aim, gIndex, begun, gHalt, gReported>>
  BY DEF Grasp!Candidate, Grasp!Travel, Grasp!Approach, Grasp!Search, Grasp!Closing, Grasp!Lift, Trying
<1>2. /\ mounted \in {NoBox, aim} /\ active \subseteq {aim} /\ begun.active = {} /\ where = begun.where
      /\ begun.arm \in Grasp!Arms /\ begun.jaw \in Grasp!Jaws
  BY <1>0, <1>1 DEF Carried
<1>3. CASE Grasp!Candidate
  <2>1. /\ grasping' \in {"none", "candidate", "raised", "travel"} /\ gOutcome' = gOutcome
        /\ grasping' = "travel" => try' <= Candidates
        /\ UNCHANGED <<where, mounted, active>>
        /\ gArm' \in Grasp!Arms /\ gJaw' \in Grasp!Jaws
    BY <1>0, <1>2, <1>3 DEF Grasp!Candidate, GraspTypes, Grasp!Jaws
  <2>2. try' \in 0..Candidates + 1
    BY <1>0, <1>3 DEF Grasp!Candidate, GraspTypes
  <2> QED
    BY <1>1, <1>2, <2>1, <2>2, TrialSafe DEF Trying
<1>4. CASE Grasp!Travel \/ Grasp!Approach
  <2>1. /\ grasping' \in {"approach", "closing", "candidate", "raised"} /\ gOutcome' = gOutcome
        /\ UNCHANGED <<where, mounted, active, gJaw>> /\ gArm' \in Grasp!Arms
    BY <1>4 DEF Grasp!Travel, Grasp!Approach, Grasp!Search, Grasp!Arms
  <2>2. try' \in 0..Candidates + 1 /\ (grasping' \in {"approach", "closing"} => try' <= Candidates)
    <3>1. grasping \in {"travel", "approach"} /\ try \in 0..Candidates + 1 /\ try <= Candidates
      BY <1>0, <1>4 DEF Grasp!Travel, Grasp!Approach, Grasp!Search, GraspTypes
    <3>2. try' = try \/ (try' = try + 1 /\ grasping' = "candidate")
      BY <1>4 DEF Grasp!Travel, Grasp!Approach, Grasp!Search
    <3> QED
      BY <1>0, <3>1, <3>2
  <2>3. gJaw' \in Grasp!Jaws
    BY <1>0, <2>1 DEF GraspTypes
  <2> QED
    BY <1>1, <1>2, <2>1, <2>2, <2>3, TrialSafe DEF Trying
<1>5. CASE Grasp!Closing \/ Grasp!Lift
  <2>1. /\ grasping' \in {"lift", "candidate", "raised", "found"} /\ gOutcome' = gOutcome
        /\ where' = where /\ mounted' \in {NoBox, aim} /\ active' \subseteq {aim}
    BY <1>2, <1>5 DEF Grasp!Closing, Grasp!Lift
  <2>2. try' \in 0..Candidates + 1 /\ (grasping' = "lift" => try' <= Candidates)
    <3>1. grasping \in {"closing", "lift"} /\ try \in 0..Candidates + 1 /\ try <= Candidates
      BY <1>0, <1>5 DEF Grasp!Closing, Grasp!Lift, GraspTypes
    <3>2. try' = try \/ (try' = try + 1 /\ grasping' = "candidate")
      BY <1>5 DEF Grasp!Closing, Grasp!Lift
    <3> QED
      BY <1>0, <3>1, <3>2
  <2>3. gArm' \in Grasp!Arms /\ gJaw' \in Grasp!Jaws
    BY <1>0, <1>5 DEF Grasp!Closing, Grasp!Lift, Grasp!Arms, Grasp!Jaws, GraspTypes
  <2> QED
    BY <1>1, <1>2, <2>1, <2>2, <2>3, TrialSafe DEF Trying
<1> QED
  BY <1>3, <1>4, <1>5

\* The outer finally.
LEMMA RestoreSafe ==
  ASSUME GraspInv, Grasp!Restore
  PROVE  GraspInv'
<1> USE DEF Grasp!adapter, Grasp!Frame, Grasp!Goes, Grasp!Ends
<1>0. /\ GraspTypes /\ GraspPath /\ Publishes /\ Carried /\ grasping \in Trying /\ aim \in Boxes
      /\ NoBox \notin Boxes
  BY NodesAssumption DEF GraspInv, Carried, Grasp!Restore, Trying
<1>1. /\ UNCHANGED <<aim, try, gIndex, begun, gHalt, gReported, gHeld>>
      /\ mounted' = NoBox /\ active' = {} /\ gArm' = begun.arm /\ gJaw' = begun.jaw
  BY <1>0 DEF Grasp!Restore, Grasp!LetGo, Grasp!Found, Carried
<1>2. where' = where /\ where = begun.where /\ gHeld = NoBox /\ \A o \in Boxes : where[o] # "lifted"
  BY <1>0 DEF Grasp!Restore, Carried, GraspTypes, Wheres
<1>3. \/ /\ grasping = "found" /\ grasping' = "planned" /\ gOutcome' = gOutcome
         /\ route' = Lifting /\ attachAt' = 4 /\ object' = aim
      \/ /\ grasping = "none" /\ grasping' = "idle" /\ gOutcome' = "failed" /\ UNCHANGED <<route, attachAt, object>>
      \/ /\ grasping = "raised" /\ grasping' = "idle" /\ gOutcome' = "unknown" /\ UNCHANGED <<route, attachAt, object>>
  BY DEF Grasp!Restore, Grasp!Found, Lifting
<1>4. begun.arm \in Grasp!Arms /\ begun.jaw \in Grasp!Jaws
      /\ gReported = [arm |-> begun.arm, jaw |-> begun.jaw, where |-> begun.where, held |-> NoBox]
  BY <1>0 DEF Carried
<1>5. GraspTypes'
  BY <1>0, <1>1, <1>2, <1>3, <1>4 DEF GraspTypes, Phases
<1>6. GraspPath'
  <2>1. gIndex = 0
    BY <1>0 DEF GraspPath, Trying, Lifts
  <2>2. gIndex \in 0..6
    BY <2>1
  <2> QED
    BY <1>0, <1>1, <1>3, <2>1, <2>2 DEF GraspPath, Trying, Lifts
<1>7. Publishes'
  BY <1>0, <1>1, <1>2, <1>3, <1>4 DEF Publishes, Shown, Trying
<1>8. Carried'
  BY <1>0, <1>1, <1>2, <1>3 DEF Carried, Trying, Lifts
<1> QED
  BY <1>5, <1>6, <1>7, <1>8 DEF GraspInv

\* The handler between the steps.
LEMMA WalkSafe ==
  ASSUME GraspInv, Grasp!Planned \/ Grasp!Reread \/ Grasp!Loop \/ Grasp!Verify
  PROVE  GraspInv'
<1> USE DEF Grasp!world, Grasp!adapter, Grasp!Frame, Grasp!Goes, Grasp!Ends
<1>0. /\ GraspTypes /\ GraspPath /\ Publishes /\ Carried /\ NoBox \notin Boxes
  BY NodesAssumption DEF GraspInv
<1>1. /\ UNCHANGED <<gArm, gJaw, where, mounted, active, gHeld, object, route, attachAt, aim, try, begun, gHalt, gReported>>
      /\ grasping \in {"planned", "rereading", "looping", "verifying"}
  BY DEF Grasp!Planned, Grasp!Reread, Grasp!Loop, Grasp!Verify
<1>2. \/ /\ grasping' = "idle" /\ gIndex' = gIndex
         /\ gOutcome' \in {"failed", "cancelled", "unknown"}
            \/ (gOutcome' = "succeeded" /\ gHeld = object /\ where[object] = "lifted")
      \/ grasping = "planned" /\ grasping' = "rereading" /\ gIndex' = gIndex /\ gOutcome' = gOutcome
      \/ grasping = "rereading" /\ grasping' = "looping" /\ gIndex' = 1 /\ gOutcome' = gOutcome
      \/ grasping = "looping" /\ grasping' = "verifying" /\ gIndex' = gIndex /\ gOutcome' = gOutcome
      \/ /\ grasping = "looping" /\ grasping' = "stepping" /\ gIndex' = gIndex /\ gOutcome' = gOutcome
         /\ ~(gIndex > Len(route))
  BY DEF Grasp!Planned, Grasp!Reread, Grasp!Loop, Grasp!Verify, Grasp!Verified
<1>3. GraspTypes'
  BY <1>0, <1>1, <1>2 DEF GraspTypes, Phases
<1>4. route = Lifting /\ object = aim /\ aim \in Boxes
  BY <1>0, <1>1 DEF GraspPath, Lifts
<1>5. GraspPath'
  <2>1. gIndex \in 0..6 /\ attachAt = 4 /\ (grasping \in Lifts => gIndex \in 1..6)
    BY <1>0, <1>4, LiftingIs DEF GraspPath
  <2>2. gIndex' \in 0..6 /\ (grasping' \in Lifts => gIndex' \in 1..6)
    BY <1>2, <2>1 DEF Lifts
  <2>3. grasping' = "stepping" => gIndex' <= 5
    BY <1>2, <1>4, <2>1, LiftingIs
  <2>4. grasping' \notin Lifts \cup {"idle"} => gIndex' = 0
    BY <1>0, <1>2 DEF GraspPath, Lifts
  <2> QED
    BY <1>1, <1>2, <1>4, <2>1, <2>2, <2>3, <2>4 DEF GraspPath
<1>6. Publishes'
  BY <1>0, <1>1, <1>2, <1>4 DEF Publishes, Shown, Trying
<1>7. Carried'
  <2>1. /\ grasping' \in {"idle", "rereading", "looping", "verifying", "stepping"}
        /\ UNCHANGED <<mounted, active, where, gHeld, aim, begun, gReported>>
    BY <1>1, <1>2
  <2>2. grasping \notin Trying
    BY <1>1 DEF Trying
  <2>3. grasping' \in Lifts => gHeld' = IF gIndex' > 4 THEN aim' ELSE NoBox
    BY <1>0, <1>1, <1>2 DEF Carried, Lifts
  <2>4. grasping' = "rereading" => gHeld' = NoBox
    BY <1>0, <1>1, <1>2 DEF Carried, Lifts
  <2> QED
    BY <1>0, <2>1, <2>2, <2>3, <2>4 DEF Carried, Trying, Lifts
<1> QED
  BY <1>3, <1>5, <1>6, <1>7 DEF GraspInv

\* One move along the path: what is held moves with the gripper, and from the
\* fourth on the object is held.
LEMMA CarryIs ==
  ASSUME GraspInv, grasping = "stepping", Grasp!Carry(route[gIndex])
  PROVE  /\ gArm' \in Grasp!Arms /\ gJaw' \in Grasp!Jaws /\ where' \in Wheres
         /\ \A o \in Boxes : where'[o] = "lifted" => o = gHeld /\ gIndex = 5
         /\ \A o \in Boxes \ {aim} : where'[o] = where[o]
         /\ gIndex \in 1..5 /\ route = Lifting /\ attachAt = 4 /\ object = aim /\ aim \in Boxes
         /\ gHeld = IF gIndex > 4 THEN aim ELSE NoBox
         /\ mounted = gHeld /\ active = {gHeld} \ {NoBox}
<1>0. /\ GraspTypes /\ GraspPath /\ Carried /\ NoBox \notin Boxes
  BY NodesAssumption DEF GraspInv
<1>1. gIndex \in 1..5 /\ route = Lifting /\ attachAt = 4 /\ object = aim /\ aim \in Boxes
  BY <1>0, LiftingIs DEF GraspPath, Lifts
<1>2. gHeld = (IF gIndex > 4 THEN aim ELSE NoBox) /\ mounted = gHeld /\ active = {gHeld} \ {NoBox}
  BY <1>0 DEF Carried, Trying, Lifts
<1>3. \A o \in Boxes : where[o] = "lifted" => o = gHeld
  BY <1>0 DEF Carried, Trying
<1> DEFINE at == Lifting[gIndex]
<1>4. at.arm \in Grasp!Arms /\ at.jaw \in Grasp!Jaws /\ (at.arm = "up" <=> gIndex = 5)
  BY <1>1, LiftingIs
<1>5. /\ gArm' = at.arm /\ gJaw' = at.jaw
      /\ where' = [o \in Boxes |->
                    IF o = mounted THEN IF at.arm = "up" THEN "lifted" ELSE "table" ELSE where[o]]
  BY <1>1 DEF Grasp!Carry
<1> HIDE DEF at
<1>6. where' \in Wheres
  BY <1>0, <1>5 DEF Wheres, GraspTypes
<1>7. \A o \in Boxes : where'[o] = IF o = mounted THEN IF at.arm = "up" THEN "lifted" ELSE "table" ELSE where[o]
  BY <1>5
<1>8. \A o \in Boxes : where'[o] = "lifted" => o = gHeld /\ gIndex = 5
  <2> TAKE o \in Boxes
  <2> HAVE where'[o] = "lifted"
  <2>1. CASE o = mounted
    BY <1>2, <1>4, <1>7, <2>1
  <2>2. CASE o # mounted
    BY <1>2, <1>3, <1>7, <2>2
  <2> QED
    BY <2>1, <2>2
<1>9. \A o \in Boxes \ {aim} : where'[o] = where[o]
  BY <1>0, <1>2, <1>7
<1> QED
  BY <1>1, <1>2, <1>4, <1>5, <1>6, <1>8, <1>9

LEMMA StepsSafe ==
  ASSUME GraspInv, Grasp!Step \/ Grasp!StepFails
  PROVE  GraspInv'
<1> USE DEF Grasp!adapter, Grasp!Frame, Grasp!Goes, Grasp!Ends
<1>0. /\ GraspTypes /\ GraspPath /\ Publishes /\ Carried /\ NoBox \notin Boxes
  BY NodesAssumption DEF GraspInv
<1>1. CASE Grasp!Step
  <2>1. /\ grasping = "stepping" /\ grasping' = "stepped" /\ gOutcome' = gOutcome
        /\ Grasp!Carry(route[gIndex]) /\ Grasp!Attach
        /\ UNCHANGED <<object, route, attachAt, aim, try, gIndex, begun, gHalt, gReported>>
    BY <1>1 DEF Grasp!Step
  <2>2. /\ gArm' \in Grasp!Arms /\ gJaw' \in Grasp!Jaws /\ where' \in Wheres
        /\ \A o \in Boxes : where'[o] = "lifted" => o = gHeld /\ gIndex = 5
        /\ \A o \in Boxes \ {aim} : where'[o] = where[o]
        /\ gIndex \in 1..5 /\ route = Lifting /\ attachAt = 4 /\ object = aim /\ aim \in Boxes
        /\ gHeld = IF gIndex > 4 THEN aim ELSE NoBox
        /\ mounted = gHeld /\ active = {gHeld} \ {NoBox}
    BY <2>1, CarryIs
  <2>3. /\ gHeld' = IF gIndex \in {4, 5} THEN aim ELSE NoBox
        /\ mounted' = gHeld' /\ active' = {gHeld'} \ {NoBox}
    <3>1. CASE gIndex = 4
      BY <1>0, <2>1, <2>2, <3>1 DEF Grasp!Attach
    <3>2. CASE gIndex # 4
      BY <2>1, <2>2, <3>2 DEF Grasp!Attach
    <3> QED
      BY <3>1, <3>2
  <2>4. gHeld' \in Boxes \cup {NoBox} /\ mounted' \in Boxes \cup {NoBox} /\ active' \subseteq Boxes
    BY <2>2, <2>3
  <2>5. GraspTypes'
    BY <1>0, <2>1, <2>2, <2>4 DEF GraspTypes, Phases
  <2>6. GraspPath'
    BY <1>0, <2>1, <2>2 DEF GraspPath, Lifts
  <2>7. Publishes'
    <3>1. gOutcome = "none"
      BY <1>0, <2>1 DEF Publishes
    <3>2. \A o \in Boxes \ {aim} : gReported.where[o] = where[o]
      BY <1>0, <2>1 DEF Publishes, Shown, Trying
    <3> QED
      BY <2>1, <2>2, <3>1, <3>2 DEF Publishes, Trying
  <2>8. Carried'
    <3>1. \A o \in Boxes : where'[o] = "lifted" => o = gHeld'
      BY <2>2, <2>3
    <3>2. gHeld' = IF gIndex' > 4 \/ (grasping' = "stepped" /\ gIndex' = 4) THEN aim' ELSE NoBox
      BY <2>1, <2>2, <2>3
    <3> QED
      BY <2>1, <2>3, <3>1, <3>2 DEF Carried, Trying, Lifts
  <2> QED
    BY <2>5, <2>6, <2>7, <2>8 DEF GraspInv
<1>2. CASE Grasp!StepFails
  <2>1. /\ grasping \in {"stepping", "verifying"} /\ grasping' = "idle" /\ gOutcome' = "unknown"
        /\ UNCHANGED <<mounted, active, gHeld, object, route, attachAt, aim, try, gIndex, begun, gHalt, gReported>>
    BY <1>2 DEF Grasp!StepFails
  <2>2. /\ gArm' \in Grasp!Arms /\ gJaw' \in Grasp!Jaws /\ where' \in Wheres
        /\ \A o \in Boxes : where'[o] = "lifted" => o = gHeld
    <3>1. CASE grasping = "stepping"
      BY <1>2, <3>1, CarryIs DEF Grasp!StepFails
    <3>2. CASE grasping # "stepping"
      BY <1>0, <1>2, <2>1, <3>2 DEF Grasp!StepFails, GraspTypes, Carried, Trying
    <3> QED
      BY <3>1, <3>2
  <2>3. GraspTypes'
    BY <1>0, <2>1, <2>2 DEF GraspTypes, Phases
  <2>4. GraspPath' /\ Publishes'
    BY <1>0, <2>1, <2>2 DEF GraspPath, Publishes, Lifts, Trying
  <2>5. Carried'
    BY <1>0, <2>1, <2>2 DEF Carried, Lifts, Trying
  <2> QED
    BY <2>3, <2>4, <2>5 DEF GraspInv
<1> QED
  BY <1>1, <1>2

\* The handler publishes what the step did.
LEMMA ResumeSafe ==
  ASSUME GraspInv, Grasp!Resume
  PROVE  GraspInv'
<1> USE DEF Grasp!world, Grasp!adapter, Grasp!Goes
<1>0. /\ GraspTypes /\ GraspPath /\ Publishes /\ Carried /\ NoBox \notin Boxes
  BY NodesAssumption DEF GraspInv
<1>1. /\ grasping = "stepped" /\ grasping' = "looping" /\ gOutcome' = gOutcome /\ gIndex' = gIndex + 1
      /\ gReported' = [arm |-> gArm, jaw |-> gJaw, held |-> gHeld,
                       where |-> [gReported.where EXCEPT ![aim] = where[aim]]]
      /\ UNCHANGED <<gArm, gJaw, where, mounted, active, gHeld, object, route, attachAt, aim, try, begun, gHalt>>
  BY DEF Grasp!Resume, Grasp!Holding
<1>2. [gReported.where EXCEPT ![aim] = where[aim]] = where
  <2>1. \A o \in Boxes \ {aim} : gReported.where[o] = where[o]
    BY <1>0, <1>1 DEF Publishes
  <2> QED
    BY <1>0, <2>1 DEF GraspTypes, Wheres
<1>3. gReported' = [arm |-> gArm, jaw |-> gJaw, where |-> where, held |-> gHeld]
  BY <1>1, <1>2
<1>4. gIndex \in 1..5 /\ route = Lifting /\ attachAt = 4 /\ gIndex' \in 2..6 /\ object = aim /\ aim \in Boxes
  BY <1>0, <1>1, LiftingIs DEF GraspPath, Lifts
<1>5. gReported'.where \in Wheres
  BY <1>0, <1>3 DEF GraspTypes
<1>6. GraspTypes'
  BY <1>0, <1>1, <1>5 DEF GraspTypes, Phases
<1>7. GraspPath'
  BY <1>0, <1>1, <1>4 DEF GraspPath, Lifts
<1>8. Publishes'
  BY <1>0, <1>1, <1>3 DEF Publishes, Shown, Trying
<1>9. Carried'
  <2>1. gHeld' = IF gIndex' > 4 THEN aim' ELSE NoBox
    BY <1>0, <1>1, <1>4 DEF Carried, Lifts
  <2> QED
    BY <1>0, <1>1, <2>1 DEF Carried, Lifts, Trying
<1> QED
  BY <1>6, <1>7, <1>8, <1>9 DEF GraspInv

LEMMA GraspStep == GraspInv /\ [Grasp!Next]_grasp => GraspInv'
<1> SUFFICES ASSUME GraspInv, [Grasp!Next]_grasp PROVE GraspInv'
  OBVIOUS
<1>1. CASE UNCHANGED grasp
  BY <1>1 DEF grasp, GraspInv, GraspTypes, GraspPath, Publishes, Shown, Carried
<1> QED
  BY <1>1, ObservedSafe, SearchSafe, RestoreSafe, WalkSafe, StepsSafe, ResumeSafe DEF Grasp!Next

LEMMA GraspSafe ==
  ASSUME GraspInv
  PROVE  Grasp!TypeOK /\ Grasp!WorldAsReported
<1>1. GraspTypes /\ GraspPath /\ Publishes /\ Carried
  BY DEF GraspInv
<1>2. Grasp!TypeOK
  <2>0. \/ route = <<>> /\ attachAt = 0 /\ gIndex = 0
        \/ route = Lifting /\ attachAt = 4 /\ gIndex \in 0..6
    BY <1>1 DEF GraspPath
  <2>1. route \in Seq([arm : Grasp!Arms, jaw : Grasp!Jaws]) /\ Len(route) = IF route = <<>> THEN 0 ELSE 5
    BY <2>0, LiftingIs, EmptySeq
  <2>2. \A i \in DOMAIN route : route[i] \in [arm : Grasp!Arms, jaw : Grasp!Jaws]
    BY <2>1, ElementOfSeq, LenProperties
  <2>3. attachAt \in 0..Len(route) /\ gIndex \in 0..Len(route) + 1
    <3>1. CASE route = <<>>
      <4>1. Len(Lifting) = 5 /\ Len(route) = 0
        BY <2>1, <3>1, LiftingIs
      <4>2. attachAt = 0 /\ gIndex = 0
        BY <2>0, <4>1
      <4> QED
        BY <4>1, <4>2
    <3>2. CASE route # <<>>
      BY <2>0, <2>1, <3>2
    <3> QED
      BY <3>1, <3>2
  <2> QED
    BY <1>1, <2>2, <2>3 DEF GraspTypes, Grasp!TypeOK, Phases, Wheres, Grasp!Planning
<1>3. Grasp!WorldAsReported
  BY <1>1 DEF Grasp!WorldAsReported, Grasp!Planning, Publishes, Shown, Carried, Trying
<1> QED
  BY <1>2, <1>3

(***************************************************************************)
(* UrBackend.                                                              *)
(***************************************************************************)

Admissions == {"OPEN", "HELD", "UNKNOWN"}
Gates == [admission : Admissions, epoch : 1..ArmEpochs, confirmed : BOOLEAN, active : BOOLEAN,
          stop : BOOLEAN]
JobKinds == {"connect", "read", "follow", "close"}
Jobs == [who : Arm!Callers, job : JobKinds, on : Arm!Links \cup {None}]
Results == {"none", "ready", "unready", "done", "stopped", "failed", "lost"}
SwitchStates == [at : {"no", "connect", "read", "refuse", "mirror", "release"},
                 fenced : 0..ArmEpochs, on : Arm!Links \cup {None}]
ActionStates == [at : {"no", "reading", "following", "virtual", "step", "final"},
                 on : Arm!Links \cup {None}]

\* A coroutine has no job on the device thread; or one, of this kind, until its
\* result is there.
Unasked(c) == \A i \in 1..Len(device) : device[i].who # c
OneJob(c, what) ==
  /\ \A i \in 1..Len(device) : device[i].who = c => device[i].job = what
  /\ \A i, j \in 1..Len(device) : device[i].who = c /\ device[j].who = c => i = j
  /\ done[c] # "none" => Unasked(c)

\* What runs was admitted; while a switch is under its own fence, nothing runs.
Gated ==
  /\ action.at # "no" => gate.active
  /\ gate.active => gate.admission # "UNKNOWN"
  /\ switch.at # "no" =>
       /\ switch.fenced <= gate.epoch
       /\ gate.epoch = switch.fenced => gate.admission # "OPEN" /\ ~gate.active

\* Until an outcome is unknown, the arm moves only for the job of the action that
\* awaits it.
Awaits ==
  gate.admission # "UNKNOWN" =>
    /\ action.at \in {"no", "virtual", "step"} => Unasked("action") /\ done["action"] = "none"
    /\ action.at \in {"reading", "final"} => OneJob("action", "read")
    /\ action.at = "following" => OneJob("action", "follow")
    /\ arm # "rest" =>
         /\ action.at = "following"
         /\ done["action"] = "failed" \/ (done["action"] = "none" /\ Arm!Doing("follow"))

Switches ==
  /\ switch.at \in {"no", "mirror"} => Unasked("switch") /\ done["switch"] = "none"
  /\ switch.at = "connect" => OneJob("switch", "connect")
  /\ switch.at = "read" => OneJob("switch", "read")
  /\ switch.at \in {"refuse", "release"} => OneJob("switch", "close")

\* A connection that is open, and that no job is to close.
Linked(l) == l \in open /\ \A i \in 1..Len(device) : device[i].job = "close" => device[i].on # l

Linking ==
  /\ \A i \in 1..Len(device) :
       /\ device[i].on # None => device[i].on <= links
       /\ device[i].job = "connect" => device[i].who = "switch"
       /\ device[i].job = "follow" => device[i].who = "action"
  /\ \A l \in open \cup {driver, action.on, switch.on} : l # None => l <= links
  /\ switch.at \in {"connect", "read", "refuse", "release"} => driver = None
  /\ closing \notin {"driver", "shut"} =>
       /\ driver # None => Linked(driver)
       /\ action.at # "no" => action.on = driver
  /\ switch.at = "connect" /\ done["switch"] # "none" =>
       done["switch"] = "failed" \/ (done["switch"] = "done" /\ Linked(links))
  /\ switch.at = "read" => Linked(switch.on)

ArmInv == Arm!TypeOK /\ Gated /\ Awaits /\ Switches /\ Linking

LEMMA ArmTypes ==
  ASSUME Arm!TypeOK
  PROVE  /\ gate \in Gates /\ driver \in Arm!Links \cup {None} /\ links \in 0..MaxLinks
         /\ open \subseteq Arm!Links /\ device \in Seq(Jobs)
         /\ done \in [Arm!Callers -> Results] /\ switch \in SwitchStates /\ action \in ActionStates
         /\ halt \in BOOLEAN /\ arm \in {"rest", "moving", "slowing"}
         /\ watcher \in {"sleep", "read", "cancelled"}
         /\ closing \in {"no", "asked", "journal", "driver", "shut"}
         /\ ArmEpochs \in Nat \ {0} /\ MaxLinks \in Nat /\ None \notin Arm!Links /\ None \notin Nat
         /\ Arm!Links \subseteq Nat /\ {"action", "switch", "watcher", "close"} = Arm!Callers
         /\ Len(device) \in Nat
<1>1. None \notin Arm!Links /\ Arm!Links \subseteq Nat
  BY NodesAssumption DEF Arm!Links
<1>2. device \in Seq(Jobs)
  BY DEF Arm!TypeOK, Jobs, JobKinds
<1>3. Len(device) \in Nat
  BY <1>2, LenProperties
<1> QED
  BY <1>1, <1>2, <1>3, NodesAssumption
     DEF Arm!TypeOK, Gates, Admissions, Results, SwitchStates, ActionStates, Arm!Moves, Arm!Callers

LEMMA ArmTypesNext ==
  ASSUME gate' \in Gates, driver' \in Arm!Links \cup {None}, links' \in 0..MaxLinks,
         open' \subseteq Arm!Links, device' \in Seq(Jobs), done' \in [Arm!Callers -> Results],
         switch' \in SwitchStates, action' \in ActionStates, halt' \in BOOLEAN,
         arm' \in {"rest", "moving", "slowing"}, watcher' \in {"sleep", "read", "cancelled"},
         closing' \in {"no", "asked", "journal", "driver", "shut"}
  PROVE  Arm!TypeOK'
  BY DEF Arm!TypeOK, Gates, Admissions, Jobs, JobKinds, Results, SwitchStates, ActionStates, Arm!Moves

LEMMA ArmInit == Arm!Init => ArmInv
<1> SUFFICES ASSUME Arm!Init PROVE ArmInv
  OBVIOUS
<1> USE DEF Arm!Init, Arm!Idle
<1>1. /\ ArmEpochs \in Nat \ {0} /\ MaxLinks \in Nat
  BY NodesAssumption
<1>2. device \in Seq(Jobs) /\ Len(device) = 0
  BY EmptySeq
<1>3. gate \in Gates
  <2>1. 1 \in 1..ArmEpochs
    BY <1>1
  <2> DEFINE e == 1
  <2>2. e \in 1..ArmEpochs /\ gate = [admission |-> "HELD", epoch |-> e, confirmed |-> TRUE,
                                      active |-> FALSE, stop |-> FALSE]
    BY <2>1
  <2> HIDE DEF e
  <2> QED
    BY <2>2 DEF Gates, Admissions
<1>4. Arm!TypeOK
  <2>1. 0 \in 0..MaxLinks /\ 0 \in 0..ArmEpochs
    BY <1>1
  <2>2. halt \in BOOLEAN
    OBVIOUS
  <2>3. /\ driver = None /\ open = {} /\ links \in 0..MaxLinks /\ switch.at = "no"
        /\ switch \in [at : {"no", "connect", "read", "refuse", "mirror", "release"},
                       fenced : 0..ArmEpochs, on : Arm!Links \cup {None}]
        /\ action = [at |-> "no", on |-> None] /\ arm = "rest" /\ watcher = "sleep" /\ closing = "no"
        /\ done = [c \in Arm!Callers |-> "none"]
    BY <2>1
  <2> QED
    BY <1>2, <1>3, <2>2, <2>3 DEF Arm!TypeOK, Gates, Admissions, Jobs, JobKinds
<1>5. Gated /\ Awaits /\ Switches
  BY <1>2 DEF Gated, Awaits, Switches, Unasked, Arm!Callers
<1>6. Linking
  BY <1>2 DEF Linking
<1> QED
  BY <1>4, <1>5, <1>6 DEF ArmInv

(***************************************************************************)
(* The device thread's queue.                                              *)
(***************************************************************************)

LEMMA PushIs ==
  ASSUME device \in Seq(Jobs), NEW c \in Arm!Callers, NEW what \in JobKinds,
         NEW on \in Arm!Links \cup {None}, device' = Append(device, [who |-> c, job |-> what, on |-> on])
  PROVE  /\ device' \in Seq(Jobs) /\ Len(device) \in Nat /\ Len(device') = Len(device) + 1
         /\ \A i \in 1..Len(device) : device'[i] = device[i]
         /\ device'[Len(device) + 1] = [who |-> c, job |-> what, on |-> on]
         /\ Arm!Doing("follow") => Arm!Doing("follow")'
<1> DEFINE j == [who |-> c, job |-> what, on |-> on]
<1>1. j \in Jobs /\ device' = Append(device, j)
  BY DEF Jobs
<1> HIDE DEF j
<1>2. /\ device' \in Seq(Jobs) /\ Len(device) \in Nat /\ Len(device') = Len(device) + 1
      /\ \A i \in 1..Len(device) : device'[i] = device[i]
      /\ device'[Len(device) + 1] = j
  BY <1>1, AppendProperties
<1>3. Arm!Doing("follow") => Arm!Doing("follow")'
  BY <1>1, <1>2 DEF Arm!Doing
<1> QED
  BY <1>2, <1>3 DEF j

LEMMA PopIs ==
  ASSUME device \in Seq(Jobs), device # <<>>, device' = Tail(device)
  PROVE  /\ device' \in Seq(Jobs) /\ Len(device) \in Nat /\ Len(device') = Len(device) - 1
         /\ \A i \in 1..Len(device') : device'[i] = device[i + 1] /\ i + 1 \in 1..Len(device)
         /\ Head(device) = device[1] /\ 1 \in 1..Len(device) /\ Head(device) \in Jobs
<1>1. /\ device' \in Seq(Jobs) /\ Len(device) \in Nat /\ Len(device) # 0 /\ Len(device') = Len(device) - 1
      /\ \A i \in 1..Len(device') : device'[i] = device[i + 1]
  BY HeadTailProperties
<1>2. \A i \in 1..Len(device') : i + 1 \in 1..Len(device)
  BY <1>1
<1>3. Head(device) = device[1] /\ 1 \in 1..Len(device)
  BY <1>1
<1>4. Head(device) \in Jobs
  BY <1>3, ElementOfSeq
<1> QED
  BY <1>1, <1>2, <1>3, <1>4

\* A job of somebody else.
LEMMA OthersPush ==
  ASSUME device \in Seq(Jobs), NEW c \in Arm!Callers, NEW d \in Arm!Callers, c # d,
         NEW what \in JobKinds, NEW on \in Arm!Links \cup {None}, Arm!Push(d, what, on),
         done'[c] = done[c]
  PROVE  /\ Unasked(c) => Unasked(c)'
         /\ \A w : OneJob(c, w) => OneJob(c, w)'
<1>1. /\ Len(device) \in Nat /\ Len(device') = Len(device) + 1
      /\ \A i \in 1..Len(device) : device'[i] = device[i]
      /\ device'[Len(device) + 1].who = d
  BY PushIs DEF Arm!Push
<1>2. \A i \in 1..Len(device') : i \in 1..Len(device) \/ i = Len(device) + 1
  BY <1>1
<1> QED
  BY <1>1, <1>2 DEF Unasked, OneJob

\* A job of its own, when the one before is over.
LEMMA OwnPush ==
  ASSUME device \in Seq(Jobs), NEW c \in Arm!Callers, NEW what \in JobKinds,
         NEW on \in Arm!Links \cup {None}, Arm!Push(c, what, on), Unasked(c), done'[c] = "none"
  PROVE  OneJob(c, what)'
<1>1. /\ Len(device) \in Nat /\ Len(device') = Len(device) + 1
      /\ \A i \in 1..Len(device) : device'[i] = device[i]
      /\ device'[Len(device) + 1].job = what
  BY PushIs DEF Arm!Push
<1>2. \A i \in 1..Len(device') : i \in 1..Len(device) \/ i = Len(device) + 1
  BY <1>1
<1> QED
  BY <1>1, <1>2 DEF Unasked, OneJob

\* The job at the head ends: its coroutine has the result, and no job.
LEMMA Finished ==
  ASSUME device \in Seq(Jobs), device # <<>>, NEW ends, Arm!Finish(ends), DOMAIN done = Arm!Callers
  PROVE  /\ device' \in Seq(Jobs) /\ device' = Tail(device)
         /\ \A c \in Arm!Callers :
              /\ done'[c] \in {done[c], ends}
              /\ Head(device).who # c => done'[c] = done[c]
              /\ c # "action" /\ Head(device).who = c => done'[c] = ends
              /\ Head(device).who = c /\ action.at # "no" => done'[c] = ends
              /\ Unasked(c) => Unasked(c)' /\ done'[c] = done[c]
              /\ \A w : OneJob(c, w) => OneJob(c, w)'
<1>1. device' = Tail(device)
  BY DEF Arm!Finish
<1>2. /\ Len(device) \in Nat /\ Len(device') = Len(device) - 1
      /\ \A i \in 1..Len(device') : device'[i] = device[i + 1] /\ i + 1 \in 1..Len(device)
      /\ Head(device) = device[1] /\ 1 \in 1..Len(device) /\ Head(device) \in Jobs
      /\ device' \in Seq(Jobs)
  BY <1>1, PopIs
<1>3. Head(device).who \in Arm!Callers
  BY <1>2 DEF Jobs
<1>4. ASSUME NEW c \in Arm!Callers
      PROVE  /\ done'[c] \in {done[c], ends}
             /\ Head(device).who # c => done'[c] = done[c]
             /\ c # "action" /\ Head(device).who = c => done'[c] = ends
             /\ Head(device).who = c /\ action.at # "no" => done'[c] = ends
  BY <1>3 DEF Arm!Finish
<1>5. ASSUME NEW c \in Arm!Callers, Unasked(c)
      PROVE  Unasked(c)' /\ done'[c] = done[c]
  <2>1. Unasked(c)'
    BY <1>2, <1>5 DEF Unasked
  <2>2. Head(device).who # c
    BY <1>2, <1>5 DEF Unasked
  <2> QED
    BY <1>4, <2>1, <2>2
<1>6. ASSUME NEW c \in Arm!Callers, NEW w, OneJob(c, w)
      PROVE  OneJob(c, w)'
  <2>1. \A i \in 1..Len(device') : device'[i].who = c => device'[i].job = w
    BY <1>2, <1>6 DEF OneJob
  <2>2. \A i, j \in 1..Len(device') : device'[i].who = c /\ device'[j].who = c => i = j
    <3> TAKE i, j \in 1..Len(device')
    <3> HAVE device'[i].who = c /\ device'[j].who = c
    <3>1. i + 1 = j + 1
      BY <1>2, <1>6 DEF OneJob
    <3> QED
      BY <1>2, <3>1
  <2>3. done'[c] # "none" => Unasked(c)'
    <3>1. CASE Head(device).who = c
      <4>1. \A i \in 1..Len(device') : device'[i].who # c
        <5> TAKE i \in 1..Len(device')
        <5>1. i + 1 # 1
          BY <1>2
        <5> QED
          BY <1>2, <1>6, <3>1, <5>1 DEF OneJob
      <4> QED
        BY <4>1 DEF Unasked
    <3>2. CASE Head(device).who # c
      <4>1. done'[c] = done[c]
        BY <1>4, <3>2
      <4> QED
        BY <1>5, <1>6, <4>1 DEF OneJob
    <3> QED
      BY <3>1, <3>2
  <2> QED
    BY <2>1, <2>2, <2>3 DEF OneJob
<1> QED
  BY <1>1, <1>2, <1>4, <1>5, <1>6

(***************************************************************************)
(* The gate moves; the coroutines and the device thread do not.            *)
(***************************************************************************)

\* The gate of the executor, by a step that is not the handler's nor the switch's.
EpochMoves ==
  \/ gate' = gate
  \/ gate'.epoch > gate.epoch
  \/ gate.admission = "OPEN" /\ gate'.epoch = gate.epoch
GateMoves ==
  /\ gate' \in Gates /\ EpochMoves
  /\ gate.active => gate'.active
  /\ gate'.active => gate'.admission # "UNKNOWN"
  /\ gate'.admission # "UNKNOWN" => gate.admission # "UNKNOWN"

LEMMA ArmAtGate ==
  ASSUME ArmInv, UNCHANGED <<driver, links, open, device, done, switch, action, halt, arm, watcher>>,
         closing' \in {closing, "asked", "journal", "shut"}, closing' = closing \/ closing # "shut",
         closing' \in {"driver", "shut"} \/ closing \notin {"driver", "shut"},
         GateMoves
  PROVE  ArmInv'
<1>1. Arm!TypeOK
  BY DEF ArmInv
<1>2. Arm!TypeOK'
  <2>1. /\ driver' \in Arm!Links \cup {None} /\ links' \in 0..MaxLinks /\ open' \subseteq Arm!Links
        /\ device' \in Seq(Jobs) /\ done' \in [Arm!Callers -> Results] /\ switch' \in SwitchStates
        /\ action' \in ActionStates /\ halt' \in BOOLEAN /\ arm' \in {"rest", "moving", "slowing"}
        /\ watcher' \in {"sleep", "read", "cancelled"}
    BY <1>1, ArmTypes
  <2>2. closing' \in {"no", "asked", "journal", "driver", "shut"}
    BY <1>1, ArmTypes
  <2> QED
    BY <2>1, <2>2, ArmTypesNext DEF GateMoves
<1>3. Gated'
  <2> DEFINE e == gate.epoch
             f == gate'.epoch
             s == switch.fenced
  <2>1. e \in Nat /\ f \in Nat /\ s \in Nat
    <3>1. gate \in Gates /\ gate' \in Gates /\ switch \in SwitchStates
      BY <1>1, ArmTypes DEF GateMoves
    <3> QED
      BY <3>1, ArmTypes DEF Gates, SwitchStates
  <2>2. gate' = gate \/ f > e \/ (gate.admission = "OPEN" /\ f = e)
    <3>1. EpochMoves
      BY DEF GateMoves
    <3> QED
      BY <2>1, <3>1 DEF EpochMoves
  <2>3. switch.at # "no" => s <= e /\ (e = s => gate.admission # "OPEN" /\ ~gate.active)
    BY DEF ArmInv, Gated
  <2>4. switch.at # "no" => s <= f /\ (f = s => gate' = gate \/ e = s)
    <3>1. gate' = gate => f = e
      OBVIOUS
    <3> HIDE DEF e, f, s
    <3> QED
      BY <2>1, <2>2, <2>3, <3>1
  <2>5. switch.at # "no" /\ f = s => gate' = gate
    <3>1. switch.at # "no" /\ f = s => f = e
      <4>1. gate' = gate => f = e
        OBVIOUS
      <4> HIDE DEF e, f, s
      <4> QED
        BY <2>1, <2>2, <2>3, <4>1
    <3>2. f = e => ~(f > e)
      <4> HIDE DEF e, f, s
      <4> QED
        BY <2>1
    <3> HIDE DEF e, f, s
    <3> QED
      BY <2>2, <2>3, <3>1, <3>2
  <2>6. switch.at # "no" /\ f = s => e = s
    BY <2>5
  <2>7. switch.at # "no" /\ f = s => gate'.admission # "OPEN" /\ ~gate'.active
    BY <2>3, <2>5, <2>6
  <2>8. switch'.at # "no" => switch'.fenced <= gate'.epoch
    BY <2>4
  <2>9. switch'.at # "no" =>
          (gate'.epoch = switch'.fenced => gate'.admission # "OPEN" /\ ~gate'.active)
    BY <2>7
  <2>10. (action'.at # "no" => gate'.active) /\ (gate'.active => gate'.admission # "UNKNOWN")
    BY DEF ArmInv, Gated, GateMoves
  <2> HIDE DEF e, f, s
  <2> QED
    BY <2>8, <2>9, <2>10 DEF Gated
<1>4. Awaits'
  BY DEF ArmInv, Awaits, Unasked, OneJob, Arm!Doing, GateMoves
<1>5. Switches' /\ Linking'
  BY DEF ArmInv, Switches, Unasked, OneJob, Linking, Linked
<1> QED
  BY <1>2, <1>3, <1>4, <1>5 DEF ArmInv

\* The gate of the executor, shut by a hold.
LEMMA HeldIs ==
  ASSUME Arm!TypeOK, gate.active => gate.admission # "UNKNOWN",
         gate.epoch < ArmEpochs, gate' = Arm!Held
  PROVE  GateMoves
<1> DEFINE e == gate.epoch + 1
           c == ~gate.active /\ gate.admission # "UNKNOWN"
<1>1. gate \in Gates /\ c \in BOOLEAN
  BY ArmTypes
<1>2. e \in 1..ArmEpochs /\ e > gate.epoch
  BY <1>1, ArmTypes DEF Gates
<1>3. gate' = [Arm!Gate(IF gate.admission = "UNKNOWN" THEN "UNKNOWN" ELSE "HELD", e, c) EXCEPT !.stop = TRUE]
  BY DEF Arm!Held
<1> HIDE DEF e, c
<1>4. /\ gate' \in Gates /\ gate'.epoch = e /\ gate'.active = gate.active
      /\ gate'.admission = "UNKNOWN" <=> gate.admission = "UNKNOWN"
  BY <1>1, <1>2, <1>3 DEF Gates, Admissions, Arm!Gate
<1>5. gate'.epoch > gate.epoch
  BY <1>2, <1>4
<1> QED
  BY <1>4, <1>5 DEF GateMoves, EpochMoves

LEMMA ArmGates ==
  ASSUME ArmInv, Arm!Submit \/ Arm!Hold \/ Arm!AllowActions \/ Arm!CloseExecutor \/ Arm!Shutdown
  PROVE  ArmInv'
<1>1. Arm!TypeOK /\ gate \in Gates /\ (gate.active => gate.admission # "UNKNOWN")
  BY ArmTypes DEF ArmInv, Gated
<1>2. CASE Arm!Submit
  <2> DEFINE e == gate.epoch
  <2>1. e \in 1..ArmEpochs
    BY <1>1 DEF Gates
  <2>2. gate.admission = "OPEN" /\ gate' = [gate EXCEPT !.active = TRUE, !.confirmed = FALSE, !.stop = FALSE]
    BY <1>2 DEF Arm!Submit
  <2>3. gate' \in Gates /\ gate'.active /\ gate'.admission = "OPEN" /\ gate'.epoch = gate.epoch
    BY <1>1, <2>2 DEF Gates
  <2>4. GateMoves
    BY <2>2, <2>3 DEF GateMoves, EpochMoves
  <2> QED
    BY <1>2, <2>4, ArmAtGate DEF Arm!Submit, Arm!robot
<1>3. CASE Arm!Hold
  <2>1. GateMoves
    BY <1>1, <1>3, HeldIs DEF Arm!Hold
  <2> QED
    BY <1>3, <2>1, ArmAtGate DEF Arm!Hold, Arm!robot
<1>4. CASE Arm!AllowActions
  <2> DEFINE e == gate.epoch + 1
  <2>1. e \in 1..ArmEpochs /\ e > gate.epoch
    BY <1>1, <1>4, ArmTypes DEF Gates, Arm!AllowActions
  <2>2. gate' = Arm!Gate("OPEN", e, gate.confirmed) /\ gate.admission = "HELD"
    BY <1>4 DEF Arm!AllowActions
  <2>3. gate'.epoch > gate.epoch
    <3>1. gate'.epoch = e
      <4> HIDE DEF e
      <4> QED
        BY <1>1, <2>2 DEF Arm!Gate, Gates
    <3> QED
      BY <2>1, <3>1
  <2>4. gate' \in Gates /\ gate'.active = gate.active /\ gate'.admission = "OPEN"
    <3> HIDE DEF e
    <3> QED
      BY <1>1, <2>1, <2>2 DEF Arm!Gate, Gates, Admissions
  <2>5. GateMoves
    BY <1>1, <2>2, <2>3, <2>4 DEF GateMoves, EpochMoves
  <2> QED
    BY <1>4, <2>5, ArmAtGate DEF Arm!AllowActions, Arm!robot
<1>5. CASE Arm!CloseExecutor
  <2>1. closing' \in {"asked", "journal"} /\ closing \notin {"driver", "shut"}
    BY <1>5 DEF Arm!CloseExecutor
  <2>2. GateMoves
    <3>1. CASE gate' = gate
      BY <1>1, <3>1 DEF GateMoves, EpochMoves
    <3>2. CASE gate' # gate
      <4>1. gate.epoch < ArmEpochs /\ gate' = Arm!Held
        <5>1. gate.active
          BY <1>5, <3>2 DEF Arm!CloseExecutor
        <5> QED
          BY <1>5, <3>2, <5>1 DEF Arm!CloseExecutor
      <4> QED
        BY <1>1, <4>1, HeldIs
    <3> QED
      BY <3>1, <3>2
  <2> QED
    BY <1>5, <2>1, <2>2, ArmAtGate DEF Arm!CloseExecutor, Arm!robot
<1>6. CASE Arm!Shutdown
  <2>1. GateMoves
    BY <1>1, <1>6 DEF GateMoves, EpochMoves, Arm!Shutdown
  <2> QED
    BY <1>6, <2>1, ArmAtGate DEF Arm!Shutdown, Arm!robot
<1> QED
  BY <1>2, <1>3, <1>4, <1>5, <1>6

(***************************************************************************)
(* A job of the device thread.                                             *)
(***************************************************************************)

\* What a job may not break, but for the arm.
Waits ==
  gate.admission # "UNKNOWN" =>
    /\ action.at \in {"no", "virtual", "step"} => Unasked("action") /\ done["action"] = "none"
    /\ action.at \in {"reading", "final"} => OneJob("action", "read")
    /\ action.at = "following" => OneJob("action", "follow")
ArmAwaited ==
  gate.admission # "UNKNOWN" /\ arm # "rest" =>
    /\ action.at = "following"
    /\ done["action"] = "failed" \/ (done["action"] = "none" /\ Arm!Doing("follow"))

LEMMA AwaitsIs == Awaits <=> Waits /\ ArmAwaited
  BY DEF Awaits, Waits, ArmAwaited
LEMMA AwaitsNext == Waits' /\ ArmAwaited' => Awaits'
  BY DEF Awaits, Waits, ArmAwaited

LEMMA ArmFinishes ==
  ASSUME ArmInv, UNCHANGED <<gate, driver, switch, action, halt, watcher, closing>>, device # <<>>,
         NEW ends \in Results \ {"none"}, Arm!Finish(ends)
  PROVE  /\ device' \in Seq(Jobs) /\ done' \in [Arm!Callers -> Results]
         /\ Gated' /\ Waits' /\ Switches'
<1>1. Arm!TypeOK /\ device \in Seq(Jobs) /\ done \in [Arm!Callers -> Results]
  BY ArmTypes DEF ArmInv
<1>2. DOMAIN done = Arm!Callers
  BY <1>1
<1>3. /\ device' \in Seq(Jobs)
      /\ \A c \in Arm!Callers :
           /\ done'[c] \in {done[c], ends}
           /\ Unasked(c) => Unasked(c)' /\ done'[c] = done[c]
           /\ \A w : OneJob(c, w) => OneJob(c, w)'
  BY <1>1, <1>2, Finished
<1>4. done' \in [Arm!Callers -> Results]
  <2>1. done' = [c \in Arm!Callers |-> done'[c]]
    BY <1>2 DEF Arm!Finish
  <2>2. \A c \in Arm!Callers : done'[c] \in Results
    BY <1>1, <1>3
  <2> QED
    BY <2>1, <2>2
<1>5. "action" \in Arm!Callers /\ "switch" \in Arm!Callers
  BY DEF Arm!Callers
<1>6. Gated'
  BY DEF ArmInv, Gated
<1>7. Waits'
  <2>1. Waits
    BY AwaitsIs DEF ArmInv
  <2> QED
    BY <1>3, <1>5, <2>1 DEF Waits
<1>8. Switches'
  <2>1. Switches
    BY DEF ArmInv
  <2> QED
    BY <1>3, <1>5, <2>1 DEF Switches
<1> QED
  BY <1>3, <1>4, <1>6, <1>7, <1>8

\* The connections: what the head job leaves of them.
LEMMA LinkedStays ==
  ASSUME device \in Seq(Jobs), device # <<>>, device' = Tail(device), NEW l, Linked(l),
         open \subseteq open' \/ (Arm!Doing("close") /\ open' = open \ {Head(device).on})
  PROVE  Linked(l)'
<1>1. /\ Len(device) \in Nat /\ Len(device') \in Nat
      /\ \A i \in 1..Len(device') : device'[i] = device[i + 1] /\ i + 1 \in 1..Len(device)
      /\ Head(device) = device[1] /\ 1 \in 1..Len(device)
  BY PopIs, LenProperties
<1>2. l \in open'
  BY <1>1 DEF Linked, Arm!Doing
<1>3. \A i \in 1..Len(device') : device'[i].job = "close" => device'[i].on # l
  BY <1>1 DEF Linked
<1> QED
  BY <1>2, <1>3 DEF Linked

LEMMA JobLinks ==
  ASSUME device \in Seq(Jobs)
  PROVE  \A i \in 1..Len(device) : device[i].on \in Nat \cup {None}
<1> TAKE i \in 1..Len(device)
<1>1. device[i] \in Jobs
  BY ElementOfSeq
<1> QED
  BY <1>1 DEF Jobs, Arm!Links

LEMMA LinksStay ==
  ASSUME ArmInv, UNCHANGED <<driver, switch, action, closing>>, device # <<>>, device' = Tail(device),
         links' \in 0..MaxLinks, links <= links',
         open \subseteq open' \/ (Arm!Doing("close") /\ open' = open \ {Head(device).on}),
         \A l \in open' : l <= links',
         switch.at = "connect" /\ done'["switch"] # "none" =>
           done'["switch"] = "failed" \/ (done'["switch"] = "done" /\ Linked(links)')
  PROVE  Linking'
<1>1. /\ Arm!TypeOK /\ device \in Seq(Jobs) /\ links \in 0..MaxLinks /\ Arm!Links \subseteq Nat
      /\ Linking /\ MaxLinks \in Nat /\ None \notin Nat
      /\ switch \in SwitchStates /\ action \in ActionStates /\ driver \in Arm!Links \cup {None}
  BY ArmTypes DEF ArmInv
<1>2. /\ Len(device) \in Nat /\ Len(device') \in Nat
      /\ \A i \in 1..Len(device') : device'[i] = device[i + 1] /\ i + 1 \in 1..Len(device)
      /\ Head(device) = device[1] /\ 1 \in 1..Len(device)
  BY <1>1, PopIs, LenProperties
<1>3. \A l \in Nat \cup {None} : l # None /\ l <= links => l <= links'
  <2>1. links \in Nat /\ links' \in Nat /\ links <= links'
    BY <1>1
  <2>2. \A l \in Nat : l <= links => l <= links'
    BY <2>1
  <2> QED
    BY <2>2
<1>4. \A i \in 1..Len(device) : device[i].on \in Nat \cup {None}
  BY <1>1, JobLinks
<1>5. /\ \A i \in 1..Len(device) :
           /\ device[i].on # None => device[i].on <= links
           /\ device[i].job = "connect" => device[i].who = "switch"
           /\ device[i].job = "follow" => device[i].who = "action"
      /\ \A l \in {driver, action.on, switch.on} : l # None => l <= links
  BY <1>1 DEF Linking
<1>6. \A i \in 1..Len(device') :
        /\ device'[i].on # None => device'[i].on <= links'
        /\ device'[i].job = "connect" => device'[i].who = "switch"
        /\ device'[i].job = "follow" => device'[i].who = "action"
  BY <1>2, <1>3, <1>4, <1>5
<1>7. \A l \in {driver, action.on, switch.on} : l # None => l <= links'
  <2>1. \A l \in {driver, action.on, switch.on} : l \in Nat \cup {None}
    BY <1>1 DEF SwitchStates, ActionStates
  <2> QED
    BY <1>3, <1>5, <2>1
<1>8. \A l : Linked(l) => Linked(l)'
  BY <1>1, LinkedStays
<1>9. switch.at = "connect" /\ done'["switch"] # "none" =>
        done'["switch"] = "failed" \/ (done'["switch"] = "done" /\ Linked(links)')
  OBVIOUS
<1> QED
  BY <1>1, <1>6, <1>7, <1>8, <1>9 DEF Linking

\* Whose job is at the head.
LEMMA HeadIs ==
  ASSUME ArmInv, device # <<>>
  PROVE  /\ Arm!Doing("connect") => Head(device).who = "switch"
         /\ Arm!Doing("follow") => Head(device).who = "action"
         /\ Head(device).who = "switch" /\ switch.at = "connect" => Arm!Doing("connect")
         /\ gate.admission # "UNKNOWN" /\ Arm!Doing("follow") =>
              action.at = "following" /\ done["action"] = "none"
         /\ Head(device).who \in Arm!Callers
<1>1. Arm!TypeOK /\ device \in Seq(Jobs)
  BY ArmTypes DEF ArmInv
<1>2. /\ Len(device) \in Nat /\ Head(device) = device[1] /\ 1 \in 1..Len(device)
      /\ Head(device) \in Jobs
  BY <1>1, HeadTailProperties, LenProperties, ElementOfSeq
<1>3. /\ Arm!Doing("connect") => Head(device).who = "switch"
      /\ Arm!Doing("follow") => Head(device).who = "action"
  BY <1>2 DEF ArmInv, Linking, Arm!Doing
<1>4. Head(device).who = "switch" /\ switch.at = "connect" => Arm!Doing("connect")
  BY <1>2 DEF ArmInv, Switches, OneJob, Arm!Doing
<1>5. ASSUME gate.admission # "UNKNOWN", Arm!Doing("follow")
      PROVE  action.at = "following" /\ done["action"] = "none"
  <2>1. Head(device).who = "action" /\ Head(device).job = "follow"
    BY <1>3, <1>5 DEF Arm!Doing
  <2>2. ~Unasked("action") /\ ~OneJob("action", "read")
    BY <1>2, <2>1 DEF Unasked, OneJob
  <2>3. action.at = "following"
    <3>1. action.at \in {"no", "reading", "following", "virtual", "step", "final"}
      BY <1>1, ArmTypes DEF ActionStates
    <3>2. Waits
      BY AwaitsIs DEF ArmInv
    <3> QED
      BY <1>5, <2>2, <3>1, <3>2 DEF Waits
  <2>4. OneJob("action", "follow")
    BY <1>5, <2>3 DEF ArmInv, Awaits
  <2> QED
    BY <2>2, <2>3, <2>4 DEF OneJob
<1> QED
  BY <1>2, <1>3, <1>4, <1>5 DEF Jobs

\* A job ends; ArmAwaited is what is left to show.
LEMMA ArmJobEnds ==
  ASSUME ArmInv, UNCHANGED <<gate, driver, switch, action, halt, watcher, closing>>, device # <<>>,
         NEW ends \in Results \ {"none"}, Arm!Finish(ends),
         arm' \in {"rest", "moving", "slowing"}, ArmAwaited',
         links' \in 0..MaxLinks, links <= links', open' \subseteq Arm!Links,
         open \subseteq open' \/ (Arm!Doing("close") /\ open' = open \ {Head(device).on}),
         \A l \in open' : l <= links',
         Arm!Doing("connect") =>
           ends = "failed" \/ (ends = "done" /\ links' \in open' /\ links' \notin 0..links),
         ~Arm!Doing("connect") => links' = links
  PROVE  ArmInv'
<1>1. /\ Arm!TypeOK /\ device \in Seq(Jobs) /\ done \in [Arm!Callers -> Results] /\ links \in 0..MaxLinks
      /\ DOMAIN done = Arm!Callers /\ None \notin Nat /\ Arm!Links \subseteq Nat
      /\ MaxLinks \in Nat
  BY ArmTypes DEF ArmInv
<1>2. /\ device' \in Seq(Jobs) /\ done' \in [Arm!Callers -> Results]
      /\ Gated' /\ Waits' /\ Switches'
  BY ArmFinishes
<1>3. Arm!TypeOK'
  <2>1. /\ gate' \in Gates /\ driver' \in Arm!Links \cup {None} /\ switch' \in SwitchStates
        /\ action' \in ActionStates /\ halt' \in BOOLEAN
        /\ watcher' \in {"sleep", "read", "cancelled"}
        /\ closing' \in {"no", "asked", "journal", "driver", "shut"}
    BY <1>1, ArmTypes
  <2> QED
    BY <1>2, <2>1, ArmTypesNext
<1>4. device' = Tail(device)
  BY DEF Arm!Finish
<1>5. ASSUME switch.at = "connect", done'["switch"] # "none"
      PROVE  done'["switch"] = "failed" \/ (done'["switch"] = "done" /\ Linked(links)')
  <2>1. /\ Head(device).who = "switch" => done'["switch"] = ends
        /\ Head(device).who # "switch" => done'["switch"] = done["switch"]
    BY <1>1, Finished DEF Arm!Callers
  <2>2. CASE Head(device).who = "switch"
    <3>1. ends = "failed" \/ (ends = "done" /\ links' \in open' /\ links' \notin 0..links)
      BY <1>5, <2>2, HeadIs
    <3>2. ASSUME links' \notin 0..links
          PROVE  \A i \in 1..Len(device') : device'[i].on # links'
      <4>1. \A i \in 1..Len(device') : device'[i] = device[i + 1] /\ i + 1 \in 1..Len(device)
        BY <1>1, <1>4, PopIs
      <4>2. \A i \in 1..Len(device) : device[i].on # links'
        <5> TAKE i \in 1..Len(device)
        <5>1. device[i].on \in Nat \cup {None} /\ (device[i].on # None => device[i].on <= links)
          BY <1>1, JobLinks DEF ArmInv, Linking
        <5>2. device[i].on = None \/ device[i].on \in 0..links
          BY <1>1, <5>1
        <5>3. links' # None
          BY <1>1
        <5> QED
          BY <3>2, <5>2, <5>3
      <4> QED
        BY <4>1, <4>2
    <3> QED
      BY <2>1, <2>2, <3>1, <3>2 DEF Linked
  <2>3. CASE Head(device).who # "switch"
    <3>1. done["switch"] = "failed" \/ (done["switch"] = "done" /\ Linked(links))
      BY <1>5, <2>1, <2>3 DEF ArmInv, Linking
    <3>2. links' = links
      BY <2>3, HeadIs
    <3>3. Linked(links) => Linked(links)'
      <4>1. \A l : Linked(l) => Linked(l)'
        BY <1>1, <1>4, LinkedStays
      <4> QED
        BY <3>2, <4>1 DEF Linked
    <3> QED
      BY <2>1, <2>3, <3>1, <3>3
  <2> QED
    BY <2>2, <2>3
<1>6. Linking'
  BY <1>1, <1>4, <1>5, LinksStay
<1> QED
  BY <1>2, <1>3, <1>6, AwaitsNext DEF ArmInv

\* The servo goes on, or stops; its job is not over.
LEMMA ArmMoves ==
  ASSUME ArmInv, arm' \in {"rest", "moving", "slowing"}, ArmAwaited',
         UNCHANGED <<gate, driver, switch, action, halt, watcher, closing, links, open, device, done>>
  PROVE  ArmInv'
<1>1. Arm!TypeOK'
  BY ArmTypesNext, ArmTypes DEF ArmInv
<1>2. Gated' /\ Switches'
  BY DEF ArmInv, Gated, Switches, Unasked, OneJob
<1>3. Waits'
  <2>1. Waits
    BY AwaitsIs DEF ArmInv
  <2> QED
    BY <2>1 DEF Waits, Unasked, OneJob
<1>4. Linking'
  BY DEF ArmInv, Linking, Linked
<1> QED
  BY <1>1, <1>2, <1>3, <1>4, AwaitsNext DEF ArmInv

\* A job that is not a motion ends.
LEMMA ArmStillAwaited ==
  ASSUME ArmInv, UNCHANGED <<gate, action, arm>>, device # <<>>, ~Arm!Doing("follow"),
         NEW ends, Arm!Finish(ends)
  PROVE  ArmAwaited'
<1> SUFFICES ASSUME gate.admission # "UNKNOWN", arm # "rest"
             PROVE  action.at = "following" /\ done'["action"] = "failed"
  BY DEF ArmAwaited
<1>1. Arm!TypeOK /\ device \in Seq(Jobs) /\ DOMAIN done = Arm!Callers
  BY ArmTypes DEF ArmInv
<1>2. action.at = "following" /\ done["action"] = "failed" /\ OneJob("action", "follow")
  BY DEF ArmInv, Awaits
<1>3. Unasked("action")
  BY <1>2 DEF OneJob
<1> QED
  BY <1>1, <1>2, <1>3, Finished DEF Arm!Callers

\* A motion ends with a failure: its coroutine will say so.
LEMMA MotionFails ==
  ASSUME ArmInv, UNCHANGED <<gate, action>>, Arm!Doing("follow"), Arm!Finish("failed")
  PROVE  ArmAwaited'
<1> SUFFICES ASSUME gate.admission # "UNKNOWN"
             PROVE  action.at = "following" /\ done'["action"] = "failed"
  BY DEF ArmAwaited
<1>1. Arm!TypeOK /\ device \in Seq(Jobs) /\ DOMAIN done = Arm!Callers /\ device # <<>>
  BY ArmTypes DEF ArmInv, Arm!Doing
<1>2. action.at = "following" /\ Head(device).who = "action"
  BY <1>1, HeadIs
<1> QED
  BY <1>1, <1>2, Finished DEF Arm!Callers

\* A motion goes on.
LEMMA MotionGoesOn ==
  ASSUME ArmInv, UNCHANGED <<gate, action, device, done>>, Arm!Doing("follow")
  PROVE  ArmAwaited'
<1>1. device # <<>>
  BY DEF Arm!Doing
<1>2. gate.admission # "UNKNOWN" => action.at = "following" /\ done["action"] = "none"
  BY <1>1, HeadIs
<1> QED
  BY <1>2 DEF ArmAwaited, Arm!Doing

LEMMA ArmDevice ==
  ASSUME ArmInv, Arm!Connects \/ Arm!Reads \/ Arm!Streams \/ Arm!ServoEnds \/ Arm!Rests \/ Arm!Closes
  PROVE  ArmInv'
<1>1. /\ Arm!TypeOK /\ links \in 0..MaxLinks /\ MaxLinks \in Nat /\ open \subseteq Arm!Links
      /\ arm \in {"rest", "moving", "slowing"} /\ Arm!Links \subseteq Nat /\ None \notin Nat
  BY ArmTypes DEF ArmInv
<1>2. \A l \in open : l <= links
  <2>1. \A l \in open : l # None => l <= links
    BY DEF ArmInv, Linking
  <2> QED
    BY <1>1, <2>1
<1>3. UNCHANGED <<gate, driver, switch, action, halt, watcher, closing>>
  BY DEF Arm!Connects, Arm!Reads, Arm!Streams, Arm!ServoEnds, Arm!Rests, Arm!Closes, Arm!loop
<1>4. links <= links
  BY <1>1
<1>5. CASE Arm!Connects
  <2>1. device # <<>> /\ Arm!Doing("connect") /\ ~Arm!Doing("follow") /\ arm' = arm
    BY <1>5 DEF Arm!Connects, Arm!Doing
  <2>2. CASE links < MaxLinks /\ links' = links + 1 /\ open' = open \cup {links + 1} /\ Arm!Finish("done")
    <3>1. /\ links' \in 0..MaxLinks /\ links <= links' /\ links' \in Arm!Links
          /\ links' \notin 0..links
      BY <1>1, <2>2 DEF Arm!Links
    <3>2. \A l \in open' : l <= links'
      <4>1. \A l \in open : l \in Nat
        BY <1>1
      <4> QED
        BY <1>1, <1>2, <2>2, <4>1
    <3>3. open' \subseteq Arm!Links /\ open \subseteq open' /\ links' \in open'
      BY <1>1, <2>2, <3>1
    <3>4. ArmAwaited'
      BY <1>3, <2>1, <2>2, ArmStillAwaited
    <3> QED
      BY <1>1, <1>3, <2>1, <2>2, <3>1, <3>2, <3>3, <3>4, ArmJobEnds DEF Results
  <2>3. CASE UNCHANGED <<links, open>> /\ Arm!Finish("failed")
    <3>1. ArmAwaited'
      BY <1>3, <2>1, <2>3, ArmStillAwaited
    <3> QED
      BY <1>1, <1>2, <1>3, <1>4, <2>1, <2>3, <3>1, ArmJobEnds DEF Results
  <2> QED
    BY <1>5, <2>2, <2>3 DEF Arm!Connects
<1>6. CASE Arm!Reads
  <2>1. device # <<>> /\ ~Arm!Doing("connect") /\ ~Arm!Doing("follow") /\ UNCHANGED <<arm, open, links>>
    BY <1>6 DEF Arm!Reads, Arm!Doing, Arm!robot
  <2>2. PICK s \in {"ready", "unready", "failed"} : Arm!Finish(s)
    BY <1>6 DEF Arm!Reads
  <2>3. ArmAwaited'
    BY <1>3, <2>1, <2>2, ArmStillAwaited
  <2> QED
    BY <1>1, <1>2, <1>3, <1>4, <2>1, <2>2, <2>3, ArmJobEnds DEF Results
<1>7. CASE Arm!Closes
  <2>1. /\ device # <<>> /\ Arm!Doing("close") /\ ~Arm!Doing("connect") /\ ~Arm!Doing("follow")
        /\ UNCHANGED <<arm, links>> /\ open' = open \ {Head(device).on} /\ Arm!Finish("done")
    BY <1>7 DEF Arm!Closes, Arm!Doing
  <2>2. ArmAwaited'
    BY <1>3, <2>1, ArmStillAwaited
  <2>3. open' \subseteq Arm!Links /\ \A l \in open' : l <= links'
    BY <1>1, <1>2, <2>1
  <2> QED
    BY <1>1, <1>3, <1>4, <2>1, <2>2, <2>3, ArmJobEnds DEF Results
<1>8. ASSUME Arm!Doing("follow"), Arm!Finish("failed"), arm' \in {"rest", "moving", "slowing"},
             UNCHANGED <<links, open>>
      PROVE  ArmInv'
  <2>1. device # <<>> /\ ~Arm!Doing("connect")
    BY <1>8 DEF Arm!Doing
  <2>2. ArmAwaited'
    BY <1>3, <1>8, MotionFails
  <2> QED
    BY <1>1, <1>2, <1>3, <1>4, <1>8, <2>1, <2>2, ArmJobEnds DEF Results
<1>9. ASSUME Arm!Doing("follow"), UNCHANGED <<device, done, links, open>>,
             arm' \in {"rest", "moving", "slowing"}
      PROVE  ArmInv'
  <2>1. ArmAwaited'
    BY <1>3, <1>9, MotionGoesOn
  <2> QED
    BY <1>3, <1>9, <2>1, ArmMoves
<1>10. CASE Arm!Streams
  BY <1>8, <1>9, <1>10 DEF Arm!Streams
<1>11. CASE Arm!ServoEnds
  BY <1>8, <1>9, <1>11 DEF Arm!ServoEnds
<1>12. CASE Arm!Rests
  <2>1. PICK now \in {"rest", "slowing"} :
          /\ arm' = now
          /\ IF ~Arm!Doing("follow") THEN UNCHANGED <<device, done>>
             ELSE Arm!Finish(IF Arm!AtRest(now) THEN IF halt THEN "stopped" ELSE "done" ELSE "failed")
    BY <1>12 DEF Arm!Rests
  <2>2. arm = "slowing" /\ UNCHANGED <<links, open>>
    BY <1>12 DEF Arm!Rests
  <2>3. CASE ~Arm!Doing("follow")
    <3>1. UNCHANGED <<device, done>>
      BY <2>1, <2>3
    <3>2. ArmAwaited'
      <4>1. ArmAwaited
        BY AwaitsIs DEF ArmInv
      <4> QED
        BY <1>3, <2>2, <3>1, <4>1 DEF ArmAwaited, Arm!Doing
    <3> QED
      BY <1>3, <2>1, <2>2, <3>1, <3>2, ArmMoves
  <2>4. CASE Arm!Doing("follow") /\ now = "slowing"
    <3>1. Arm!Finish("failed")
      BY <2>1, <2>4 DEF Arm!AtRest
    <3> QED
      BY <1>8, <2>1, <2>2, <2>4, <3>1
  <2>5. CASE Arm!Doing("follow") /\ now = "rest"
    <3>1. PICK r \in {"stopped", "done"} : Arm!Finish(r)
      BY <2>1, <2>5 DEF Arm!AtRest
    <3>2. ArmAwaited'
      BY <2>1, <2>5 DEF ArmAwaited
    <3>3. device # <<>> /\ ~Arm!Doing("connect")
      BY <2>5 DEF Arm!Doing
    <3> QED
      BY <1>1, <1>2, <1>3, <1>4, <2>1, <2>2, <2>5, <3>1, <3>2, <3>3, ArmJobEnds DEF Results
  <2> QED
    BY <2>1, <2>3, <2>4, <2>5
<1> QED
  BY <1>5, <1>6, <1>7, <1>10, <1>11, <1>12

(***************************************************************************)
(* The handler of an action.                                               *)
(***************************************************************************)

HandlerGate ==
  /\ gate' \in Gates /\ gate'.epoch = gate.epoch
  /\ gate'.active => gate.active /\ gate'.admission = gate.admission
  /\ gate'.admission \in {gate.admission, "UNKNOWN"}
  /\ action'.at # "no" => gate'.active

LEMMA ArmHandles ==
  ASSUME ArmInv, UNCHANGED <<driver, switch, closing, links, open, arm, watcher>>,
         HandlerGate, halt' \in BOOLEAN, action' \in ActionStates,
         action'.on \in {None, driver, action.on},
         action'.at # "no" => action'.on = driver \/ (action.at # "no" /\ action'.on = action.on),
         done' \in [Arm!Callers -> Results], done'["switch"] = done["switch"],
         device' = device \/ \E what \in {"read", "follow"}, on \in {driver, action.on} :
                                Arm!Push("action", what, on),
         Awaits'
  PROVE  ArmInv'
<1>1. /\ Arm!TypeOK /\ device \in Seq(Jobs) /\ driver \in Arm!Links \cup {None}
      /\ action \in ActionStates /\ switch \in SwitchStates /\ gate \in Gates
      /\ links \in 0..MaxLinks /\ Len(device) \in Nat
  BY ArmTypes DEF ArmInv
<1>2. {driver, action.on} \subseteq Arm!Links \cup {None}
  BY <1>1 DEF ActionStates
<1>3. /\ "action" \in Arm!Callers /\ "switch" \in Arm!Callers
      /\ {"read", "follow"} \subseteq JobKinds
  BY DEF Arm!Callers, JobKinds
<1>4. /\ device' \in Seq(Jobs)
      /\ Unasked("switch") => Unasked("switch")'
      /\ \A w : OneJob("switch", w) => OneJob("switch", w)'
      /\ \A i \in 1..Len(device') :
           (i \in 1..Len(device) /\ device'[i] = device[i]) \/
           (/\ device'[i].who = "action" /\ device'[i].job \in {"read", "follow"}
            /\ device'[i].on \in {driver, action.on})
  <2>1. CASE device' = device
    BY <1>1, <2>1 DEF Unasked, OneJob
  <2>2. CASE device' # device
    <3>1. PICK what \in {"read", "follow"}, on \in {driver, action.on} : Arm!Push("action", what, on)
      BY <2>2
    <3>2. what \in JobKinds /\ on \in Arm!Links \cup {None}
      BY <1>2, <1>3
    <3>3. /\ Unasked("switch") => Unasked("switch")'
          /\ \A w : OneJob("switch", w) => OneJob("switch", w)'
      BY <1>1, <1>3, <3>1, <3>2, OthersPush
    <3>4. /\ device' \in Seq(Jobs) /\ Len(device) \in Nat /\ Len(device') = Len(device) + 1
          /\ \A i \in 1..Len(device) : device'[i] = device[i]
          /\ device'[Len(device) + 1] = [who |-> "action", job |-> what, on |-> on]
      BY <1>1, <1>3, <3>1, <3>2, PushIs DEF Arm!Push
    <3>5. \A i \in 1..Len(device') : i \in 1..Len(device) \/ i = Len(device) + 1
      BY <3>4
    <3> QED
      BY <3>3, <3>4, <3>5
  <2> QED
    BY <2>1, <2>2
<1>5. Arm!TypeOK'
  <2>1. /\ driver' \in Arm!Links \cup {None} /\ switch' \in SwitchStates
        /\ links' \in 0..MaxLinks /\ open' \subseteq Arm!Links
        /\ arm' \in {"rest", "moving", "slowing"} /\ watcher' \in {"sleep", "read", "cancelled"}
        /\ closing' \in {"no", "asked", "journal", "driver", "shut"}
    BY <1>1, ArmTypes
  <2>2. gate' \in Gates
    BY DEF HandlerGate
  <2> QED
    BY <1>4, <2>1, <2>2, ArmTypesNext
<1>6. Gated'
  <2> DEFINE e == gate.epoch
             f == gate'.epoch
             s == switch.fenced
  <2>1. f = e
    BY Zenon DEF HandlerGate
  <2>2. switch.at # "no" => s <= e
    BY Zenon DEF ArmInv, Gated
  <2>3. switch.at # "no" => (e = s => gate.admission # "OPEN" /\ ~gate.active)
    BY Zenon DEF ArmInv, Gated
  <2>4. gate.active => gate.admission # "UNKNOWN"
    BY DEF ArmInv, Gated
  <2>5. /\ (action'.at # "no" => gate'.active)
        /\ (gate'.active => gate'.admission # "UNKNOWN")
    BY <2>4 DEF HandlerGate
  <2>6. switch'.at # "no" => s <= f
    BY <2>1, <2>2
  <2>7. switch'.at # "no" /\ f = s => gate'.admission # "OPEN" /\ ~gate'.active
    BY <2>1, <2>3 DEF HandlerGate
  <2> QED
    BY <2>5, <2>6, <2>7 DEF Gated
<1>7. Switches'
  BY <1>4 DEF ArmInv, Switches
<1>8. Linking'
  <2>1. Linking
    BY DEF ArmInv
  <2>2. \A l \in {driver, action.on} : l # None => l <= links
    BY <2>1 DEF Linking
  <2>3. \A i \in 1..Len(device') :
          /\ device'[i].on # None => device'[i].on <= links
          /\ device'[i].job = "connect" => device'[i].who = "switch"
          /\ device'[i].job = "follow" => device'[i].who = "action"
          /\ device'[i].job = "close" => i \in 1..Len(device) /\ device'[i] = device[i]
    BY <1>4, <2>1, <2>2 DEF Linking
  <2>4. \A l : Linked(l) => Linked(l)'
    BY <2>3 DEF Linked
  <2>5. \A l \in open' \cup {driver', action'.on, switch'.on} : l # None => l <= links'
    BY <2>1 DEF Linking
  <2>6. closing' \notin {"driver", "shut"} /\ action'.at # "no" => action'.on = driver'
    BY <2>1 DEF Linking
  <2>7. switch'.at = "connect" /\ done'["switch"] # "none" =>
          done'["switch"] = "failed" \/ (done'["switch"] = "done" /\ Linked(links)')
    <3>1. Linked(links) => Linked(links)'
      BY <2>4 DEF Linked
    <3> QED
      BY <2>1, <3>1 DEF Linking
  <2>8. /\ switch'.at \in {"connect", "read", "refuse", "release"} => driver' = None
        /\ closing' \notin {"driver", "shut"} /\ driver' # None => Linked(driver)'
        /\ switch'.at = "read" => Linked(switch.on)'
    <3>1. (Linked(driver) => Linked(driver)') /\ (Linked(switch.on) => Linked(switch.on)')
      BY <2>4 DEF Linked
    <3> QED
      BY <2>1, <3>1 DEF Linking
  <2> QED
    BY <2>3, <2>5, <2>6, <2>7, <2>8 DEF Linking
<1> QED
  BY <1>5, <1>6, <1>7, <1>8 DEF ArmInv

\* _execute, after the handler.
LEMMA OverIs ==
  ASSUME Arm!TypeOK, gate.active, NEW how, Arm!Over(how)
  PROVE  /\ HandlerGate /\ action' = Arm!Idle
         /\ how \in {"unknown", "cancelled"} => gate'.admission = "UNKNOWN"
<1> DEFINE e == gate.epoch
<1>1. gate \in Gates /\ e \in 1..ArmEpochs
  <2>1. gate \in Gates
    BY ArmTypes
  <2> QED
    BY <2>1 DEF Gates
<1>2. action' = Arm!Idle /\ action'.at = "no"
  BY DEF Arm!Over, Arm!Idle
<1>3. CASE how \in {"unknown", "cancelled"}
  <2>1. gate' = [Arm!Gate("UNKNOWN", e, FALSE) EXCEPT !.active = FALSE]
    BY <1>3 DEF Arm!Over
  <2> HIDE DEF e
  <2>2. gate' \in Gates /\ gate'.epoch = e /\ ~gate'.active /\ gate'.admission = "UNKNOWN"
    BY <1>1, <2>1 DEF Arm!Gate, Gates, Admissions
  <2>3. gate'.epoch = gate.epoch
    BY <2>2 DEF e
  <2> QED
    BY <1>2, <2>2, <2>3 DEF HandlerGate
<1>4. CASE how \notin {"unknown", "cancelled"}
  <2>1. gate' = [gate EXCEPT !.active = FALSE, !.confirmed = TRUE]
    BY <1>4 DEF Arm!Over
  <2>2. gate' \in Gates /\ gate'.epoch = gate.epoch /\ ~gate'.active /\ gate'.admission = gate.admission
    BY <1>1, <2>1 DEF Gates
  <2> QED
    BY <1>2, <1>4, <2>2 DEF HandlerGate
<1> QED
  BY <1>3, <1>4

\* What an action that runs finds of its jobs.
LEMMA ActionFinds ==
  ASSUME ArmInv, gate.active
  PROVE  /\ gate.admission # "UNKNOWN"
         /\ action.at \in {"no", "virtual", "step"} =>
              Unasked("action") /\ done["action"] = "none" /\ arm = "rest"
         /\ action.at \in {"reading", "final"} =>
              arm = "rest" /\ (done["action"] # "none" => Unasked("action"))
         /\ action.at = "following" /\ done["action"] # "none" =>
              Unasked("action") /\ (done["action"] = "failed" \/ arm = "rest")
<1>1. gate.admission # "UNKNOWN"
  BY DEF ArmInv, Gated
<1> QED
  BY <1>1 DEF ArmInv, Awaits, OneJob

LEMMA RestAwaits ==
  ASSUME Unasked("action"), UNCHANGED <<device, arm>>, done'["action"] = "none", arm = "rest",
         action'.at \in {"no", "virtual", "step"}
  PROVE  Awaits'
  BY DEF Awaits, Unasked

LEMMA AskAwaits ==
  ASSUME Arm!TypeOK, Unasked("action"), done'["action"] = "none", UNCHANGED arm, arm = "rest",
         NEW what \in {"read", "follow"}, NEW on \in Arm!Links \cup {None},
         Arm!Push("action", what, on),
         what = "read" => action'.at \in {"reading", "final"},
         what = "follow" => action'.at = "following"
  PROVE  Awaits'
<1>1. device \in Seq(Jobs) /\ "action" \in Arm!Callers /\ what \in JobKinds
  BY ArmTypes DEF JobKinds, Arm!Callers
<1>2. OneJob("action", what)'
  BY <1>1, OwnPush
<1>3. CASE what = "read"
  BY <1>2, <1>3 DEF Awaits
<1>4. CASE what = "follow"
  BY <1>2, <1>4 DEF Awaits
<1> QED
  BY <1>3, <1>4

LEMMA UnknownAwaits ==
  ASSUME gate'.admission = "UNKNOWN"
  PROVE  Awaits'
  BY DEF Awaits

\* take: its result is read, the other coroutines' are as they were.
LEMMA TakeIs ==
  ASSUME done \in [Arm!Callers -> Results], NEW c \in Arm!Callers, Arm!Take(c)
  PROVE  /\ done' \in [Arm!Callers -> Results] /\ done'[c] = "none"
         /\ \A d \in Arm!Callers : d # c => done'[d] = done[d]
  BY DEF Arm!Take, Results

\* The handler of an action goes on to its end.
LEMMA ArmOver ==
  ASSUME ArmInv, UNCHANGED <<driver, switch, closing, links, open, arm, watcher, device>>,
         gate.active, NEW how, Arm!Over(how), halt' \in BOOLEAN,
         done' \in [Arm!Callers -> Results], done'["switch"] = done["switch"],
         how \in {"unknown", "cancelled"} \/
           (Unasked("action") /\ done'["action"] = "none" /\ arm = "rest")
  PROVE  ArmInv'
<1>1. Arm!TypeOK
  BY DEF ArmInv
<1>2. /\ HandlerGate /\ action' = Arm!Idle
      /\ how \in {"unknown", "cancelled"} => gate'.admission = "UNKNOWN"
  BY <1>1, OverIs
<1>3. action' \in ActionStates /\ action'.on = None /\ action'.at = "no"
  BY <1>2 DEF Arm!Idle, ActionStates
<1>4. Awaits'
  BY <1>2, <1>3, RestAwaits, UnknownAwaits
<1> QED
  BY <1>2, <1>3, <1>4, ArmHandles

LEMMA StaysGate ==
  ASSUME gate \in Gates, gate' = gate, action'.at # "no" => gate.active
  PROVE  HandlerGate
  BY DEF HandlerGate

LEMMA ArmBegins ==
  ASSUME ArmInv, Arm!Begin
  PROVE  ArmInv'
<1>1. /\ Arm!TypeOK /\ gate.active /\ action.at = "no" /\ gate \in Gates
      /\ done \in [Arm!Callers -> Results] /\ driver \in Arm!Links \cup {None}
      /\ halt \in BOOLEAN /\ None \notin Arm!Links
  BY ArmTypes DEF ArmInv, Arm!Begin
<1>2. /\ Unasked("action") /\ done["action"] = "none" /\ arm = "rest"
      /\ UNCHANGED <<driver, switch, closing, links, open, arm, watcher, done>>
  BY <1>1, ActionFinds DEF Arm!Begin, Arm!robot
<1>3. CASE \E how \in {"stopped", "unknown"} : Arm!Over(how) /\ UNCHANGED <<device, halt>>
  BY <1>1, <1>2, <1>3, ArmOver
<1>4. CASE /\ UNCHANGED gate /\ halt' = FALSE
           /\ action' = [at |-> IF driver = None THEN "virtual" ELSE "reading", on |-> driver]
           /\ IF driver = None THEN UNCHANGED device ELSE Arm!Push("action", "read", driver)
  <2>1. /\ action' \in ActionStates /\ action'.on = driver
        /\ action'.at = (IF driver = None THEN "virtual" ELSE "reading")
    BY <1>1, <1>4 DEF ActionStates
  <2>2. HandlerGate
    BY <1>1, <1>4, StaysGate
  <2>3. Awaits'
    <3>1. CASE driver = None
      BY <1>2, <1>4, <2>1, <3>1, RestAwaits
    <3>2. CASE driver # None
      BY <1>1, <1>2, <1>4, <2>1, <3>2, AskAwaits
    <3> QED
      BY <3>1, <3>2
  <2> QED
    BY <1>1, <1>2, <1>4, <2>1, <2>2, <2>3, ArmHandles
<1> QED
  BY <1>3, <1>4 DEF Arm!Begin

LEMMA ArmVirtual ==
  ASSUME ArmInv, Arm!Virtual
  PROVE  ArmInv'
<1>1. /\ Arm!TypeOK /\ gate \in Gates /\ done \in [Arm!Callers -> Results] /\ halt \in BOOLEAN
      /\ action \in ActionStates /\ action.at \in {"virtual", "step"}
      /\ UNCHANGED <<driver, switch, halt, closing, links, open, arm, watcher, done, device>>
  BY ArmTypes DEF ArmInv, Arm!Virtual, Arm!robot
<1>2. gate.active
  BY <1>1 DEF ArmInv, Gated
<1>3. Unasked("action") /\ done["action"] = "none" /\ arm = "rest"
  BY <1>1, <1>2, ActionFinds
<1>4. CASE \E how \in {"stopped", "verified", "unknown"} : Arm!Over(how)
  BY <1>1, <1>2, <1>3, <1>4, ArmOver
<1>5. CASE UNCHANGED gate /\ \E a \in {"step", "virtual"} : action' = [action EXCEPT !.at = a]
  <2>1. /\ action' \in ActionStates /\ action'.on = action.on /\ action'.at \in {"step", "virtual"}
        /\ action.at # "no"
    BY <1>1, <1>5 DEF ActionStates
  <2>2. HandlerGate
    BY <1>1, <1>2, <1>5, StaysGate
  <2>3. Awaits'
    BY <1>1, <1>3, <2>1, RestAwaits
  <2> QED
    BY <1>1, <2>1, <2>2, <2>3, ArmHandles
<1> QED
  BY <1>4, <1>5 DEF Arm!Virtual

\* The result of its job is there: what the handler finds then.
LEMMA ActionResumes ==
  ASSUME ArmInv, action.at # "no", Arm!Take("action")
  PROVE  /\ Arm!TypeOK /\ gate.active /\ gate \in Gates /\ halt \in BOOLEAN
         /\ action \in ActionStates /\ action.on \in Arm!Links \cup {None}
         /\ done' \in [Arm!Callers -> Results] /\ done'["switch"] = done["switch"]
         /\ done'["action"] = "none"
<1>1. /\ Arm!TypeOK /\ gate \in Gates /\ halt \in BOOLEAN /\ action \in ActionStates
      /\ done \in [Arm!Callers -> Results]
  BY ArmTypes DEF ArmInv
<1>2. gate.active
  BY DEF ArmInv, Gated
<1>3. action.on \in Arm!Links \cup {None}
  BY <1>1 DEF ActionStates
<1>4. "action" \in Arm!Callers /\ "switch" \in Arm!Callers
  BY DEF Arm!Callers
<1> QED
  BY <1>1, <1>2, <1>3, <1>4, TakeIs

LEMMA ArmMeasured ==
  ASSUME ArmInv, Arm!Measured
  PROVE  ArmInv'
<1>1. /\ action.at = "reading" /\ done["action"] # "none" /\ Arm!Take("action")
      /\ UNCHANGED <<driver, switch, halt, closing, links, open, arm, watcher>>
  BY DEF Arm!Measured, Arm!robot
<1>2. /\ Arm!TypeOK /\ gate.active /\ gate \in Gates /\ halt \in BOOLEAN
      /\ action \in ActionStates /\ action.on \in Arm!Links \cup {None}
      /\ done' \in [Arm!Callers -> Results] /\ done'["switch"] = done["switch"]
      /\ done'["action"] = "none"
  BY <1>1, ActionResumes
<1>3. Unasked("action") /\ arm = "rest"
  BY <1>1, <1>2, ActionFinds
<1>4. CASE \E how \in {"unknown", "observed"} : Arm!Over(how) /\ UNCHANGED device
  BY <1>1, <1>2, <1>3, <1>4, ArmOver
<1>5. CASE /\ Arm!Push("action", "follow", action.on)
           /\ action' = [action EXCEPT !.at = "following"] /\ UNCHANGED gate
  <2>1. action' \in ActionStates /\ action'.on = action.on /\ action'.at = "following"
    BY <1>2, <1>5 DEF ActionStates
  <2>2. HandlerGate
    BY <1>2, <1>5, StaysGate
  <2>3. Awaits'
    BY <1>1, <1>2, <1>3, <1>5, <2>1, AskAwaits
  <2> QED
    BY <1>1, <1>2, <1>5, <2>1, <2>2, <2>3, ArmHandles
<1> QED
  BY <1>4, <1>5 DEF Arm!Measured

LEMMA ArmTracks ==
  ASSUME ArmInv, Arm!Track
  PROVE  ArmInv'
<1>1. /\ action.at = "following"
      /\ UNCHANGED <<driver, switch, closing, links, open, arm, watcher>>
  BY DEF Arm!Track, Arm!robot
<1>2. /\ Arm!TypeOK /\ gate \in Gates /\ halt \in BOOLEAN /\ action \in ActionStates
      /\ done \in [Arm!Callers -> Results]
  BY ArmTypes DEF ArmInv
<1>3. gate.active
  BY <1>1 DEF ArmInv, Gated
<1>4. CASE halt' = TRUE /\ UNCHANGED <<gate, action, device, done>>
  <2>1. HandlerGate
    BY <1>2, <1>3, <1>4, StaysGate
  <2>2. Awaits'
    BY <1>1, <1>4 DEF ArmInv, Awaits, Unasked, OneJob, Arm!Doing
  <2>3. action'.on = action.on /\ action'.at = action.at
    BY <1>4
  <2> QED
    BY <1>1, <1>2, <1>4, <2>1, <2>2, <2>3, ArmHandles
<1>5. CASE /\ Arm!Tracked /\ Arm!Take("action") /\ UNCHANGED halt
           /\ IF done["action"] = "failed" \/ closing = "shut"
              THEN Arm!Over("unknown") /\ UNCHANGED device
              ELSE /\ action' = [action EXCEPT !.at = "final"] /\ UNCHANGED gate
                   /\ Arm!Push("action", "read", action.on)
  <2>1. /\ action.on \in Arm!Links \cup {None}
        /\ done' \in [Arm!Callers -> Results] /\ done'["switch"] = done["switch"]
        /\ done'["action"] = "none"
    BY <1>1, <1>5, ActionResumes
  <2>2. CASE done["action"] = "failed" \/ closing = "shut"
    BY <1>1, <1>2, <1>3, <1>5, <2>1, <2>2, ArmOver
  <2>3. CASE ~(done["action"] = "failed" \/ closing = "shut")
    <3>1. Unasked("action") /\ arm = "rest"
      BY <1>1, <1>3, <1>5, <2>3, ActionFinds DEF Arm!Tracked
    <3>2. action' \in ActionStates /\ action'.on = action.on /\ action'.at = "final"
      BY <1>2, <1>5, <2>3 DEF ActionStates
    <3>3. HandlerGate
      BY <1>2, <1>3, <1>5, <2>3, StaysGate
    <3>4. Arm!Push("action", "read", action.on)
      BY <1>5, <2>3
    <3>5. Awaits'
      BY <1>1, <1>2, <2>1, <3>1, <3>2, <3>4, AskAwaits
    <3> QED
      BY <1>1, <1>2, <1>5, <2>1, <3>2, <3>3, <3>4, <3>5, ArmHandles
  <2> QED
    BY <2>2, <2>3
<1>6. CASE halt' = TRUE /\ Arm!Over("unknown") /\ UNCHANGED <<device, done>>
  <2>1. done' \in [Arm!Callers -> Results] /\ done'["switch"] = done["switch"]
    BY <1>2, <1>6
  <2> QED
    BY <1>1, <1>2, <1>3, <1>6, <2>1, ArmOver
<1> QED
  BY <1>4, <1>5, <1>6 DEF Arm!Track

LEMMA ArmVerified ==
  ASSUME ArmInv, Arm!Verified \/ Arm!Cancelled
  PROVE  ArmInv'
<1>1. /\ action.at # "no" /\ Arm!Take("action")
      /\ UNCHANGED <<driver, switch, closing, links, open, arm, watcher, device>>
  BY DEF Arm!Verified, Arm!Cancelled, Arm!robot
<1>2. /\ Arm!TypeOK /\ gate.active /\ halt \in BOOLEAN
      /\ done' \in [Arm!Callers -> Results] /\ done'["switch"] = done["switch"]
      /\ done'["action"] = "none"
  BY <1>1, ActionResumes
<1>3. CASE Arm!Verified
  <2>1. Unasked("action") /\ arm = "rest"
    BY <1>2, <1>3, ActionFinds DEF Arm!Verified
  <2>2. UNCHANGED halt /\ \E how \in {"unknown", "verified"} : Arm!Over(how)
    BY <1>3 DEF Arm!Verified
  <2> QED
    BY <1>1, <1>2, <2>1, <2>2, ArmOver
<1>4. CASE Arm!Cancelled
  <2>1. Arm!Over("cancelled")
    BY <1>4 DEF Arm!Cancelled
  <2>2. halt' \in BOOLEAN
    BY <1>4 DEF Arm!Cancelled
  <2> QED
    BY <1>1, <1>2, <2>1, <2>2, ArmOver
<1> QED
  BY <1>3, <1>4

(***************************************************************************)
(* The mode switch, the monitor and close.                                 *)
(***************************************************************************)

\* A job for another coroutine than the handler's.
Asks ==
  \/ device' = device
  \/ \E c \in {"switch", "watcher", "close"}, what \in {"connect", "read", "close"},
        on \in Arm!Links \cup {None} :
       /\ Arm!Push(c, what, on)
       /\ on # None => on <= links
       /\ what = "connect" => c = "switch"

LEMMA AsksTypes ==
  ASSUME ArmInv, Asks, UNCHANGED links
  PROVE  /\ device' \in Seq(Jobs)
         /\ \A i \in 1..Len(device') :
              /\ device'[i].on # None => device'[i].on <= links'
              /\ device'[i].job = "connect" => device'[i].who = "switch"
              /\ device'[i].job = "follow" => device'[i].who = "action"
<1>1. device \in Seq(Jobs) /\ {"connect", "read", "close"} \subseteq JobKinds
  BY ArmTypes DEF ArmInv, JobKinds
<1>2. {"switch", "watcher", "close"} \subseteq Arm!Callers
  BY DEF Arm!Callers
<1>3. \A i \in 1..Len(device) :
        /\ device[i].on # None => device[i].on <= links'
        /\ device[i].job = "connect" => device[i].who = "switch"
        /\ device[i].job = "follow" => device[i].who = "action"
  BY DEF ArmInv, Linking
<1>4. CASE device' = device
  BY <1>1, <1>3, <1>4
<1>5. CASE device' # device
  <2>1. PICK c \in {"switch", "watcher", "close"}, what \in {"connect", "read", "close"},
             on \in Arm!Links \cup {None} :
          /\ Arm!Push(c, what, on)
          /\ on # None => on <= links
          /\ what = "connect" => c = "switch"
    BY <1>5 DEF Asks
  <2>2. /\ device' \in Seq(Jobs) /\ Len(device) \in Nat /\ Len(device') = Len(device) + 1
        /\ \A i \in 1..Len(device) : device'[i] = device[i]
        /\ device'[Len(device) + 1] = [who |-> c, job |-> what, on |-> on]
    BY <1>1, <1>2, <2>1, PushIs DEF Arm!Push
  <2>3. \A i \in 1..Len(device') : i \in 1..Len(device) \/ i = Len(device) + 1
    BY <2>2
  <2> QED
    BY <1>3, <2>1, <2>2, <2>3
<1> QED
  BY <1>4, <1>5

LEMMA AsksAwait ==
  ASSUME ArmInv, Asks, UNCHANGED <<action, arm>>, done'["action"] = done["action"],
         gate'.admission # "UNKNOWN" => gate.admission # "UNKNOWN"
  PROVE  Awaits'
<1>1. device \in Seq(Jobs) /\ {"connect", "read", "close"} \subseteq JobKinds
  BY ArmTypes DEF ArmInv, JobKinds
<1>2. {"switch", "watcher", "close"} \subseteq Arm!Callers /\ "action" \in Arm!Callers
  BY DEF Arm!Callers
<1>3. /\ Unasked("action") => Unasked("action")'
      /\ \A w : OneJob("action", w) => OneJob("action", w)'
      /\ Arm!Doing("follow") => Arm!Doing("follow")'
  <2>1. CASE device' = device
    BY <2>1 DEF Unasked, OneJob, Arm!Doing
  <2>2. CASE device' # device
    <3>1. PICK c \in {"switch", "watcher", "close"}, what \in {"connect", "read", "close"},
               on \in Arm!Links \cup {None} : Arm!Push(c, what, on)
      BY <2>2 DEF Asks
    <3>2. /\ Unasked("action") => Unasked("action")'
          /\ \A w : OneJob("action", w) => OneJob("action", w)'
      BY <1>1, <1>2, <3>1, OthersPush
    <3>3. Arm!Doing("follow") => Arm!Doing("follow")'
      BY <1>1, <1>2, <3>1, PushIs DEF Arm!Push
    <3> QED
      BY <3>2, <3>3
  <2> QED
    BY <2>1, <2>2
<1> QED
  BY <1>3 DEF ArmInv, Awaits

LEMMA AsksLinked ==
  ASSUME device \in Seq(Jobs), UNCHANGED open, NEW l, Linked(l),
         \/ device' = device
         \/ \E c \in Arm!Callers, what \in JobKinds, on \in Arm!Links \cup {None} :
              Arm!Push(c, what, on) /\ (what = "close" => on # l)
  PROVE  Linked(l)'
<1>1. CASE device' = device
  BY <1>1 DEF Linked
<1>2. CASE device' # device
  <2>1. PICK c \in Arm!Callers, what \in JobKinds, on \in Arm!Links \cup {None} :
          Arm!Push(c, what, on) /\ (what = "close" => on # l)
    BY <1>2
  <2>2. /\ device' \in Seq(Jobs) /\ Len(device) \in Nat /\ Len(device') = Len(device) + 1
        /\ \A i \in 1..Len(device) : device'[i] = device[i]
        /\ device'[Len(device) + 1] = [who |-> c, job |-> what, on |-> on]
    BY <2>1, PushIs DEF Arm!Push
  <2>3. \A i \in 1..Len(device') : i \in 1..Len(device) \/ i = Len(device) + 1
    BY <2>2
  <2> QED
    BY <2>1, <2>2, <2>3 DEF Linked
<1> QED
  BY <1>1, <1>2

\* A job of another coroutine than the switch's.
LEMMA AsksSwitch ==
  ASSUME ArmInv, UNCHANGED switch, done'["switch"] = done["switch"],
         \/ device' = device
         \/ \E c \in {"watcher", "close"}, what \in {"read", "close"}, on \in Arm!Links \cup {None} :
              Arm!Push(c, what, on)
  PROVE  Switches'
<1>1. device \in Seq(Jobs) /\ {"read", "close"} \subseteq JobKinds
  BY ArmTypes DEF ArmInv, JobKinds
<1>2. {"watcher", "close"} \subseteq Arm!Callers /\ "switch" \in Arm!Callers
  BY DEF Arm!Callers
<1>3. /\ Unasked("switch") => Unasked("switch")'
      /\ \A w : OneJob("switch", w) => OneJob("switch", w)'
  <2>1. CASE device' = device
    BY <2>1 DEF Unasked, OneJob
  <2>2. CASE device' # device
    <3>1. PICK c \in {"watcher", "close"}, what \in {"read", "close"}, on \in Arm!Links \cup {None} :
            Arm!Push(c, what, on)
      BY <2>2
    <3> QED
      BY <1>1, <1>2, <3>1, OthersPush
  <2> QED
    BY <2>1, <2>2
<1> QED
  BY <1>3 DEF ArmInv, Switches

LEMMA ArmMonitors ==
  ASSUME ArmInv, Arm!Monitor
  PROVE  ArmInv'
<1>1. /\ Arm!TypeOK /\ done \in [Arm!Callers -> Results] /\ driver \in Arm!Links \cup {None}
      /\ device \in Seq(Jobs)
  BY ArmTypes DEF ArmInv
<1>2. UNCHANGED <<gate, driver, switch, action, halt, closing, links, open, arm>>
  BY DEF Arm!Monitor, Arm!robot
<1>3. /\ "watcher" \in Arm!Callers /\ "action" \in Arm!Callers /\ "switch" \in Arm!Callers
      /\ "read" \in JobKinds
  BY DEF Arm!Callers, JobKinds
<1>4. /\ watcher' \in {"sleep", "read"} /\ done' \in [Arm!Callers -> Results]
      /\ done'["action"] = done["action"] /\ done'["switch"] = done["switch"]
      /\ device' = device \/ (driver # None /\ Arm!Push("watcher", "read", driver))
  <2>1. CASE watcher' = "read" /\ Arm!Push("watcher", "read", driver) /\ UNCHANGED done /\ driver # None
    BY <1>1, <2>1
  <2>2. CASE Arm!Take("watcher") /\ watcher' = "sleep" /\ UNCHANGED device
    BY <1>1, <1>3, <2>2, TakeIs
  <2> QED
    BY <2>1, <2>2 DEF Arm!Monitor
<1>5. driver # None => driver <= links
  BY DEF ArmInv, Linking
<1>6. Asks
  BY <1>1, <1>4, <1>5 DEF Asks
<1>7. Awaits'
  BY <1>2, <1>4, <1>6, AsksAwait
<1>8. Switches'
  BY <1>1, <1>2, <1>4, AsksSwitch
<1>9. Gated'
  BY <1>2 DEF ArmInv, Gated
<1>10. Arm!TypeOK'
  <2>1. device' \in Seq(Jobs)
    BY <1>2, <1>6, AsksTypes
  <2> QED
    BY <1>1, <1>2, <1>4, <2>1, ArmTypes, ArmTypesNext
<1>11. Linking'
  <2>1. Linking
    BY DEF ArmInv
  <2>2. \A i \in 1..Len(device') :
          /\ device'[i].on # None => device'[i].on <= links'
          /\ device'[i].job = "connect" => device'[i].who = "switch"
          /\ device'[i].job = "follow" => device'[i].who = "action"
    BY <1>2, <1>6, AsksTypes
  <2>3. \A l : Linked(l) => Linked(l)'
    <3> SUFFICES ASSUME NEW l, Linked(l) PROVE Linked(l)'
      OBVIOUS
    <3> QED
      BY <1>1, <1>2, <1>3, <1>4, AsksLinked
  <2>4. /\ Linked(driver) => Linked(driver)'
        /\ Linked(links) => Linked(links)'
        /\ Linked(switch.on) => Linked(switch.on)'
    BY <1>2, <2>3 DEF Linked
  <2> QED
    BY <1>2, <1>4, <2>1, <2>2, <2>4 DEF Linking
<1> QED
  BY <1>7, <1>8, <1>9, <1>10, <1>11 DEF ArmInv

LEMMA ArmCloses ==
  ASSUME ArmInv, Arm!CloseBackend
  PROVE  ArmInv'
<1>1. /\ Arm!TypeOK /\ done \in [Arm!Callers -> Results] /\ driver \in Arm!Links \cup {None}
      /\ device \in Seq(Jobs)
  BY ArmTypes DEF ArmInv
<1>2. /\ UNCHANGED <<gate, switch, action, halt, links, open, arm>>
      /\ closing = "journal" /\ closing' = "driver" /\ watcher' = "cancelled" /\ driver' = None
      /\ Arm!Take("watcher")
      /\ IF driver = None THEN UNCHANGED device ELSE Arm!Push("close", "close", driver)
  BY DEF Arm!CloseBackend, Arm!robot
<1>3. /\ "watcher" \in Arm!Callers /\ "action" \in Arm!Callers /\ "switch" \in Arm!Callers
  BY DEF Arm!Callers
<1>4. /\ done' \in [Arm!Callers -> Results]
      /\ done'["action"] = done["action"] /\ done'["switch"] = done["switch"]
  BY <1>1, <1>2, <1>3, TakeIs
<1>5. driver # None => driver <= links
  BY DEF ArmInv, Linking
<1>6. Asks
  BY <1>1, <1>2, <1>5 DEF Asks
<1>7. Awaits'
  BY <1>2, <1>4, <1>6, AsksAwait
<1>8. Switches'
  BY <1>1, <1>2, <1>4, AsksSwitch
<1>9. Gated'
  BY <1>2 DEF ArmInv, Gated
<1>10. Arm!TypeOK'
  <2>1. device' \in Seq(Jobs)
    BY <1>2, <1>6, AsksTypes
  <2> QED
    BY <1>1, <1>2, <1>4, <2>1, ArmTypes, ArmTypesNext
<1>11. Linking'
  <2>1. Linking
    BY DEF ArmInv
  <2>2. \A i \in 1..Len(device') :
          /\ device'[i].on # None => device'[i].on <= links'
          /\ device'[i].job = "connect" => device'[i].who = "switch"
          /\ device'[i].job = "follow" => device'[i].who = "action"
    BY <1>2, <1>6, AsksTypes
  <2>3. \A l \in open' \cup {driver', action'.on, switch'.on} : l # None => l <= links'
    BY <1>2, <2>1 DEF Linking
  <2>4. switch.at \in {"connect", "read"} => UNCHANGED device
    BY <1>2, <2>1 DEF Linking
  <2>5. switch'.at = "connect" /\ done'["switch"] # "none" =>
          done'["switch"] = "failed" \/ (done'["switch"] = "done" /\ Linked(links)')
    BY <1>2, <1>4, <2>1, <2>4 DEF Linking, Linked
  <2>6. switch'.at = "read" => Linked(switch.on)'
    BY <1>2, <2>1, <2>4 DEF Linking, Linked
  <2> QED
    BY <1>2, <2>2, <2>3, <2>5, <2>6 DEF Linking
<1> QED
  BY <1>7, <1>8, <1>9, <1>10, <1>11 DEF ArmInv

LEMMA ArmDone ==
  ASSUME ArmInv, Arm!Done, Unasked("switch"), done' \in [Arm!Callers -> Results],
         done'["switch"] = "none", done'["action"] = done["action"],
         UNCHANGED <<driver, action, halt, watcher, closing, links, open, arm, device>>
  PROVE  ArmInv'
<1>1. /\ Arm!TypeOK /\ gate \in Gates /\ switch \in SwitchStates /\ device \in Seq(Jobs)
  BY ArmTypes DEF ArmInv
<1>2. /\ switch' \in SwitchStates /\ switch'.at = "no" /\ switch'.on = None
  <2> DEFINE n == switch.fenced
  <2>1. n \in 0..ArmEpochs
    BY <1>1 DEF SwitchStates
  <2>2. switch' = [switch EXCEPT !.at = "no", !.on = None]
    BY DEF Arm!Done
  <2> QED
    BY <1>1, <2>1, <2>2 DEF SwitchStates
<1>3. /\ gate' \in Gates /\ gate'.active = gate.active /\ gate'.admission = gate.admission
  <2> DEFINE c == gate.admission # "UNKNOWN"
  <2>1. c \in BOOLEAN
    OBVIOUS
  <2>2. gate' = [gate EXCEPT !.confirmed = c]
    BY DEF Arm!Done
  <2> HIDE DEF c
  <2> QED
    BY <1>1, <2>1, <2>2 DEF Gates
<1>4. Arm!TypeOK'
  BY <1>1, <1>2, <1>3, ArmTypes, ArmTypesNext
<1>5. Gated'
  BY <1>2, <1>3 DEF ArmInv, Gated
<1>6. Awaits'
  <2>1. Asks
    BY DEF Asks
  <2> QED
    BY <1>3, <2>1, AsksAwait
<1>7. Switches'
  BY <1>2 DEF Switches, Unasked
<1>8. Linking'
  <2>1. Linking
    BY DEF ArmInv
  <2>2. \A l \in open' \cup {driver', action'.on, switch'.on} : l # None => l <= links'
    BY <1>2, <2>1 DEF Linking
  <2> QED
    BY <1>2, <2>1, <2>2 DEF Linking, Linked
<1> QED
  BY <1>4, <1>5, <1>6, <1>7, <1>8 DEF ArmInv

\* The result of its job is there: what the switch finds then.
LEMMA SwitchResumes ==
  ASSUME ArmInv, done["switch"] # "none", Arm!Take("switch"),
         switch.at \in {"connect", "read", "refuse", "release"}
  PROVE  /\ Arm!TypeOK /\ device \in Seq(Jobs) /\ switch \in SwitchStates
         /\ Unasked("switch") /\ driver = None
         /\ done' \in [Arm!Callers -> Results] /\ done'["switch"] = "none"
         /\ done'["action"] = done["action"]
<1>1. /\ Arm!TypeOK /\ device \in Seq(Jobs) /\ switch \in SwitchStates /\ done \in [Arm!Callers -> Results]
  BY ArmTypes DEF ArmInv
<1>2. Unasked("switch")
  BY DEF ArmInv, Switches, OneJob
<1>3. driver = None
  BY DEF ArmInv, Linking
<1>4. "action" \in Arm!Callers /\ "switch" \in Arm!Callers
  BY DEF Arm!Callers
<1> QED
  BY <1>1, <1>2, <1>3, <1>4, TakeIs

\* The switch goes on with another job, under the same fence.
LEMMA ArmAsksOn ==
  ASSUME ArmInv, switch.at \in {"connect", "read"}, Unasked("switch"), Arm!TypeOK,
         done' \in [Arm!Callers -> Results], done'["switch"] = "none",
         done'["action"] = done["action"],
         UNCHANGED <<gate, driver, action, halt, watcher, closing, links, open, arm>>,
         NEW leg \in {"read", "refuse"}, NEW on \in Arm!Links,
         switch' \in SwitchStates, switch'.at = leg, switch'.fenced = switch.fenced, switch'.on = on,
         Arm!Push("switch", IF leg = "read" THEN "read" ELSE "close", on),
         Linked(on)
  PROVE  ArmInv'
<1> DEFINE what == IF leg = "read" THEN "read" ELSE "close"
<1>1. /\ device \in Seq(Jobs) /\ "switch" \in Arm!Callers
      /\ what \in {"connect", "read", "close"} /\ what \in JobKinds /\ Arm!Push("switch", what, on)
  BY ArmTypes DEF Arm!Callers, JobKinds
<1> HIDE DEF what
<1>2. on <= links /\ on # None /\ driver = None /\ on \in open
  <2>1. None \notin Arm!Links
    BY ArmTypes
  <2>2. on \in open
    BY DEF Linked
  <2> QED
    BY <2>1, <2>2 DEF ArmInv, Linking
<1>3. Asks
  BY <1>1, <1>2 DEF Asks, what
<1>4. Awaits'
  BY <1>3, AsksAwait
<1>5. OneJob("switch", what)'
  BY <1>1, OwnPush
<1>6. Switches'
  BY <1>5 DEF Switches, what
<1>7. Gated'
  <2> DEFINE e == gate.epoch
             n == switch.fenced
  <2>1. n <= e
    BY Zenon DEF ArmInv, Gated
  <2>2. e = n => gate.admission # "OPEN" /\ ~gate.active
    BY Zenon DEF ArmInv, Gated
  <2>3. /\ (action.at # "no" => gate.active)
        /\ (gate.active => gate.admission # "UNKNOWN")
    BY DEF ArmInv, Gated
  <2>4. gate'.epoch = e /\ switch'.fenced = n
    OBVIOUS
  <2>5. switch'.fenced <= gate'.epoch
    BY <2>1, <2>4
  <2>6. gate'.epoch = switch'.fenced => gate'.admission # "OPEN" /\ ~gate'.active
    BY <2>2, <2>4
  <2> HIDE DEF e, n
  <2> QED
    BY <2>3, <2>5, <2>6 DEF Gated
<1>8. Arm!TypeOK'
  <2>1. device' \in Seq(Jobs)
    BY <1>3, AsksTypes
  <2>2. /\ gate' \in Gates /\ driver' \in Arm!Links \cup {None} /\ action' \in ActionStates
        /\ links' \in 0..MaxLinks /\ open' \subseteq Arm!Links /\ halt' \in BOOLEAN
        /\ arm' \in {"rest", "moving", "slowing"} /\ watcher' \in {"sleep", "read", "cancelled"}
        /\ closing' \in {"no", "asked", "journal", "driver", "shut"}
    BY ArmTypes
  <2> QED
    BY <2>1, <2>2, ArmTypesNext
<1>9. Linking'
  <2>1. Linking
    BY DEF ArmInv
  <2>2. \A i \in 1..Len(device') :
          /\ device'[i].on # None => device'[i].on <= links'
          /\ device'[i].job = "connect" => device'[i].who = "switch"
          /\ device'[i].job = "follow" => device'[i].who = "action"
    BY <1>3, AsksTypes
  <2>3. \A l \in open' \cup {driver', action'.on, switch'.on} : l # None => l <= links'
    BY <1>2, <2>1 DEF Linking
  <2>4. leg = "read" => Linked(on)'
    BY <1>1, AsksLinked DEF what
  <2>5. switch'.at = "read" => Linked(switch.on)'
    BY <2>4 DEF Linked
  <2> QED
    BY <1>2, <2>1, <2>2, <2>3, <2>5 DEF Linking
<1> QED
  BY <1>4, <1>6, <1>7, <1>8, <1>9 DEF ArmInv

LEMMA ArmSwitchStarts ==
  ASSUME ArmInv, Arm!SwitchStart
  PROVE  ArmInv'
<1>1. /\ Arm!TypeOK /\ done \in [Arm!Callers -> Results] /\ driver \in Arm!Links \cup {None}
      /\ device \in Seq(Jobs) /\ gate \in Gates /\ None \notin Arm!Links
      /\ action \in ActionStates
  BY ArmTypes DEF ArmInv
<1>2. /\ UNCHANGED <<action, halt, watcher, closing, links, open, arm, done>>
      /\ switch.at = "no" /\ ~gate.active /\ gate.admission # "UNKNOWN" /\ driver' = None
  BY DEF Arm!SwitchStart, Arm!robot, Arm!Switching
<1> DEFINE what == IF driver = None THEN "connect" ELSE "close"
           e == gate.epoch + 1
<1>3. /\ Arm!Push("switch", what, driver) /\ what \in {"connect", "read", "close"} /\ what \in JobKinds
      /\ "switch" \in Arm!Callers
  BY DEF Arm!SwitchStart, JobKinds, Arm!Callers
<1>4. driver # None => driver <= links
  BY DEF ArmInv, Linking
<1>5. Asks
  BY <1>1, <1>3, <1>4 DEF Asks
<1>6. e \in 1..ArmEpochs /\ e \in 0..ArmEpochs
  BY <1>1, ArmTypes DEF Gates, Arm!SwitchStart
<1>7. /\ gate' = Arm!Gate("HELD", e, FALSE)
      /\ switch' = [at |-> IF driver = None THEN "connect" ELSE "release", fenced |-> e, on |-> None]
  BY DEF Arm!SwitchStart
<1>8. e <= e
  BY <1>6
<1> HIDE DEF what, e
<1>9. /\ gate' \in Gates /\ gate'.epoch = e /\ ~gate'.active /\ gate'.admission = "HELD"
  BY <1>1, <1>2, <1>6, <1>7 DEF Gates, Admissions, Arm!Gate
<1>10. /\ switch' \in SwitchStates /\ switch'.fenced = e /\ switch'.on = None
       /\ switch'.at = (IF driver = None THEN "connect" ELSE "release")
  BY <1>6, <1>7 DEF SwitchStates
<1>11. Unasked("switch") /\ done["switch"] = "none"
  BY <1>2 DEF ArmInv, Switches
<1>12. Awaits'
  BY <1>2, <1>5, AsksAwait
<1>13. Switches'
  <2>1. ASSUME NEW w \in JobKinds, what = w PROVE OneJob("switch", w)'
    BY <1>1, <1>2, <1>3, <1>11, <2>1, OwnPush
  <2>2. CASE driver = None
    <3>1. OneJob("switch", "connect")'
      BY <1>3, <2>1, <2>2 DEF what
    <3> QED
      BY <1>10, <2>2, <3>1 DEF Switches
  <2>3. CASE driver # None
    <3>1. OneJob("switch", "close")'
      BY <1>3, <2>1, <2>3 DEF what
    <3> QED
      BY <1>10, <2>3, <3>1 DEF Switches
  <2> QED
    BY <2>2, <2>3
<1>14. action.at = "no"
  BY <1>2 DEF ArmInv, Gated
<1>15. Gated'
  <2>1. switch'.fenced <= gate'.epoch
    BY <1>8, <1>9, <1>10
  <2>2. gate'.admission # "OPEN" /\ ~gate'.active /\ action'.at = "no"
    BY <1>2, <1>9, <1>14
  <2> QED
    BY <2>1, <2>2 DEF Gated
<1>16. Arm!TypeOK'
  <2>1. device' \in Seq(Jobs)
    BY <1>2, <1>5, AsksTypes
  <2> QED
    BY <1>1, <1>2, <1>9, <1>10, <2>1, ArmTypes, ArmTypesNext
<1>17. Linking'
  <2>1. Linking
    BY DEF ArmInv
  <2>2. \A i \in 1..Len(device') :
          /\ device'[i].on # None => device'[i].on <= links'
          /\ device'[i].job = "connect" => device'[i].who = "switch"
          /\ device'[i].job = "follow" => device'[i].who = "action"
    BY <1>2, <1>5, AsksTypes
  <2>3. \A l \in open' \cup {driver', action'.on, switch'.on} : l # None => l <= links'
    BY <1>2, <1>10, <2>1 DEF Linking
  <2> QED
    BY <1>2, <1>10, <1>11, <1>14, <2>2, <2>3 DEF Linking
<1> QED
  BY <1>12, <1>13, <1>15, <1>16, <1>17 DEF ArmInv

LEMMA ArmConnected ==
  ASSUME ArmInv, Arm!Connected
  PROVE  ArmInv'
<1>1. /\ switch.at = "connect" /\ done["switch"] # "none" /\ Arm!Take("switch")
      /\ UNCHANGED <<driver, action, halt, watcher, closing, links, open, arm>>
  BY DEF Arm!Connected, Arm!robot
<1>2. /\ Arm!TypeOK /\ device \in Seq(Jobs) /\ switch \in SwitchStates
      /\ Unasked("switch") /\ driver = None
      /\ done' \in [Arm!Callers -> Results] /\ done'["switch"] = "none"
      /\ done'["action"] = done["action"]
  BY <1>1, SwitchResumes
<1>3. CASE Arm!Done /\ UNCHANGED device
  BY <1>1, <1>2, <1>3, ArmDone
<1>4. CASE /\ done["switch"] # "failed"
           /\ switch' = [switch EXCEPT !.at = "read", !.on = links]
           /\ UNCHANGED gate /\ Arm!Push("switch", "read", links)
  <2>1. Linked(links)
    BY <1>1, <1>4 DEF ArmInv, Linking
  <2>2. links \in Arm!Links
    BY <1>2, <2>1, ArmTypes DEF Linked
  <2>3. /\ switch' \in SwitchStates /\ switch'.at = "read" /\ switch'.fenced = switch.fenced
        /\ switch'.on = links
    BY <1>2, <1>4, <2>2 DEF SwitchStates
  <2> QED
    BY <1>1, <1>2, <1>4, <2>1, <2>2, <2>3, ArmAsksOn
<1> QED
  BY <1>3, <1>4 DEF Arm!Connected

LEMMA ArmChecked ==
  ASSUME ArmInv, Arm!Checked
  PROVE  ArmInv'
<1>1. /\ switch.at = "read" /\ done["switch"] # "none" /\ Arm!Take("switch")
      /\ UNCHANGED <<action, halt, watcher, closing, links, open, arm>>
  BY DEF Arm!Checked, Arm!robot
<1>2. /\ Arm!TypeOK /\ device \in Seq(Jobs) /\ switch \in SwitchStates
      /\ Unasked("switch") /\ driver = None
      /\ done' \in [Arm!Callers -> Results] /\ done'["switch"] = "none"
      /\ done'["action"] = done["action"]
  BY <1>1, SwitchResumes
<1>3. Linked(switch.on) /\ switch.on \in Arm!Links /\ None \notin Arm!Links
  <2>1. Linked(switch.on)
    BY <1>1 DEF ArmInv, Linking
  <2> QED
    BY <1>2, <2>1, ArmTypes DEF Linked
<1>4. CASE Arm!Done /\ UNCHANGED <<driver, device>>
  BY <1>1, <1>2, <1>4, ArmDone
<1>5. CASE /\ switch' = [switch EXCEPT !.at = "refuse"] /\ UNCHANGED <<gate, driver>>
           /\ Arm!Push("switch", "close", switch.on)
  <2>1. /\ switch' \in SwitchStates /\ switch'.at = "refuse" /\ switch'.fenced = switch.fenced
        /\ switch'.on = switch.on
    BY <1>2, <1>5 DEF SwitchStates
  <2> QED
    BY <1>1, <1>2, <1>3, <1>5, <2>1, ArmAsksOn
<1>6. CASE /\ ~Arm!Interrupted
           /\ driver' = switch.on /\ switch' = [switch EXCEPT !.at = "mirror"]
           /\ UNCHANGED <<gate, device>>
  <2>1. /\ switch' \in SwitchStates /\ switch'.at = "mirror" /\ switch'.fenced = switch.fenced
        /\ switch'.on = switch.on
    BY <1>2, <1>6 DEF SwitchStates
  <2>2. gate.epoch = switch.fenced
    BY <1>6 DEF Arm!Interrupted
  <2>3. ~gate.active /\ gate.admission # "OPEN"
    BY <1>1, <2>2 DEF ArmInv, Gated
  <2>4. action.at = "no"
    BY <2>3 DEF ArmInv, Gated
  <2>5. switch.fenced <= gate.epoch
    BY <1>1 DEF ArmInv, Gated
  <2>6. Gated'
    <3>1. switch'.fenced <= gate'.epoch
      BY <1>6, <2>1, <2>5
    <3>2. gate'.admission # "OPEN" /\ ~gate'.active /\ action'.at = "no"
      BY <1>1, <1>6, <2>3, <2>4
    <3> QED
      BY <3>1, <3>2 DEF Gated
  <2>7. Awaits'
    <3>1. Asks
      BY <1>6 DEF Asks
    <3> QED
      BY <1>1, <1>2, <1>6, <3>1, AsksAwait
  <2>8. Switches'
    BY <1>2, <1>6, <2>1 DEF Switches, Unasked
  <2>9. Arm!TypeOK'
    BY <1>1, <1>2, <1>3, <1>6, <2>1, ArmTypes, ArmTypesNext
  <2>10. Linking'
    <3>1. Linking
      BY DEF ArmInv
    <3>2. \A i \in 1..Len(device') :
            /\ device'[i].on # None => device'[i].on <= links'
            /\ device'[i].job = "connect" => device'[i].who = "switch"
            /\ device'[i].job = "follow" => device'[i].who = "action"
      BY <1>1, <1>6, <3>1 DEF Linking
    <3>3. \A l \in open' \cup {driver', action'.on, switch'.on} : l # None => l <= links'
      BY <1>1, <1>6, <2>1, <3>1 DEF Linking
    <3>4. Linked(driver)'
      BY <1>1, <1>3, <1>6 DEF Linked
    <3> QED
      BY <1>1, <2>1, <2>4, <3>2, <3>3, <3>4 DEF Linking
  <2> QED
    BY <2>6, <2>7, <2>8, <2>9, <2>10 DEF ArmInv
<1>7. \/ Arm!Done /\ UNCHANGED <<driver, device>>
      \/ /\ switch' = [switch EXCEPT !.at = "refuse"] /\ UNCHANGED <<gate, driver>>
         /\ Arm!Push("switch", "close", switch.on)
      \/ /\ ~Arm!Interrupted
         /\ driver' = switch.on /\ switch' = [switch EXCEPT !.at = "mirror"]
         /\ UNCHANGED <<gate, device>>
  <2>1. CASE done["switch"] = "failed"
    BY <2>1 DEF Arm!Checked
  <2>2. CASE done["switch"] # "failed" /\ (done["switch"] = "unready" \/ Arm!Interrupted)
    BY <2>2 DEF Arm!Checked
  <2>3. CASE ~(done["switch"] = "failed") /\ ~(done["switch"] # "failed" /\ (done["switch"] = "unready" \/ Arm!Interrupted))
    BY <2>3 DEF Arm!Checked
  <2> QED
    BY <2>1, <2>2, <2>3
<1> QED
  BY <1>4, <1>5, <1>6, <1>7

LEMMA ArmSwitchEnds ==
  ASSUME ArmInv, Arm!SwitchEnds
  PROVE  ArmInv'
<1>1. /\ Arm!Done
      /\ UNCHANGED <<driver, action, halt, watcher, closing, links, open, arm, device>>
  BY DEF Arm!SwitchEnds, Arm!robot
<1>2. CASE switch.at = "mirror" /\ UNCHANGED done
  <2>1. Unasked("switch") /\ done["switch"] = "none"
    BY <1>2 DEF ArmInv, Switches
  <2>2. done \in [Arm!Callers -> Results]
    BY ArmTypes DEF ArmInv
  <2> QED
    BY <1>1, <1>2, <2>1, <2>2, ArmDone
<1>3. CASE switch.at \in {"refuse", "release"} /\ done["switch"] # "none" /\ Arm!Take("switch")
  <2>1. /\ Unasked("switch") /\ done' \in [Arm!Callers -> Results] /\ done'["switch"] = "none"
        /\ done'["action"] = done["action"]
    BY <1>3, SwitchResumes
  <2> QED
    BY <1>1, <2>1, ArmDone
<1> QED
  BY <1>2, <1>3 DEF Arm!SwitchEnds

LEMMA ArmStep == ArmInv /\ [Arm!Next]_ur => ArmInv'
<1> SUFFICES ASSUME ArmInv, [Arm!Next]_ur PROVE ArmInv'
  OBVIOUS
<1>1. CASE UNCHANGED ur
  <2>1. UNCHANGED <<gate, driver, links, open, device, done, switch, action, halt, arm, watcher, closing>>
    BY <1>1 DEF ur
  <2>2. Arm!TypeOK'
    BY <2>1, ArmTypes, ArmTypesNext DEF ArmInv
  <2>3. Gated' /\ Awaits' /\ Switches' /\ Linking'
    BY <2>1 DEF ArmInv, Gated, Awaits, Switches, Linking, Linked, Unasked, OneJob, Arm!Doing
  <2> QED
    BY <2>2, <2>3 DEF ArmInv
<1>2. CASE Arm!Next
  BY <1>2, ArmGates, ArmDevice, ArmBegins, ArmVirtual, ArmMeasured, ArmTracks, ArmVerified,
     ArmSwitchStarts, ArmConnected, ArmChecked, ArmSwitchEnds, ArmMonitors, ArmCloses DEF Arm!Next
<1> QED
  BY <1>1, <1>2

LEMMA ArmSafe == ArmInv => Arm!TypeOK /\ Arm!RestWhenSettled /\ Arm!SameDevice
<1> SUFFICES ASSUME ArmInv PROVE Arm!TypeOK /\ Arm!RestWhenSettled /\ Arm!SameDevice
  OBVIOUS
<1>1. Arm!TypeOK
  BY DEF ArmInv
<1>2. Arm!RestWhenSettled
  BY DEF ArmInv, Gated, Awaits, Arm!RestWhenSettled
<1>3. Arm!SameDevice
  BY DEF ArmInv, Linking, Linked, Arm!SameDevice
<1> QED
  BY <1>1, <1>2, <1>3
===============================================================================
