----------------------------- MODULE TaskExecution -----------------------------
(***************************************************************************)
(* One task on its nodes (runtime.py): _execute with a job per step, the   *)
(* attempts of a step and its one recovery, the fence a job puts up when   *)
(* it cannot tell what happened, and _finish_cancel.  Between the task and *)
(* NodeGate lie calls that can be lost, answered late, or carried out late *)
(* after their caller gave up.                                             *)
(*                                                                         *)
(* A job is suspended at                                                   *)
(*    "waiting"   for its dependencies and for the lock of its node        *)
(*    "context"   before it reads the context of its next attempt          *)
(*    "submit"    for the answer to its submission                         *)
(*    "poll"      polling the status of its action                         *)
(*    "recover"   before it decides to observe, "again" to repeat          *)
(*    "fence"     before it reads the state it wants to fence              *)
(*    "hold"      for the answer to its fence                              *)
(***************************************************************************)
EXTENDS Naturals, Sequences, FiniteSets

CONSTANTS
  Steps, Nodes, Robots, None,
  NodeOf,       \* bindings: the node of each step
  Plans,        \* the plans considered: the dependencies of each step, in order
  Recoverable,  \* the steps whose skill may observe once and repeat
  MaxTries,     \* 3 in the code: snapshots per fence
  MaxFaults,    \* bound: restarts, journal faults, other clients' controls, and
                \* calls that fail, are lost or are answered too late
  MaxCancels    \* bound: an UNKNOWN task may be cancelled again

ASSUME NodeAssumption == NodeOf \in [Steps -> Nodes] /\ Robots \subseteq Nodes
ASSUME PlanAssumption == Plans \subseteq [Steps -> Seq(Steps)]
ASSUME NoneAssumption == None \notin Steps \cup Nodes
ASSUME CallerAssumption == Steps \cap Nodes = {}
ASSUME BoundAssumption == MaxTries \in Nat /\ MaxFaults \in Nat /\ MaxCancels \in Nat
\* bindings has one node for the skill that observes.
ASSUME RecoveryAssumption == \A s, r \in Recoverable : NodeOf[s] = NodeOf[r]

Attempts == {"first", "observe", "retry"}
Actions == Steps \X Attempts
Home == [a \in Actions |-> NodeOf[a[1]]]

VARIABLES
  boot, epoch, admission, stopConfirmed, active, status,  \* see NodeGate
  state,      \* execution.state
  plan,       \* depends_on of each step
  executing,  \* _execute: "preflight", "steps", "done"
  authority,  \* task.authorities
  job,        \* the coroutine of each step
  outcome,    \* outcomes
  results,    \* execution.results
  tally,      \* results of _finish_cancel
  actions,    \* task.actions
  recovered,  \* recovered_task is this task
  released,   \* task.release_epochs
  finish,     \* _finish_cancel: "none", "fence", "wait", "release"
  side,       \* how far _finish_cancel is with each node
  wire,       \* calls that have not reached their node
  call,       \* the call each job, and _finish_cancel on each node, waits for
  faults, cancels,
  closedBy    \* history: who closed each node

INSTANCE NodeGate

nodes == <<boot, epoch, admission, stopConfirmed, active, status>>
env == <<nodes, closedBy>>
task == <<state, plan, executing, authority>>
cancelling == <<finish, side, tally, cancels>>
book == <<outcome, results, actions, recovered, released>>
agent == <<task, cancelling, book>>
net == <<wire, call>>
vars == <<env, agent, job, net, faults>>

-------------------------------------------------------------------------------
(* Types.                                                                  *)

Settled == {"SUCCEEDED", "FAILED", "CANCELLED"}
Outcomes == Known \cup {"none", "UNKNOWN", "STALE", "BLOCKED"}
Authority == [boot : Nat, epoch : Nat]
Message == [kind : {"submit", "hold", "allow"}, from : Steps \cup Nodes,
            action : Actions \cup {None}, node : Nodes, boot : Nat, epoch : Nat,
            no : 0 .. MaxCancels]
CallRecord == [msg : Message, open : BOOLEAN,
               answer : {"none", "accepted", "unknown", "refused"}]
ASSUME RecordAssumption ==
  /\ None \notin Actions /\ None \notin Nat
  /\ None \notin Authority /\ None \notin CallRecord

TypeOK ==
  /\ GateTypeOK
  /\ state \in {"RUNNING", "CANCELLING", "UNKNOWN"} \cup Settled
  /\ plan \in Plans
  /\ executing \in {"preflight", "steps", "done"}
  /\ authority \in [Nodes -> Authority \cup {None}]
  /\ job \in [Steps -> [pc : {"waiting", "context", "submit", "poll", "recover", "again",
                             "fence", "hold", "done"},
                        attempt : Attempts, tries : 0 .. MaxTries]]
  /\ outcome \in [Steps -> Outcomes]
  /\ results \in [Steps -> Outcomes] /\ tally \in [Steps -> Outcomes]
  /\ actions \subseteq Actions
  /\ recovered \in BOOLEAN
  /\ released \in [Nodes -> Nat \cup {None}]
  /\ finish \in {"none", "fence", "wait", "release"}
  /\ side \in [Nodes -> [pc : {"fence", "hold", "fenced", "failed", "stopped", "allow", "done"},
                         tries : 0 .. MaxTries, receipt : Nat, world : Nat, held : BOOLEAN]]
  /\ wire \subseteq Message
  /\ call \in [Steps \cup Nodes -> {None} \cup CallRecord]
  /\ faults \in 0 .. MaxFaults /\ cancels \in 0 .. MaxCancels
  /\ closedBy \in [Nodes -> {"nobody", "task", "other"}]

NewSide == [pc |-> "fence", tries |-> 0, receipt |-> 0, world |-> 0, held |-> FALSE]

\* TaskRuntime has activated the task; its nodes were discovered in boot 1.
Init ==
  /\ GateInit
  /\ state = "RUNNING"
  /\ plan \in Plans
  /\ executing = "preflight"
  /\ authority = [n \in Nodes |-> None]
  /\ job = [s \in Steps |-> [pc |-> "waiting", attempt |-> "first", tries |-> 0]]
  /\ outcome = [s \in Steps |-> "none"]
  /\ results = [s \in Steps |-> "none"] /\ tally = [s \in Steps |-> "none"]
  /\ actions = {}
  /\ recovered = FALSE
  /\ released = [n \in Nodes |-> None]
  /\ finish = "none"
  /\ side = [n \in Nodes |-> NewSide]
  /\ wire = {} /\ call = [x \in Steps \cup Nodes |-> None]
  /\ faults = 0 /\ cancels = 0
  /\ closedBy = [n \in Nodes |-> "nobody"]

-------------------------------------------------------------------------------
(* Calls.                                                                  *)

Active == state = "RUNNING"

Fault == faults < MaxFaults /\ faults' = faults + 1
NoFault == UNCHANGED faults

\* The present authority of a node, as a context or a snapshot shows it.
Shown(n) == [boot |-> boot[n], epoch |-> epoch[n]]

Send(kind, x, a, n, e) ==
  LET m == [kind |-> kind, from |-> x, action |-> a, node |-> n, boot |-> e.boot,
            epoch |-> e.epoch, no |-> cancels]
  IN /\ wire' = wire \cup {m}
     /\ call' = [call EXCEPT ![x] =
                   [msg |-> m, open |-> admission[n] = "OPEN", answer |-> "none"]]

\* x gives up or goes on; an answer that comes later finds nobody.
HangUp(x) == call' = [call EXCEPT ![x] = None] /\ UNCHANGED wire

Answered(x, answers) == call[x] # None /\ call[x].answer \in answers

Reply(m, answer) ==
  /\ wire' = wire \ {m}
  /\ call' = [call EXCEPT ![m.from] =
                IF @ # None /\ @.msg = m THEN [@ EXCEPT !.answer = answer] ELSE @]

\* A call reaches its node, whether or not its caller still waits.
DeliverSubmit(m) ==
  /\ m \in wire /\ m.kind = "submit"
  /\ \/ MayAdmit(m.action, m.boot, m.epoch) /\ Admit(m.action) /\ Reply(m, "accepted")
     \* Refused for its authority, an expired lease, a moved state version, a busy node.
     \/ Reply(m, "refused") /\ UNCHANGED nodes
  /\ UNCHANGED <<agent, job, faults, closedBy>>

DeliverHold(m) ==
  /\ m \in wire /\ m.kind = "hold"
  /\ LET n == m.node IN
     \/ /\ SameAuthority(n, m.boot, m.epoch)
        /\ Fenced(n)
        /\ Reply(m, IF active[n] = None /\ admission[n] = "UNKNOWN" THEN "unknown"
                    ELSE "accepted")
        /\ closedBy' = IF admission[n] # "OPEN" THEN closedBy
                       ELSE [closedBy EXCEPT ![n] =
                               IF authority[n] = Shown(n) THEN "task" ELSE "other"]
     \/ /\ ~SameAuthority(n, m.boot, m.epoch)
        /\ Reply(m, "refused")
        /\ UNCHANGED <<nodes, closedBy>>
  /\ UNCHANGED <<agent, job, faults>>

DeliverAllow(m) ==
  /\ m \in wire /\ m.kind = "allow"
  /\ \/ /\ SameAuthority(m.node, m.boot, m.epoch) /\ MayReopen(m.node)
        /\ Reopened(m.node) /\ Reply(m, "accepted")
     \* Refused for its authority, or because the state version has moved.
     \/ Reply(m, "refused") /\ UNCHANGED nodes
  /\ UNCHANGED <<agent, job, faults, closedBy>>

Deliver(m) == DeliverSubmit(m) \/ DeliverHold(m) \/ DeliverAllow(m)

-------------------------------------------------------------------------------
(* The nodes on their own, and their other clients.                        *)

NodeRuns(n) ==
  /\ ActionEnds(n)
  /\ UNCHANGED <<agent, job, net, faults, closedBy>>

NodeFault ==
  /\ Fault
  /\ \/ \E a \in Actions : LosesTrack(a) /\ UNCHANGED closedBy
     \/ \E n \in Nodes : Restarted(n) /\ closedBy' = [closedBy EXCEPT ![n] = "other"]
  /\ UNCHANGED <<agent, job, net>>

OtherClient ==
  /\ Fault
  /\ \E n \in Nodes :
       \/ Fenced(n) /\ closedBy' = [closedBy EXCEPT ![n] = "other"]
       \/ MayReopen(n) /\ Reopened(n) /\ closedBy' = [closedBy EXCEPT ![n] = "nobody"]
  /\ UNCHANGED <<agent, job, net>>

-------------------------------------------------------------------------------
(* _execute: the preflight, and the end.                                   *)

Capture(n) ==
  /\ executing = "preflight" /\ Active
  /\ authority[n] = None
  /\ boot[n] = 1 /\ admission[n] = "OPEN"
  /\ authority' = [authority EXCEPT ![n] = Shown(n)]
  /\ executing' = IF \A k \in Nodes \ {n} : authority[k] # None THEN "steps" ELSE executing
  /\ UNCHANGED <<env, state, plan, cancelling, book, job, net, faults>>

\* A node does not answer, has changed, or is not open; or the task is stopped.
PreflightEnds ==
  /\ executing = "preflight"
  /\ state' = IF Active THEN "FAILED" ELSE state
  /\ executing' = "done"
  /\ UNCHANGED <<env, plan, authority, cancelling, book, job, net, faults>>

\* Fault: a step that failed outweighs one whose outcome is unknown.
Verdict_failed_first ==
  LET values == {outcome[s] : s \in Steps} IN
    IF "FAILED" \in values THEN "FAILED"
    ELSE IF "UNKNOWN" \in values THEN "UNKNOWN"
    ELSE IF values # {"SUCCEEDED"} THEN "CANCELLED"
    ELSE "SUCCEEDED"
Verdict ==
  LET values == {outcome[s] : s \in Steps} IN
    IF "UNKNOWN" \in values THEN "UNKNOWN"
    ELSE IF "FAILED" \in values THEN "FAILED"
    ELSE IF values # {"SUCCEEDED"} THEN "CANCELLED"
    ELSE "SUCCEEDED"

ExecuteEnds ==
  /\ executing = "steps"
  /\ \A s \in Steps : job[s].pc = "done"
  /\ executing' = "done"
  /\ state' = IF Active THEN Verdict ELSE state
  /\ UNCHANGED <<env, plan, authority, cancelling, book, job, net, faults>>

-------------------------------------------------------------------------------
(* step_job, _run_step and _attempt.                                       *)

Goto(s, pc) == job' = [job EXCEPT ![s].pc = pc]
Id(s) == <<s, job[s].attempt>>

\* The results a client sees no longer change once the task is not active.
Finishes(s, o) ==
  /\ Goto(s, "done")
  /\ outcome' = [outcome EXCEPT ![s] = o]
  /\ results' = IF Active THEN outcome' ELSE results

StepEnds(s, o) == Finishes(s, o) /\ UNCHANGED <<actions, recovered, released>>

Succeeded(s) == job[s].pc = "done" /\ outcome[s] = "SUCCEEDED"

\* node_locks: one step at a time on each node.
\* Fault: the lock is not given back.
HoldsLock_kept(s) == job[s].pc # "waiting"
HoldsLock(s) == job[s].pc \in {"context", "submit", "poll", "recover", "again"}
LockFree(s) == \A r \in Steps \ {s} : NodeOf[r] = NodeOf[s] => ~HoldsLock(r)

StepBlocked(s) ==
  /\ executing = "steps" /\ job[s].pc = "waiting"
  /\ \E i \in DOMAIN plan[s] :
       /\ job[plan[s][i]].pc = "done" /\ ~Succeeded(plan[s][i])
       /\ \A j \in 1 .. (i - 1) : Succeeded(plan[s][j])
  /\ StepEnds(s, "BLOCKED")
  /\ UNCHANGED <<env, task, cancelling, net, faults>>

\* The inputs of a step are filled in and validated by its node.
\* Fault: a step does not wait for the steps it depends on.
Ready_at_once(s) == TRUE
Ready(s) == \A i \in DOMAIN plan[s] : Succeeded(plan[s][i])

StepStarts(s) ==
  /\ executing = "steps" /\ job[s].pc = "waiting"
  /\ Ready(s)
  /\ LockFree(s)
  /\ IF ~Active THEN StepEnds(s, "STALE")
     ELSE \/ Goto(s, "context") /\ UNCHANGED book
          \/ StepEnds(s, "FAILED")
  /\ UNCHANGED <<env, task, cancelling, net, faults>>

\* Fault: the authority of the preflight is not compared.
Bound_any(n) == TRUE
Bound(n) == Shown(n) = authority[n]

AttemptStarts(s) ==
  LET n == NodeOf[s] IN
  /\ job[s].pc = "context"
  /\ \/ Fault /\ StepEnds(s, "FAILED") /\ UNCHANGED net
     \/ (~Active \/ ~Bound(n)) /\ NoFault /\ StepEnds(s, "STALE") /\ UNCHANGED net
     \/ /\ Active /\ Bound(n) /\ NoFault
        /\ IF admission[n] = "OPEN"
           THEN Send("submit", s, Id(s), n, Shown(n)) /\ Goto(s, "submit") /\ UNCHANGED book
           ELSE StepEnds(s, "BLOCKED") /\ UNCHANGED net
  /\ UNCHANGED <<env, task, cancelling>>

\* task.actions has one entry per step; the recovery's observation has its own.
Recorded(s) ==
  (IF job[s].attempt = "retry" THEN actions \ {<<s, "first">>} ELSE actions) \cup {Id(s)}

\* The action is known to be on its node.
SubmitKnown(s) ==
  /\ actions' = Recorded(s)
  /\ IF Active THEN Goto(s, "poll") /\ UNCHANGED <<outcome, results>> ELSE Finishes(s, "STALE")
  /\ UNCHANGED <<recovered, released>>

\* Nobody can say what the action does: the node is to be fenced.
OutcomeUnknown(s) ==
  /\ actions' = Recorded(s)
  /\ IF Active
     THEN /\ job' = [job EXCEPT ![s].pc = "fence"]
          /\ outcome' = [outcome EXCEPT ![s] = "UNKNOWN"] /\ UNCHANGED results
     ELSE Finishes(s, "UNKNOWN")
  /\ UNCHANGED <<recovered, released>>

SubmitAnswered(s) ==
  /\ job[s].pc = "submit"
  /\ \/ Answered(s, {"accepted"}) /\ SubmitKnown(s)
     \/ Answered(s, {"refused"}) /\ StepEnds(s, "FAILED")
  /\ HangUp(s)
  /\ UNCHANGED <<env, task, cancelling, faults>>

\* No answer in time: ActionClient.submit asks for the status of the action,
\* and never submits it again.
SubmitUncertain(s) ==
  /\ job[s].pc = "submit"
  /\ Fault
  /\ \/ status[Id(s)] # "absent" /\ SubmitKnown(s)
     \/ OutcomeUnknown(s)
  /\ HangUp(s)
  /\ UNCHANGED <<env, task, cancelling>>

\* Fault: an action that was stopped is repeated as well.
Repeatable_stopped(r) == r \in {"FAILED", "CANCELLED"}
Repeatable(r) == r = "FAILED"

\* One recovery per task, after a failure whose reason allows it.
\* Fault: every attempt may recover again.
RecoveryLeft_always(s) == s \in Recoverable
RecoveryLeft(s) == s \in Recoverable /\ ~recovered /\ job[s].attempt = "first"

AttemptEnds(s, r) ==
  \/ StepEnds(s, r) /\ ~(job[s].attempt = "observe" /\ r = "SUCCEEDED")
  \/ Repeatable(r) /\ RecoveryLeft(s) /\ Goto(s, "recover") /\ UNCHANGED book
  \/ job[s].attempt = "observe" /\ r = "SUCCEEDED" /\ Goto(s, "again") /\ UNCHANGED book

\* A status query may fail, and an action may take longer than its skill may.
Poll(s) ==
  /\ job[s].pc = "poll"
  /\ IF ~Active THEN StepEnds(s, "STALE") /\ NoFault
     ELSE \/ status[Id(s)] \in Known /\ AttemptEnds(s, status[Id(s)]) /\ NoFault
          \/ status[Id(s)] \in {"absent"} \cup Unknown /\ OutcomeUnknown(s) /\ NoFault
          \/ OutcomeUnknown(s) /\ Fault
  /\ UNCHANGED <<env, task, cancelling, net>>

\* _recoverable_state.
Recovers(n) ==
  /\ Active
  /\ Bound(n) /\ admission[n] = "OPEN" /\ stopConfirmed[n] /\ active[n] = None

\* The failure stands, the task was stopped meanwhile, or the arm observes.
Recover(s) ==
  /\ job[s].pc = "recover"
  /\ \/ StepEnds(s, "FAILED")
     \/ ~Active /\ StepEnds(s, "STALE")
     \/ /\ Recovers(NodeOf[s])
        /\ recovered' = TRUE
        /\ job' = [job EXCEPT ![s].pc = "context", ![s].attempt = "observe"]
        /\ UNCHANGED <<outcome, results, actions, released>>
  /\ UNCHANGED <<env, task, cancelling, net, faults>>

Again(s) ==
  /\ job[s].pc = "again"
  /\ \/ StepEnds(s, "FAILED")
     \/ StepEnds(s, "BLOCKED")
     \/ /\ Recovers(NodeOf[s])
        /\ job' = [job EXCEPT ![s].pc = "context", ![s].attempt = "retry"]
        /\ UNCHANGED book
  /\ UNCHANGED <<env, task, cancelling, net, faults>>

-------------------------------------------------------------------------------
(* _fence, by a job and by _finish_cancel: read the state, ask for a hold   *)
(* of just that state, and start again if it has changed meanwhile.         *)

\* Fault: one snapshot too many.
TriesLeft_one_more(tries) == tries <= MaxTries
TriesLeft(tries) == tries < MaxTries

\* The task may later lift the hold, if it ended the authority it was given.
\* Fault: it may lift any hold it asked for.
Releases_any(c) == c.msg.node \in Robots
Releases(c) ==
  /\ c.msg.node \in Robots
  /\ c.open /\ authority[c.msg.node] = [boot |-> c.msg.boot, epoch |-> c.msg.epoch]

Released(c) ==
  IF Releases(c) THEN [released EXCEPT ![c.msg.node] = c.msg.epoch + 1] ELSE released

\* The outcome stays UNKNOWN, whether the node was fenced or not.
JobFenceEnds(s) ==
  /\ Goto(s, "done")
  /\ results' = IF Active THEN outcome ELSE results
  /\ UNCHANGED <<outcome, actions, recovered>>

JobFences(s) ==
  LET n == NodeOf[s]
      possible == TriesLeft(job[s].tries) /\ boot[n] = authority[n].boot
  IN
  /\ job[s].pc = "fence"
  /\ \/ JobFenceEnds(s) /\ UNCHANGED <<released, net>> /\ (Fault \/ (~possible /\ NoFault))
     \/ /\ possible /\ NoFault
        /\ Send("hold", s, None, n, Shown(n))
        /\ job' = [job EXCEPT ![s].pc = "hold", ![s].tries = @ + 1]
        /\ UNCHANGED book
  /\ UNCHANGED <<env, task, cancelling>>

JobFenced(s) ==
  /\ job[s].pc = "hold"
  /\ \/ /\ Answered(s, {"accepted", "unknown"}) /\ NoFault
        /\ JobFenceEnds(s) /\ released' = Released(call[s])
     \/ Answered(s, {"refused"}) /\ NoFault /\ Goto(s, "fence") /\ UNCHANGED book
     \/ Fault /\ JobFenceEnds(s) /\ UNCHANGED released
  /\ HangUp(s)
  /\ UNCHANGED <<env, task, cancelling>>

-------------------------------------------------------------------------------
(* cancel() and _finish_cancel.                                            *)

\* An UNKNOWN task may be cancelled again.
Cancel ==
  /\ state \in {"RUNNING", "UNKNOWN"}
  /\ cancels < MaxCancels /\ cancels' = cancels + 1
  /\ state' = "CANCELLING"
  /\ finish' = "fence"
  /\ side' = [n \in Nodes |-> NewSide]
  /\ UNCHANGED <<env, plan, executing, authority, tally, book, job, net, faults>>

Step(n, pc) == side' = [side EXCEPT ![n].pc = pc]
AllAt(pcs) == \A n \in Nodes : side[n].pc \in pcs

\* A node that was not captured yet is fenced under its present authority.
CancelFences(n) ==
  LET possible == TriesLeft(side[n].tries) /\ boot[n] = 1 IN
  /\ finish = "fence" /\ side[n].pc = "fence"
  /\ \/ Step(n, "failed") /\ UNCHANGED <<authority, net>> /\ (Fault \/ (~possible /\ NoFault))
     \/ /\ possible /\ NoFault
        /\ authority' = [authority EXCEPT ![n] = IF @ = None THEN Shown(n) ELSE @]
        /\ Send("hold", n, None, n, Shown(n))
        /\ side' = [side EXCEPT ![n].pc = "hold", ![n].tries = @ + 1]
  /\ UNCHANGED <<env, state, plan, executing, finish, tally, cancels, book, job>>

CancelFenced(n) ==
  /\ side[n].pc = "hold"
  /\ \/ /\ Answered(n, {"accepted"}) /\ NoFault
        /\ side' = [side EXCEPT ![n].pc = "fenced", ![n].receipt = call[n].msg.epoch + 1]
        /\ released' = Released(call[n])
     \/ Answered(n, {"unknown"}) /\ NoFault /\ Step(n, "failed") /\ released' = Released(call[n])
     \/ Answered(n, {"refused"}) /\ NoFault /\ Step(n, "fence") /\ UNCHANGED released
     \/ Fault /\ Step(n, "failed") /\ UNCHANGED released
  /\ HangUp(n)
  /\ UNCHANGED <<env, task, finish, tally, cancels, outcome, results, actions, recovered, job>>

\* Every node is fenced, and the submissions that were on the wire are over.
\* Fault: they are not waited for.
Submitting_ignored == {}
Submitting == {s \in Steps : job[s].pc = "submit"}

AllFenced ==
  /\ finish = "fence" /\ AllAt({"fenced"})
  /\ Submitting = {}
  /\ finish' = "wait"
  /\ UNCHANGED <<env, task, side, tally, cancels, book, job, net, faults>>

\* _wait_stopped.
Halted(n) == stopConfirmed[n] /\ active[n] = None

NodeStopped(n) ==
  /\ finish = "wait" /\ side[n].pc = "fenced"
  /\ boot[n] = authority[n].boot /\ admission[n] # "UNKNOWN"
  /\ Halted(n)
  /\ side' = [side EXCEPT ![n].pc = "stopped", ![n].world = epoch[n],
                          ![n].held = admission[n] = "HELD"]
  /\ UNCHANGED <<env, task, finish, tally, cancels, book, job, net, faults>>

\* The statuses of the actions decide; a step without one was cancelled.
Tally ==
  [s \in Steps |->
     IF <<s, "retry">> \in actions THEN status[<<s, "retry">>]
     ELSE IF <<s, "first">> \in actions THEN status[<<s, "first">>]
     ELSE IF results[s] # "none" THEN results[s] ELSE "CANCELLED"]

StatusesRead ==
  /\ finish = "wait" /\ AllAt({"stopped"})
  /\ \A a \in actions : status[a] \in Known
  /\ tally' = Tally
  /\ finish' = "release"
  /\ UNCHANGED <<env, task, side, cancels, book, job, net, faults>>

\* A node is opened again only if what holds it is the fence just put up.
Reopens(n) ==
  /\ n \in Robots /\ side[n].held
  /\ side[n].world = side[n].receipt /\ released[n] = side[n].receipt

Release(n) ==
  /\ finish = "release" /\ side[n].pc = "stopped"
  /\ \A k \in Nodes : side[k].pc # "allow"
  /\ IF Reopens(n)
     THEN /\ Step(n, "allow")
          /\ Send("allow", n, None, n, [boot |-> authority[n].boot, epoch |-> side[n].world])
     ELSE Step(n, "done") /\ UNCHANGED net
  /\ UNCHANGED <<env, task, finish, tally, cancels, book, job, faults>>

\* Whether the node followed is not looked at.
ReleaseAnswered(n) ==
  /\ side[n].pc = "allow"
  /\ Answered(n, {"accepted", "refused"})
  /\ Step(n, "done")
  /\ HangUp(n)
  /\ UNCHANGED <<env, task, finish, tally, cancels, book, job, faults>>

CancelEnds ==
  /\ finish = "release" /\ AllAt({"done"})
  /\ state' = "CANCELLED" /\ results' = tally
  /\ finish' = "none"
  /\ UNCHANGED <<env, plan, executing, authority, side, tally, cancels, outcome, actions,
                 recovered, released, job, net, faults>>

\* A node could not be fenced, a submission takes longer than three seconds, a
\* node or an action does not come to a known end in time, or a call is lost.
\* Fault: nothing limits the wait for a node to stop.
Unconfirmed_patient ==
  \/ /\ finish = "fence" /\ AllAt({"fenced", "failed"})
     /\ \E n \in Nodes : side[n].pc = "failed"
  \/ \E n \in Nodes : side[n].pc = "allow"
Unconfirmed ==
  \/ /\ finish = "fence" /\ AllAt({"fenced", "failed"})
     /\ \E n \in Nodes : side[n].pc = "failed"
  \/ finish = "fence" /\ AllAt({"fenced"}) /\ Submitting # {}
  \/ finish = "wait"
  \/ \E n \in Nodes : side[n].pc = "allow"

CancelFails ==
  /\ Unconfirmed
  /\ state' = "UNKNOWN"
  /\ finish' = "none"
  /\ side' = [n \in Nodes |-> NewSide]
  /\ call' = [x \in Steps \cup Nodes |-> IF x \in Nodes THEN None ELSE call[x]]
  /\ UNCHANGED <<env, plan, executing, authority, tally, cancels, book, job, wire, faults>>

-------------------------------------------------------------------------------
JobStep(s) ==
  \/ StepBlocked(s) \/ StepStarts(s) \/ AttemptStarts(s) \/ SubmitAnswered(s)
  \/ SubmitUncertain(s) \/ Poll(s) \/ Recover(s) \/ Again(s) \/ JobFences(s) \/ JobFenced(s)

ExecuteStep == (\E n \in Nodes : Capture(n)) \/ PreflightEnds \/ ExecuteEnds

CancelStep(n) ==
  CancelFences(n) \/ CancelFenced(n) \/ NodeStopped(n) \/ Release(n) \/ ReleaseAnswered(n)

FinishStep == AllFenced \/ StatusesRead \/ CancelEnds \/ CancelFails

Next ==
  \/ \E m \in wire : Deliver(m)
  \/ \E n \in Nodes : NodeRuns(n)
  \/ NodeFault
  \/ OtherClient
  \/ ExecuteStep
  \/ \E s \in Steps : JobStep(s)
  \/ Cancel
  \/ \E n \in Nodes : CancelStep(n)
  \/ FinishStep

\* The loop goes on; a call that is not lost is answered; a handler returns; and
\* every wait of _finish_cancel has a deadline.
Fairness ==
  /\ WF_vars(ExecuteStep)
  /\ \A s \in Steps : WF_vars(JobStep(s))
  /\ \A n \in Nodes : WF_vars(CancelStep(n)) /\ WF_vars(NodeRuns(n))
  /\ WF_vars(FinishStep)
  /\ WF_vars(\E m \in wire : Deliver(m))

Spec == Init /\ [][Next]_vars
FairSpec == Spec /\ Fairness

-------------------------------------------------------------------------------
(* Properties.                                                             *)

\* When the task is reported as settled, none of its actions is under way and
\* none can begin any more: a submission that still travels finds another
\* epoch, also at a node that was idle, that was opened again, or that never
\* answered (_finish_cancel; gather of the jobs in _execute).
SettledIsOver ==
  state \in Settled =>
    /\ \A a \in Actions : status[a] \notin {"RUNNING", "CANCELLING"}
    /\ \A m \in wire : m.kind = "submit" => ~SameAuthority(m.node, m.boot, m.epoch)

\* A settled task says of every step what the node says of its last action:
\* success is neither invented nor lost, whatever reply was lost or late.  (A
\* node may lose track of an action after that.)
ReportIsTrue ==
  state \in Settled =>
    \A s \in Steps :
      LET last == IF status[<<s, "retry">>] # "absent" THEN status[<<s, "retry">>]
                  ELSE status[<<s, "first">>]
      IN /\ results[s] = "SUCCEEDED" => last \in {"SUCCEEDED", "UNKNOWN"}
         /\ last = "SUCCEEDED" => results[s] = "SUCCEEDED"

\* The task only takes back its own fence, and only where it had closed the
\* node under the authority of its preflight: it never lifts the hold of
\* another client, a restart or a lost state (runtime.py, release_epochs).
LiftsOnlyOwnFence ==
  [][\A m \in wire \ wire' :
       m.kind = "allow" /\ admission[m.node] # "OPEN" /\ admission'[m.node] = "OPEN"
         => closedBy[m.node] = "task"]_vars

\* An action begins only after every step it depends on has succeeded, and only
\* if its node has been neither restarted nor fenced since the task's preflight,
\* although every call may be carried out late.
BegunAsPlanned ==
  [][\A a \in Actions :
       status[a] = "absent" /\ status'[a] = "RUNNING" =>
         /\ \A i \in DOMAIN plan[a[1]] : Succeeded(plan[a[1]][i])
         /\ authority[Home[a]] = Shown(Home[a])]_vars

\* A step is repeated once, and only after its first action is known to have
\* failed and the observation to have succeeded; one recovery per task.
RepeatedOnlyAfterFailure ==
  [][\A s \in Steps :
       /\ status[<<s, "retry">>] = "absent" /\ status'[<<s, "retry">>] = "RUNNING" =>
            status[<<s, "first">>] = "FAILED" /\ status[<<s, "observe">>] = "SUCCEEDED"
       /\ status[<<s, "observe">>] = "absent" /\ status'[<<s, "observe">>] = "RUNNING" =>
            \A r \in Steps : status[<<r, "observe">>] = "absent"]_vars

\* A task comes to an end, and so does a cancel: confirmed or not.
TaskEnds == state = "RUNNING" ~> state # "RUNNING"
CancelConverges == state = "CANCELLING" ~> state # "CANCELLING"
===============================================================================
