------------------------------ MODULE TaskRuntime ------------------------------
(***************************************************************************)
(* The Runtime of the agent node (runtime.py): which task is current, what *)
(* is queued behind it, which goal is being planned, and how start,        *)
(* enqueue, goal, cancel, interrupt and close interleave with the workers  *)
(* they spawn.  Everything runs on one asyncio loop, so a step is the code *)
(* between two awaits.  What a task does to its nodes is not here: its     *)
(* _execute and _finish_cancel coroutines end in every way they can.       *)
(*                                                                         *)
(* A task stands for the request that made it (the code keeps both ids; a  *)
(* request that is refused makes no task, and may be made again).  Retries *)
(* of an answered request get the stored answer and are no step.           *)
(***************************************************************************)
EXTENDS Naturals, Sequences, FiniteSets

CONSTANTS
  Tasks,            \* the tasks that can be created
  Goals,            \* the requests to goal()
  Handlers,         \* the two workers of the transport's normal inbox
  None,             \* no task, no goal, no call
  QueueCapacity,    \* 16 in the code
  RequestCapacity,  \* 4096 in the code: requests remembered, never forgotten
  ResultCapacity    \* 4096 in the code: tasks and goals remembered

ASSUME NoneAssumption == None \notin Tasks /\ None \notin Goals
ASSUME CapacityAssumption ==
  QueueCapacity \in Nat /\ RequestCapacity \in Nat /\ ResultCapacity \in Nat

VARIABLES
  task,       \* the current task
  state,      \* execution.state, the state of the current task
  records,    \* tasks[...]["state"], as last saved
  queued,     \* tasks waiting for the current one to succeed
  planning,   \* planning.request_id and planning.state
  goals,      \* goals[...]["state"]
  planner,    \* the coroutine _plan: its goal, where it is suspended, its task
  calls,      \* start() and enqueue() suspended in _discover, one per handler
  serial,     \* _control_serial: interrupts so far
  served,     \* len(requests)
  closed,
  executing,  \* where the coroutine _execute of each task is
  cancelling, \* the tasks whose coroutine _finish_cancel is under way
  born        \* history: the serial when the request for a task came in

current == <<task, state>>
tables == <<records, queued, goals>>
workers == <<planner, calls, executing, cancelling>>
vars == <<current, tables, planning, workers, serial, served, closed, born>>

-------------------------------------------------------------------------------
(* Types.                                                                  *)

Settled == {"SUCCEEDED", "FAILED", "CANCELLED"}
TaskStates == {"QUEUED", "RUNNING", "CANCELLING", "UNKNOWN"} \cup Settled
GoalStates == {"WAITING", "DONE", "ANSWER", "FAILED", "STALE", "REQUIRES_CONFIRMATION"}

Call == [kind : {"start", "enqueue"}, task : Tasks, previous : Tasks \cup {None},
         serial : Nat]
Planner == [goal : Goals, pc : {"thinking", "checking", "doubting", "executing"},
            wasRunning : BOOLEAN, serial : Nat, task : Tasks \cup {None},
            cancelled : BOOLEAN]

ASSUME RecordAssumption == None \notin Call /\ None \notin Planner

TypeOK ==
  /\ task \in Tasks \cup {None}
  /\ state \in {"IDLE"} \cup TaskStates
  /\ records \in [Tasks -> TaskStates \cup {"absent"}]
  /\ queued \in Seq(Tasks)
  /\ planning \in [id : Goals \cup {None}, state : GoalStates \cup {"IDLE"}]
  /\ goals \in [Goals -> GoalStates \cup {"absent"}]
  /\ planner \in Planner \cup {None}
  /\ calls \in [Handlers -> Call \cup {None}]
  /\ serial \in Nat /\ served \in Nat /\ closed \in BOOLEAN
  /\ executing \in [Tasks -> {"none", "preflight", "steps", "done"}]
  /\ cancelling \in SUBSET Tasks
  /\ born \in [Tasks -> Nat]

Init ==
  /\ task = None /\ state = "IDLE"
  /\ records = [t \in Tasks |-> "absent"]
  /\ queued = <<>>
  /\ planning = [id |-> None, state |-> "IDLE"]
  /\ goals = [g \in Goals |-> "absent"]
  /\ planner = None
  /\ calls = [h \in Handlers |-> None]
  /\ serial = 0 /\ served = 0 /\ closed = FALSE
  /\ executing = [t \in Tasks |-> "none"]
  /\ cancelling = {}
  /\ born = [t \in Tasks |-> 0]

-------------------------------------------------------------------------------
(* Helpers.                                                                *)

\* Fault: a cancelled task still counts as active.
Active_while_current(t) == task = t /\ ~closed
Active(t) == task = t /\ ~closed /\ state = "RUNNING"

PlanningCurrent(g) == planning.id = g /\ ~closed

Starting == \E h \in Handlers : calls[h] # None /\ calls[h].kind = "start"

\* _capacity.
RoomForResult ==
  Cardinality({t \in Tasks : records[t] # "absent"})
    + Cardinality({g \in Goals : goals[g] # "absent"}) < ResultCapacity

\* _save_task.
Saved == IF task # None /\ records[task] \notin Settled
         THEN [records EXCEPT ![task] = state] ELSE records

\* What task_status() reports: it saves first.
Visible(t) == Saved[t]

\* _stale_planning.
\* Fault: the goal that is being planned is not told.
Staled_not == goals
\* Fault: the goal gets the state of a cancelled task.
Staled_as_task == IF planning.id # None /\ goals[planning.id] = "WAITING"
                  THEN [goals EXCEPT ![planning.id] = "CANCELLED"] ELSE goals
Staled == IF planning.id # None /\ goals[planning.id] = "WAITING"
          THEN [goals EXCEPT ![planning.id] = "STALE"] ELSE goals

\* _clear_queue.
Cleared(recs) ==
  [t \in Tasks |-> IF \E i \in DOMAIN queued : queued[i] = t THEN "CANCELLED" ELSE recs[t]]

\* planning as start, cancel and interrupt leave it.
Dropped == [id |-> None,
            state |-> IF planning.state = "WAITING" THEN "STALE" ELSE planning.state]

\* start(), enqueue(): nothing was interrupted while the call was suspended.
\* Fault: only close() is noticed.
Uninterrupted_open(call) == ~closed
Uninterrupted(call) == ~closed /\ call.serial = serial

\* The second look-up of the request in enqueue().
\* Fault: it is missing.
Unseen_assumed(t) == TRUE
Unseen(t) == records[t] = "absent"

\* A coroutine is cancelled by setting a flag; it ends when it is next resumed.
PlannerCancelled == IF planner = None THEN None ELSE [planner EXCEPT !.cancelled = TRUE]

\* Where a new _execute starts.
\* Fault: the coroutine is never created.
Spawned_never == "none"
Spawned == "preflight"

\* _activate, for a task that has just been remembered or taken from the queue.
Activate(t, recs, goalStates, plan) ==
  /\ task' = t /\ state' = "RUNNING"
  /\ records' = recs
  /\ goals' = goalStates
  /\ planning' = plan
  /\ executing' = [executing EXCEPT ![t] = Spawned]

Idle == [id |-> None, state |-> "IDLE"]

-------------------------------------------------------------------------------
(* start() and enqueue(): both are suspended in _discover between the      *)
(* check of the request and its effect.                                    *)

\* A client uses the id of a request for one kind of call.
CallStart(h, t) ==
  /\ calls[h] = None
  /\ records[t] = "absent" /\ \A k \in Handlers : calls[k] # None => calls[k].task # t
  /\ served < RequestCapacity
  /\ ~closed /\ ~Starting
  /\ state \in {"IDLE"} \cup Settled
  /\ calls' = [calls EXCEPT ![h] =
                 [kind |-> "start", task |-> t, previous |-> task, serial |-> serial]]
  /\ UNCHANGED <<current, tables, planning, planner, executing, cancelling, serial,
                 served, closed, born>>

\* The same request may be under way twice, when its sender repeats it.
CallEnqueue(h, t) ==
  /\ calls[h] = None
  /\ records[t] = "absent"
  /\ \A k \in Handlers : calls[k] # None /\ calls[k].task = t => calls[k].kind = "enqueue"
  /\ served < RequestCapacity
  /\ calls' = [calls EXCEPT ![h] =
                 [kind |-> "enqueue", task |-> t, previous |-> task, serial |-> serial]]
  /\ UNCHANGED <<current, tables, planning, planner, executing, cancelling, serial,
                 served, closed, born>>

\* Discovery fails, the plan does not fit the nodes, or a check fails.
CallRefused(h) ==
  /\ calls[h] # None
  /\ calls' = [calls EXCEPT ![h] = None]
  /\ UNCHANGED <<current, tables, planning, planner, executing, cancelling, serial,
                 served, closed, born>>

StartAccepted(h) ==
  /\ calls[h] # None /\ calls[h].kind = "start"
  /\ Uninterrupted(calls[h])
  /\ RoomForResult
  /\ LET t == calls[h].task IN
       /\ Activate(t, [Saved EXCEPT ![t] = "QUEUED"], Staled, Idle)
       /\ born' = [born EXCEPT ![t] = calls[h].serial]
  /\ served' = served + 1
  /\ calls' = [calls EXCEPT ![h] = None]
  /\ UNCHANGED <<queued, planner, cancelling, serial, closed>>

EnqueueAccepted(h) ==
  /\ calls[h] # None /\ calls[h].kind = "enqueue"
  /\ calls[h].previous = task
  /\ Uninterrupted(calls[h])
  /\ Unseen(calls[h].task)
  /\ served < RequestCapacity
  /\ Len(queued) < QueueCapacity
  /\ state = "RUNNING"
  /\ RoomForResult
  /\ LET t == calls[h].task IN
       /\ records' = [records EXCEPT ![t] = "QUEUED"]
       /\ queued' = Append(queued, t)
       /\ born' = [born EXCEPT ![t] = calls[h].serial]
  /\ served' = served + 1
  /\ calls' = [calls EXCEPT ![h] = None]
  /\ UNCHANGED <<current, goals, planning, planner, executing, cancelling, serial,
                 closed>>

-------------------------------------------------------------------------------
(* goal() and the coroutine _plan it spawns.                               *)

Goal(g) ==
  /\ goals[g] = "absent"
  /\ served < RequestCapacity
  /\ ~Starting /\ planner = None
  /\ ~closed /\ state \in {"IDLE", "RUNNING"} \cup Settled
  /\ RoomForResult
  /\ goals' = [goals EXCEPT ![g] = "WAITING"]
  /\ records' = Saved
  /\ planning' = [id |-> g, state |-> "WAITING"]
  /\ planner' = [goal |-> g, pc |-> "thinking", wasRunning |-> state = "RUNNING",
                 serial |-> serial, task |-> None, cancelled |-> FALSE]
  /\ served' = served + 1
  /\ UNCHANGED <<current, queued, calls, executing, cancelling, serial, closed, born>>

\* The coroutine goes on at pc, or ends with planning.state = outcome; then a
\* goal nobody has answered yet gets that outcome, or STALE if it was replaced.
PlannerAt(pc) ==
  /\ planner # None /\ ~planner.cancelled /\ planner.pc = pc

\* Fault: the finally block is missing.
PlanEnds_silently(outcome) ==
  /\ planning' = [planning EXCEPT !.state = outcome]
  /\ planner' = None
  /\ UNCHANGED goals
PlanEnds(outcome) ==
  LET g == planner.goal IN
    /\ planning' = [planning EXCEPT !.state = outcome]
    /\ goals' = IF goals[g] # "WAITING" THEN goals
                ELSE [goals EXCEPT ![g] = IF PlanningCurrent(g) THEN outcome ELSE "STALE"]
    /\ planner' = None

\* _discover, the snapshots and the model, which may fail; then _plan_valid.
PlanThought ==
  /\ PlannerAt("thinking")
  /\ planner' \in {[planner EXCEPT !.pc = "checking"], [planner EXCEPT !.pc = "doubting"]}
  /\ UNCHANGED <<current, tables, planning, calls, executing, cancelling, serial, served,
                 closed, born>>

\* The goal was replaced, interrupted or overtaken by a start or a cancel.
PlanObsolete ==
  /\ \E pc \in {"thinking", "checking", "doubting"} : PlannerAt(pc)
  /\ ~PlanningCurrent(planner.goal)
  /\ PlanEnds(planning.state)
  /\ UNCHANGED <<current, records, queued, calls, executing, cancelling, serial, served,
                 closed, born>>

\* The nodes have moved on since the model looked at them, or the model only
\* answers, or a task was running when the goal came in.
PlanNotExecuted ==
  /\ PlannerAt("checking")
  /\ PlanningCurrent(planner.goal)
  /\ \/ PlanEnds("STALE")
     \/ PlanEnds("ANSWER")
     \/ planner.wasRunning /\ PlanEnds("REQUIRES_CONFIRMATION")
  /\ UNCHANGED <<current, records, queued, calls, executing, cancelling, serial, served,
                 closed, born>>

\* A check or the validation of the plan raises.
PlanDoubted ==
  /\ PlannerAt("checking")
  /\ PlanningCurrent(planner.goal)
  /\ planner' = [planner EXCEPT !.pc = "doubting"]
  /\ UNCHANGED <<current, tables, planning, calls, executing, cancelling, serial, served,
                 closed, born>>

PlanFailed ==
  /\ PlannerAt("doubting")
  /\ PlanningCurrent(planner.goal)
  /\ \/ PlanEnds("STALE") /\ UNCHANGED state
     \/ PlanEnds("FAILED") /\ state' = IF task = None THEN "FAILED" ELSE state
  /\ UNCHANGED <<task, records, queued, calls, executing, cancelling, serial, served,
                 closed, born>>

\* The plan becomes the current task, which this coroutine then executes.
PlanExecuted(t) ==
  /\ PlannerAt("checking")
  /\ PlanningCurrent(planner.goal)
  /\ ~planner.wasRunning
  /\ records[t] = "absent" /\ \A h \in Handlers : calls[h] # None => calls[h].task # t
  /\ RoomForResult
  /\ Activate(t, [Saved EXCEPT ![t] = "QUEUED"],
              [goals EXCEPT ![planner.goal] = "DONE"], [id |-> None, state |-> "DONE"])
  /\ planner' = [planner EXCEPT !.pc = "executing", !.task = t]
  /\ born' = [born EXCEPT ![t] = planner.serial]
  /\ UNCHANGED <<queued, calls, cancelling, serial, served, closed>>

\* interrupt() or close() has cancelled the coroutine, at whatever await.
PlanCancelled ==
  /\ planner # None /\ planner.cancelled
  /\ planner' = None
  /\ goals' = IF goals[planner.goal] # "WAITING" THEN goals
              ELSE [goals EXCEPT ![planner.goal] = "STALE"]
  /\ executing' = IF planner.task = None THEN executing
                  ELSE [executing EXCEPT ![planner.task] = "done"]
  /\ UNCHANGED <<current, records, queued, planning, calls, cancelling, serial, served,
                 closed, born>>

-------------------------------------------------------------------------------
(* The coroutine _execute of a task.                                       *)

\* It ends, and with it the _plan that awaits it.
Ended(t) ==
  /\ planner' = IF planner # None /\ planner.task = t THEN None ELSE planner

Running(t, pc) ==
  /\ executing[t] = pc
  /\ ~(planner # None /\ planner.task = t /\ planner.cancelled)

\* Whatever was observed for a task that is no longer active is ignored.
ExecuteStale(t) ==
  /\ Running(t, "preflight") \/ Running(t, "steps")
  /\ ~Active(t)
  /\ executing' = [executing EXCEPT ![t] = "done"]
  /\ Ended(t)
  /\ UNCHANGED <<current, tables, planning, calls, cancelling, serial, served, closed,
                 born>>

PreflightPassed(t) ==
  /\ Running(t, "preflight")
  /\ Active(t)
  /\ executing' = [executing EXCEPT ![t] = "steps"]
  /\ UNCHANGED <<current, tables, planning, planner, calls, cancelling, serial, served,
                 closed, born>>

\* Fault: a failed task leaves its queue behind.
QueueAfterFailure_kept == queued
QueueAfterFailure == <<>>

\* Preflight or a step has failed, a step was blocked, or its outcome is not
\* known: the tasks that were to follow are cancelled.
ExecuteFailed(t) ==
  /\ \/ Running(t, "preflight") /\ state' = "FAILED"
     \/ Running(t, "steps") /\ state' \in {"UNKNOWN", "FAILED", "CANCELLED"}
  /\ Active(t)
  /\ queued' = QueueAfterFailure
  /\ records' = Cleared(records)
  /\ executing' = [executing EXCEPT ![t] = "done"]
  /\ Ended(t)
  /\ UNCHANGED <<task, goals, planning, calls, cancelling, serial, served, closed, born>>

\* Every step succeeded: the next task in the queue becomes the current one.
ExecuteSucceeded(t) ==
  /\ Running(t, "steps")
  /\ Active(t)
  /\ Ended(t)
  /\ IF queued = <<>>
     THEN /\ state' = "SUCCEEDED"
          /\ executing' = [executing EXCEPT ![t] = "done"]
          /\ UNCHANGED <<task, tables, planning>>
     ELSE /\ task' = Head(queued) /\ state' = "RUNNING"
          /\ records' = [records EXCEPT ![t] = "SUCCEEDED"]
          /\ goals' = Staled
          /\ planning' = Idle
          /\ executing' = [executing EXCEPT ![t] = "done", ![Head(queued)] = Spawned]
          /\ queued' = Tail(queued)
  /\ UNCHANGED <<calls, cancelling, serial, served, closed, born>>

-------------------------------------------------------------------------------
(* cancel(), interrupt(), close(), and the coroutine _finish_cancel.       *)

Stoppable == task # None /\ state \in {"RUNNING", "CANCELLING", "UNKNOWN"}

\* cancel() of a task that is still queued.
CancelQueued(t) ==
  /\ ~closed /\ served < RequestCapacity
  /\ \E i \in DOMAIN queued :
       /\ queued[i] = t
       /\ \A j \in DOMAIN queued : j < i => queued[j] # t
       /\ queued' = SubSeq(queued, 1, i - 1) \o SubSeq(queued, i + 1, Len(queued))
  /\ records' = [records EXCEPT ![t] = "CANCELLED"]
  /\ served' = served + 1
  /\ UNCHANGED <<current, goals, planning, workers, serial, closed, born>>

\* _begin_cancel, whoever calls it; it does nothing the second time.
BeginCancel ==
  /\ state' = "CANCELLING"
  /\ cancelling' = cancelling \cup {task}
  /\ goals' = Staled
  /\ planning' = Dropped
  /\ queued' = <<>>
  /\ records' = Cleared(records)

\* cancel() of the current task; one that is settled keeps its state.
CancelCurrent ==
  /\ ~closed /\ served < RequestCapacity
  /\ task # None /\ \A i \in DOMAIN queued : queued[i] # task
  /\ IF state \in {"RUNNING", "UNKNOWN"} THEN BeginCancel
     ELSE UNCHANGED <<state, cancelling, goals, planning, queued, records>>
  /\ served' = served + 1
  /\ UNCHANGED <<task, planner, calls, executing, serial, closed, born>>

Interrupt ==
  /\ ~closed /\ served < RequestCapacity
  /\ serial' = serial + 1
  /\ planner' = IF planning.state = "WAITING" THEN PlannerCancelled ELSE planner
  /\ IF Stoppable /\ state # "CANCELLING" THEN BeginCancel
     ELSE /\ goals' = Staled
          /\ planning' = Dropped
          /\ queued' = <<>>
          /\ records' = Cleared(records)
          /\ UNCHANGED <<state, cancelling>>
  /\ served' = served + 1
  /\ UNCHANGED <<task, calls, executing, closed, born>>

\* Afterwards close() waits for every worker.
Close ==
  /\ ~closed
  /\ closed' = TRUE
  /\ serial' = serial + 1
  /\ planner' = PlannerCancelled
  /\ IF Stoppable /\ state # "CANCELLING" THEN BeginCancel
     ELSE /\ goals' = Staled
          /\ planning' = [planning EXCEPT !.id = None]
          /\ queued' = <<>>
          /\ records' = Cleared(records)
          /\ UNCHANGED <<state, cancelling>>
  /\ UNCHANGED <<task, calls, executing, served, born>>

\* Every node of the task has stopped, or one of them cannot confirm it.
FinishCancel(t) ==
  /\ t \in cancelling
  /\ cancelling' = cancelling \ {t}
  /\ IF task # t THEN UNCHANGED <<state, records>>
     ELSE \E outcome \in {"CANCELLED", "UNKNOWN"} :
            /\ state' = outcome
            /\ records' = IF records[t] \in Settled THEN records
                          ELSE [records EXCEPT ![t] = outcome]
  /\ UNCHANGED <<task, queued, goals, planning, planner, calls, executing, serial, served,
                 closed, born>>

-------------------------------------------------------------------------------
PlanStep ==
  \/ PlanThought \/ PlanObsolete \/ PlanNotExecuted \/ PlanDoubted \/ PlanFailed
  \/ PlanCancelled
  \/ \E t \in Tasks : PlanExecuted(t)

Executes(t) ==
  ExecuteStale(t) \/ PreflightPassed(t) \/ ExecuteFailed(t) \/ ExecuteSucceeded(t)

Next ==
  \/ \E h \in Handlers, t \in Tasks : CallStart(h, t) \/ CallEnqueue(h, t)
  \/ \E h \in Handlers : CallRefused(h) \/ StartAccepted(h) \/ EnqueueAccepted(h)
  \/ \E g \in Goals : Goal(g)
  \/ PlanStep
  \/ \E t \in Tasks : Executes(t) \/ CancelQueued(t) \/ FinishCancel(t)
  \/ CancelCurrent
  \/ Interrupt
  \/ Close

\* The loop resumes every coroutine whose answer has come; discovery, snapshots
\* and actions have deadlines, the planner's HTTP client has one too.
Fairness ==
  /\ WF_vars(PlanStep)
  /\ \A t \in Tasks : WF_vars(Executes(t)) /\ WF_vars(FinishCancel(t))

Spec == Init /\ [][Next]_vars
FairSpec == Spec /\ Fairness

-------------------------------------------------------------------------------
(* Properties.                                                             *)

\* A goal that is reported as WAITING is being worked on: whatever replaces,
\* overtakes or interrupts the planning (start, cancel, interrupt, close, a
\* finished task that starts the next one), no goal is left waiting for ever
\* and no late plan answers a goal that was given up (runtime.py, _plan).
NoGoalForgotten ==
  \A g \in Goals : goals[g] = "WAITING" =>
    /\ planning.id = g
    /\ planner # None /\ planner.goal = g /\ planner.pc # "executing"

\* What waits in the queue has not been executed, is in it once, and waits for
\* a task that is running: no failure, cancel or interrupt leaves a task in
\* the queue that would start behind the back of whoever stopped it.
QueueWaitsForRunning ==
  /\ queued # <<>> => state = "RUNNING" /\ ~closed
  /\ \A i, j \in DOMAIN queued :
       /\ i # j => queued[i] # queued[j]
       /\ executing[queued[i]] = "none" /\ records[queued[i]] = "QUEUED"

\* No task starts that was asked for before the latest interrupt, although its
\* request may have been suspended in discovery, in the queue or with the
\* planner when the interrupt came (_control_serial, planning.request_id).
InterruptCoversAll ==
  [][task' # task => born'[task'] = serial' /\ ~closed']_vars

\* The state a client has seen settled never changes: not by a late step, a
\* second cancel, a failed planning, a later task or close().
SettledStands ==
  [][\A t \in Tasks : Visible(t) \in Settled => Visible(t)' = Visible(t)]_vars

\* Of the tasks that are neither settled nor queued there is only one, the
\* current one: "task_busy: the current task is still executing, being
\* cancelled, or of unknown outcome; another task cannot be started"
\* (docs/errors_and_versions.md:55).
OneUnsettledTask ==
  \A t \in Tasks : Visible(t) \in {"RUNNING", "CANCELLING", "UNKNOWN"} => task = t

\* Every accepted task comes to an end its client can see: it is settled, or
\* UNKNOWN if a node could not say what happened. Only a task that a start took
\* the place of before it ended is left as it was, which OneUnsettledTask
\* says should not happen.
TasksEnd ==
  \A t \in Tasks :
    Visible(t) \in {"QUEUED", "RUNNING", "CANCELLING"}
      ~> \/ Visible(t) \in Settled \cup {"UNKNOWN"}
         \/ task \notin {t, None} /\ records[t] \in {"RUNNING", "CANCELLING"}

\* Every goal is answered.
GoalsAnswered == \A g \in Goals : goals[g] = "WAITING" ~> goals[g] # "WAITING"
===============================================================================
