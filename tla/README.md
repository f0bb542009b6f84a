# WRSAgentOS: a TLA+ model of the agent, its nodes and their actions

WRSAgentOS lets a language model plan tasks for robots and speakers. An agent
process turns a goal into a plan; independent node processes (robot, speech
output, voice, camera, ...) execute its steps; all of them talk over a
publish/query bus (Zenoh) on which calls may be lost, late or repeated, and every
process may die and come back. What must not go wrong is easy to say: no motion
happens twice, none happens after a stop was confirmed or under an authority that
was taken away, and nobody is told that something succeeded, failed or was stopped
unless that is so. How the code brings this about is spread over coroutines,
journal writes, epochs, leases and retries; that is what is modelled here.

Paths below are relative to `wrs_agent/` in the repository unless they begin with
`docs/`.

## 1. Inventory

"M" modelled, "P" partly, "-" not yet or not at all (section 8).

| component | | state it keeps | operations | interacts with |
|---|---|---|---|---|
| action executor, `executor.py` | M | boot id, control epoch, admission (OPEN, HELD, UNKNOWN), stop_confirmed, active action, leases, records of all actions, answers to controls | context, submit, status, control (hold, cancel, allow_actions), close; one coroutine per action | journal (awaits its saves), backend handler (stop signal, progress), transport (handlers) |
| intent journal, `store.py` | M | one row per action in SQLite, one writer thread | save, load at start, close | executor |
| action services of a node, `nodes/action_rpc.py` | M | handles with the request they sent | register_actions; ActionClient.submit with its reconciliation; ActionHandle.wait, cancel | executor, task runtime, transport |
| task runtime, `runtime.py` (`handles.py`, `nodes/agent/`) | M | current task, queue, planning, tables of tasks and goals, remembered requests; per task its authorities, actions, outcomes, release epochs | start, enqueue, goal, cancel, interrupt, close; coroutines _plan, _execute, step_job, _finish_cancel | registry (discovery), planner, nodes through ActionClient |
| node registry, `registry.py` | M | liveliness tokens seen, descriptions and clients per node, owner of each skill | presence callbacks, refresh, transport, routes, check_instance, close | transport sessions of every target |
| client API, `system.py`, `handles.py`, `sync.py` | P | role bindings and the connection kept for the stop paths; per handle a task id and one cancel id | nodes, action, snapshot, allow_actions, set_robot_mode; start, goal, status, watch, wait, cancel | registry, nodes, runtime |
| transport, `transport.py` | M | three bounded inboxes, slots per category | register_handler, request, publish, close | Zenoh callback threads, all services |
| voice, `nodes/voice/node.py` | M | one record per event id, with its pending request | text and control events | runtime (goal, interrupt), executors of the robot and TTS nodes |
| speech recognition, `nodes/asr/` | M | capture session, utterance id | begin, end, transcripts | voice |
| speech output, `nodes/tts/` | M | prepared phrases, the worker thread of one utterance | speak | executor without robot controls |
| robot backends, `env/` | P | link to the device, mode (virtual or real), kinematic model, held object | handlers of the skills, mode switch, monitor | executor (changes its gate directly in `env/ur.py`) |
| camera, `nodes/camera/` | P | one pending frame, two cached frames, stream id; the preview's picture | capture thread, pump, read_frame | transport's binary lane |
| perception, `nodes/vision/`, `nodes/segmentation/`, `nodes/grasp/` | M | artifacts with a time to live; the detector's last results and pictures | recognition requests | camera, robot, runtime |
| node lifecycle, `nodes/node.py`, `nodes/serve.py`, `instance_lock.py` | M | cleanup stack, background tasks, the lock file | setup, serve, shutdown | every node |
| local stack, `processes.py` | M | child processes | start, wait ready, stop in reverse order | router, nodes |
| plan validation, `plan_validation.py`, `bindings.py`, `policy.py` | P | none | pure checks of plans, bindings and utterances | runtime, voice |
| plan cache, `cache.py` | M | cached plans | lookup, record, forget | planner |
| planner and providers, `planner/` | P | a configured client | complete, plan | runtime, HTTP services |
| skills, scene, drivers, scripts | - | - | geometry, device I/O, declarations | - |

The flow of a task: a client calls **start** (or enqueue, or goal, which plans
first). The runtime discovers the nodes its skills are bound to, activates the task
and spawns **_execute**: it captures the epoch of every participant, then runs one
job per step. A job reads a fresh context from its node, submits one action with
the authority in that context, and polls its status. The node's **executor** saves
the intent, checks the authority twice, saves RUNNING, calls the backend handler,
and saves the outcome. A **cancel** raises the epoch of every participant, which
kills all leases, waits until each node has confirmed its stop and each action has
a known end, and opens exactly those nodes again that it has closed itself.

What is hard about each part, and what makes it correct:

* *Executor.* Between the acceptance of an action and its handler lie two saves
  that may fail, during which a hold, a cancel, a restart or a new robot state may
  come. Correct: at most one handler call per action id for ever; none without a
  saved intent or without the authority of the request; a confirmed stop is true;
  a node whose past is not accounted for admits nothing; no outcome is rewritten.
* *Task runtime, admission.* Requests are suspended in discovery while other
  requests, the planner and interrupts change what is current. Correct: one task
  at a time; an interrupt covers everything asked for before it; no goal and no
  queued task is forgotten or started behind the back of a stop.
* *Task runtime, execution.* Replies are lost or late, nodes restart, other
  clients hold and open nodes. Correct: what is reported as settled is over and
  true; nothing begins under another authority than the one captured; a hold of
  somebody else is never lifted; nothing is repeated that may have happened.
* *Registry.* Liveliness changes race with a query of the past. Correct: the view
  converges on what lives, an old process is never used as the new one.
* *Transport.* Threads and coroutines share an inbox. Correct: no lost wake-up,
  and a full normal lane does not delay control.
* *Voice.* A sentence is recognised several times, stops are retried. Correct: one
  effect per event id, and a retried stop stops what the first one meant.
* *Backends.* A cancel falls between two device calls; the UR mode switch waits
  for the device while the gate can change. Correct: a handler that reports
  stopped has stopped.
* *Camera, perception.* A frame or an artifact outlives its stream. Correct: what
  is served belongs to the stream and the age the caller asked for.
* *Lifecycle, stack.* One of several starts fails. Correct: everything acquired is
  released, in reverse order.

The hazards in `PROJECT.json` give these at their lines.

## 2. Modules

| module | models | reads as |
|---|---|---|
| `ActionExecutor` | `executor.py`, `store.py` | one action per handler or per stretch of code between two awaits |
| `ExecutorInvariant` | - | the inductive invariant `IInv`, in named parts |
| `ActionContract` | - | what a node promises, in three variables |
| `ExecutorRefinement` | - | the mappings from the executor to the contract and to `NodeGate` |
| `ActionExecutor_proofs`, `ExecutorRefinement_proofs`, `ActionContract_proofs` | - | theorems about these three |
| `TaskRuntime` | `runtime.py`: start, enqueue, goal, _plan, cancel, interrupt, close | tasks without their nodes: _execute and _finish_cancel end in any way they can |
| `NodeGate` | `executor.py` as its clients see it | the gate, the epoch and the statuses; no journal, no leases |
| `TaskExecution` | `runtime.py`: _execute, step_job, _attempt, _fence, _finish_cancel; `ActionClient.submit` | one task, composed with `NodeGate` and a lossy wire |
| `TaskInvariant` | - | the inductive invariant `TaskInv` of `TaskExecution`, in named parts |
| `NodePresence` | `registry.py`: _change, _initial_presence, close | liveliness changes on callback threads against a query of the past |
| `NodeDirectory` | `registry.py`: refresh, check_instance, transport, conflicts | rounds of descriptions while the view changes arbitrarily |
| `SystemClient` | `system.py` over `NodeDirectory` | roles, action(), allow_actions(), set_robot_mode() |
| `TaskClient` | `handles.py`, `sync.py`, `nodes/agent/rpc.py`, parts of `system.py` and `runtime.py` | the handle of one task, its repeated cancels and its watch, at an agent that goes on to another task or restarts |
| `Transport` | `transport.py` | one lane: slots, inbox, its wake-ups, workers, time-outs |
| `ActionHandle` | `nodes/action_rpc.py`, client side | one action of one client at a node that others use and that restarts |
| `VoiceInput` | `nodes/asr/node.py`, `nodes/asr/capture.py`, `nodes/voice/node.py` | from the key press, or from a replayed interaction, to a stop, a cancel of the speech, a goal, a query or a task to append |
| `SpeechOutput` | `nodes/tts/backend.py`, `nodes/tts/qwen.py` | a coroutine, its worker threads, the player |
| `UrBackend` | `env/ur.py`, `env/ur_rtde.py`, parts of `env/wrs.py` | coroutines that hand jobs to one device thread |
| `JawDrive` | `env/ur_rtde.py`: DHGripper, move_gripper | a jaw behind a register that follows late, over a lossy serial line |
| `VirtualModel` | `env/wrs.py` | the kinematic model, moved by one skill after another |
| `VirtualGrasp` | `env/wrs_grasp.py` | trial grasps on that model, and their execution |
| `MockWorld` | `env/mock.py` | the tests' robot and its injected faults |
| `CameraStream` | `nodes/camera/node.py`, `frames.py` | capture thread, pump, frame cache |
| `VisionResults` | `nodes/vision/node.py` | the detector's loop, its results and pictures |
| `Perception` | `nodes/vision/artifacts.py`, `nodes/segmentation/`, `nodes/grasp/`, parts of `env/wrs_grasp.py` and `nodes/camera/preview.py` | results, their revocation, and who uses them |
| `NodeLifecycle` | `nodes/node.py`, `instance_lock.py` | processes of one node that compete for its lock |
| `LocalStack` | `processes.py` | a launcher, its threads and its children |
| `PlanOrder` | `plan_validation.py`, checks of `schemas.py` | all small plans: what is accepted and how it then runs |
| `PlanCache` | `cache.py` | kept plans in a world that changes |
| `PlanReply` | `planner/` | replies in three protocols, and the decision made of them |
| `Registry` | - | `NodePresence` and `SystemClient` side by side |
| `Nodes` | - | the parts that share no state, with what the proofs assume of their constants |
| `TaskRuntime_proofs`, `TaskExecution_proofs`, `Registry_proofs` | - | theorems about the module each is named after |
| `NodeParts_proofs`, `Nodes_proofs` | - | the inductive invariants of the parts of `Nodes`, with their lemmas; the theorems about `Nodes` |
| `MC*` | - | constants and symmetry for TLC |

`Registry` runs `NodePresence` and `SystemClient` side by side. `Nodes` holds the
parts that share no state: a variable `part` says which of them a behaviour is one
of, so one run explores each of them in full, and none of their products.
`SystemClient` extends `NodeDirectory`: the registry changes under every step of a
client. Where parts do interact, the module that needs it contains what it needs of
the other: `UrBackend`, `SpeechOutput` and `ActionHandle` the executor's gate,
`VirtualGrasp` the executor's stop and outcomes, `Perception` the robot and the
preview that read it, `VoiceInput` the agent, and the epochs of the robot and
of the TTS node with its utterances.

`ActionExecutor` and `NodeGate` are two grains of the same code: the first has
every save and crash point, the second replaces what they decide by a choice (an
admitted action ends before its handler, a node loses track, a submission is
refused for a lease), so that a whole task on two nodes stays small. The first
implements the second (`ImplementsNodeGate`, checked and proved). What its clients
cannot see is whether the intent of an action they see as UNKNOWN is in the journal:
it is UNSAVED in `NodeGate` if not, and the next process knows nothing of it.
`TaskRuntime` and `TaskExecution` meet at `_execute` and `_finish_cancel`, which
are single steps with any result in the first and modelled in full in the second.

### Correspondence

*ActionExecutor.* All code but the journal thread runs on one asyncio loop, so a
step is the code between two awaits; `pc[a]` names the await at which the coroutine
of action `a` is suspended ("intent": save of ACCEPTED; "running": save of RUNNING;
"handler"; "final": last save). `Submit` is `submit()`; `IntentFenced` and
`IntentAdmitted` are the two sides of the fence check after the first save;
`StoppedBeforeHandler`, `StartHandler` and `RunningLost` the three after the second;
`HandlerEnds` everything a handler may do, with the `except` branches and `finally`;
`FinalSaved`, `SaveLost` the end of a save. `Hold`, `Cancel`, `AllowActions` are
`control()`; `CloseActive`, `CloseStep` are `close()`. `JournalWrite` is the writer
thread; each write may fail. `Restart` may come at any point: queued writes are
lost, one that was not yet awaited may be on disk or not. Requests carry the
authority of a context; any context may be submitted with any id at any time, so
lost, duplicated and reordered submissions need no actions of their own.

*TaskRuntime.* `calls[h]` is a start or enqueue suspended in `_discover`, one for
each of the two workers of the normal inbox; `planner` is `_plan` with the point
where it is suspended; `executing` and `cancelling` are the spawned coroutines. A
reply to a repeated request comes from the table of requests and is no step.

*TaskExecution.* `job[s].pc` names the await of a step's coroutine, `side[n]` how
far `_finish_cancel` is with node `n` (they run in a `gather`), `call` what each
caller waits for, `wire` the calls that have not reached their node. A caller that
gives up leaves its message on the wire, where it may still be carried out. The
attempt of a step is its first action, the recovery's observation, or the one
repetition. `closedBy` is a history variable: who closed a node, which the code
can only conclude from epochs.

*Registry.* A process stands for its liveliness token; a restart is another process
with the same name. `NodePresence` delivers changes and answers of the query in any
order and lets a process start and die at any time; `touched` is the set of names a
change has told of since the query began. `NodeDirectory` takes the view as given
and lets it change between any two steps; `asking[n]` is the descriptor request of a
round, and `Describe` the code after its answer with all its checks. In
`SystemClient`, `waiting` is a `_resolve` suspended in `wait_for`, `call` an action
or control between its two requests.

*Transport.* `inbox`, `notified`, `waking` and `event` are the inbox, its flag, the
`call_soon_threadsafe` callbacks under way and the asyncio event; `Look` and `Resume`
are the two halves of `get()`, with the lock released between them.

*Task handles.* `cancels[c]` is one call of `cancel()`: its message and its caller, who
may give up first; all of them carry the one request id of the handle, so `receipt`
is the answer to all. `poll` is the status request of `watch()`. A synchronous session
(`mode` = "sync") has one call under way, and none after its end. The other task
stands for whatever the agent did before and does afterwards.

*Voice.* `heard` is the session's state per press, `record[e]` the stage of an event
at the voice node. A delivery may be repeated at any time; `epoch`, `held` and `tts`
are the nodes that are stopped, and `holds` which epoch, and of the TTS node which
utterance, a stop has ended. A refused request ends an event that was said as UNKNOWN
and a replayed one as CONFIRMED with `accepted` = FALSE, as `_dispatch_text` and
`_execute` have it. A query and a task to append are delivered like a goal: the voice
node keeps nothing of them but the result. Three instances share the module: a stop
and a goal; a cancel of the speech and a task to append; two replayed stops.

*Speech and device threads.* A coroutine that awaits a thread and is cancelled
leaves the thread running: `handler` and `thread` (speech), `action`/`switch`/`watcher`
and the queue `device` (UR) are therefore separate, and each cancel is a step of its
own. In `JawDrive` the register follows the jaw by a step (`Sense`) that the code
allows 0.3 s for; `fresh` marks a register that has not been updated yet.

*Virtual robots.* A skill is `begin`, then step after step on the owner thread, then
`verify`. In `VirtualModel`, arm positions are poses, "between" and "shifted"; a
path leads to its goal in `Steps` moves. In `VirtualGrasp` a plan is one action per
part of a candidate's trial, each of which succeeds, gives up or raises; `Restore` is
the outer `finally`. `MockWorld` does all a skill does in one step, as its code does.

*Camera and perception.* `pending`, `camNotified`, `calling`: the one item between
the threads, and its wake-up. Frames and pictures are (stream, number). In
`Perception`, `cache[n]` has the results of node `n` with the epoch they were made
under; a boot and an epoch are one number. A call is a record with the point where
it is; packing, serializing and drawing are steps, because a stop may come then.

*Lifecycle and launcher.* `open[i]` is the cleanup stack of process `i`. `LocalStack`
has the launcher's coroutine (`pc`), the threads for start and reap, and each
process with whether it was asked to end; `late` is the router that a thread starts
after its launcher was cancelled.

*Pure parts.* `PlanOrder` proposes every plan of three steps over three skills
(dependencies, versions and inputs arbitrary) and runs what `Validate` accepts;
`PlanReply` builds every reply of up to two items for each configuration.

## 3. Runs

| run | instance | question |
|---|---|---|
| `executor_robot` | robot node, 2 actions, 3 contexts, 2 controls per process, 2 processes | does every safety property of the executor hold, whatever is lost, late, repeated or fails to be saved; and does it implement `NodeGate`? |
| `executor_contract` | TTS node, same with 2 contexts, fair | does the executor implement the contract; is every stop confirmed (or given up as UNKNOWN), and the node freed? |
| `executor_tts_reopens` | TTS node, 1 action | violation, see section 7 |
| `runtime_planner` | 3 tasks, 2 goals, 2 handlers | do queue, goals, interrupts and settled states stay consistent under every interleaving? |
| `runtime_goals` | 2 tasks, 2 goals, fair | is every goal answered, and does every accepted task end? |
| `runtime_replaced` | 2 tasks, 1 goal | violation, see section 7 |
| `task_steps` | a step on a robot and a step on a TTS node, independent or chained; 1 cancel, 1 fault | is a settled task over and its report true; whose authority is used, whose hold is lifted? |
| `task_recovery` | two recoverable steps on one robot, 1 cancel, 2 faults, fair | is anything repeated that may have happened; do the task and its cancel end? |
| `registry` | 3 processes of 2 nodes at 2 targets, 1 skill | is the view true, and is nothing sent to a process that was replaced or does not offer the skill? |
| `peer_rebound` | the same | violation, see section 7 |
| `nodes` | every part of `Nodes` in its small instance | does each part keep its properties, whatever its threads, faults and restarts do? |
| `mode_switch_reopens` | the same | violation, see section 7 |

The properties, with the code they are about, are stated in comments above their
definitions. Each has a faulty variant of a mapped definition (the operators marked
`Fault:`) under which its run fails, listed in `PROJECT.json`: a dropped check, a
swapped order, a missing reset. A property of `Nodes` that joins several parts has
a variant in each of them.

One observation from looking for such variants: `SettledIsOver` is hard to break in
`_finish_cancel`. Leaving a node without actions unfenced, taking any closed gate
for a stop, or comparing only the boot of a submission each leaves it true on this
instance, because the epochs, the wait for submissions and the statuses cover for
each other. It rests on `_execute` ranking UNKNOWN above FAILED.

### Bounds

All are CONSTANTS. In `ActionExecutor`, capacities of 64 leases, 4096 records and
4096 controls become 1 to 3, so that eviction and refusal happen; `MaxBoot` = 2
gives one crash anywhere, after which the second process meets everything the first
one left (the proofs have no such bound); `MaxVersion` = 1 lets the robot state move
once under a request. Two actions are what the races need: the one whose last save
is under way, and the next one. In `TaskRuntime` the tables are large enough to be
filled; three tasks make a current one, a queued one and one suspended in
discovery. In `TaskExecution`, `MaxFaults` counts restarts, journal faults, controls
by other clients, and calls that are lost, fail, or come after their caller gave up;
one of these at any point, in combination with a cancel at any point and with
messages of any delay, gives 2.1 million states. `task_recovery` allows two, so that
a fence fails after the fault that made it necessary. `MaxTries` = 2 stands for the
three snapshots of `_fence`; a retry and its exhaustion both happen.
In `registry`, the first node is restarted at another target and the second one
appears where the first was, so that an old connection leads to a wrong process;
capacities of one address and two names make the view overflow. In `nodes`: three
requests on two slots, an inbox of two and two workers (a wake-up for two items, one
of them lost); two voice events, once with room for one record and twice for
both, one text kept, three or four epochs and utterances, and from two controls on the
table of controls may be full; two utterances of two blocks; two connections and six
epochs (a switch to the robot and back with a hold and an allow in between); three
streams of three frames; one to two artifacts that evict one another; two processes
of a node with three resources; two nodes and a router; plans of three steps; one
cached plan for two intents; two poses and paths of two moves; two objects and two
candidate grasps (the second after a failed trial); three detector shots in three
streams; a jaw of three positions, with and without an object; four epochs and two
boots around an action handle; two cancels of a task handle and one restart of its
agent. Each fault happens between any two steps. `CHECK_DEADLOCK FALSE` is set in all runs: each bounded system stops when its
actions, tasks or requests are used up.

### Fairness

Safety runs assume none. `executor_contract`: the journal thread and the loop go on,
and a handler returns (the backends in `env/` and `nodes/tts/` bound their motions
and look at the stop signal); nobody is obliged to submit, hold or crash.
`runtime_goals`: the loop resumes coroutines; discovery, snapshots, actions and the
planner's HTTP calls have time-outs, so each comes to an end. `task_recovery`: the
loop goes on, a message that is not lost is delivered, a handler returns, and every
wait in `_finish_cancel` has a time-out (`asyncio.timeout(3)`). Where a time-out can
fire, its step is always enabled, never obligatory.

## 4. What the checks show

For a node: with any interleaving of submissions, controls, crashes and failing
writes, handlers are called at most once per action id, only with the intent on
disk and under the authority of the request (`AtMostOnce`, `WriteAhead`,
`EffectUnderAuthority`); stop_confirmed and a STOPPED receipt mean what they say
(`StopIsTrue`, `StoppedReceiptHolds`); after a crash or a failed write nothing is
admitted before somebody has dealt with it (`NoBlindReopen`); and no outcome, no stop
and no uncertainty that a client has read is taken back (`NothingTakenBack`). Every
stop is answered and the node is free again (`NodeComesToRest`). All of this together
implements a node in three variables (`ImplementsContract`), and the nodes that tasks
are composed with (`ImplementsNodeGate`), so what is shown of a task among nodes of
`NodeGate` holds among executors.

For the runtime: goals are never left WAITING with nobody working on them
(`NoGoalForgotten`, `GoalsAnswered`), the queue only waits for a running task
(`QueueWaitsForRunning`), nothing older than an interrupt starts after it
(`InterruptCoversAll`), and settled states stay (`SettledStands`).

For a task: when it is reported as settled, no action of it runs or can still begin
(`SettledIsOver`), success is neither invented nor lost (`ReportIsTrue`), only its
own fence is lifted (`LiftsOnlyOwnFence`), an action begins only after its
dependencies and under the authority captured at the preflight (`BegunAsPlanned`),
a step is repeated only after a known failure (`RepeatedOnlyAfterFailure`), and
tasks and cancels end (`TaskEnds`, `CancelConverges`).

For the registry and its client: after the callbacks have been delivered the view
holds exactly what lives (`ViewIsTrue`); a name is routed to its one live instance,
and no two action nodes share an address (`RoutedToCurrent`); the node that first
provided a skill keeps it, or it becomes ambiguous (`NeverTakenOver`); and an action
or control goes to the live instance that was asked (`SentToProvider`).

For the parts of `Nodes`: no request waits for a worker that sleeps
(`NoLostWakeup`); a repeated stop stops nothing new, what was confirmed, and not as
the refusal of a replayed stop (section 7), has stopped,
a cancel the node has answered finds its action over or stopping, an action
reported as refused never runs, and a task handle cancels its own task only, once, and
tells its own task's end (`StopsAreTrue`); an action of a definite outcome
leaves no sound and no motion behind, its device is not exchanged under it, and pose,
kinematics, jaw and held object are reported as they are (`SettledAsReported`);
frames and pictures are of the stream that is (`FramesAreLive`); a revoked artifact
does not leave its node nor move the robot, and a cached plan is used only where it
has proved itself (`NothingStaleIsUsed`); nothing of a node or a launcher outlives it
(`NothingLeftRunning`); and only proposals execute, without a race for a resource
(`PlansAreSound`).

Limits of these statements that the models made visible, where the code promises
nothing else: a router that the launcher's thread starts after the launcher was
cancelled is nobody's child any more (`processes.py`); a driver that was connected
but cannot be read stays open (`env/ur.py:187`); a stop of the jaw may be confirmed
by a register that still shows the end of the command before (`env/ur_rtde.py:244`),
so `JawAsReported` only says that the jaw no longer goes where it was told;
the detector does not give a frame a second result after a failure.

## 5. What is proved

For `ActionExecutor`, for every number of actions, leases, records, controls,
processes and versions, for robots and TTS nodes (TLAPS, `ActionExecutor_proofs`):
type correctness; the invariants `OneOwner`, `StopIsTrue`, `WriteAhead`,
`AtMostOnce`, `NoBlindReopen`, `StoppedReceiptHolds`; the action properties
`EffectUnderAuthority`, `NothingTakenBack` (by three theorems, `OutcomesStand`,
`StopsAreNotTakenBack`, `UnknownStays`). In
`ExecutorRefinement_proofs`: the executor implements `ActionContract`, and `NodeGate`
with one node. In
`ActionContract_proofs`: in the contract, an open gate means that every effect is
accounted for.

*Assumptions.* None is an action or a lease; at least one lease fits; the other
capacities are natural numbers. No fairness, no finiteness.

*The argument.* No property is inductive. "A confirmed stop is true" needs that no
failing save can hit a node whose handler runs; that needs to know which saves can
be in the journal together, which needs to know who owns the node. `IInv` says,
in this order: who owns the node (`Ownership`); that at most two saves are pending,
and then the older one is the last save of an action that has left
(`QueueShape`); what those saves contain and what the disk then holds
(`QueueContents`, `DiskFollows`); that an UNKNOWN node runs nothing (`Tracked`);
that effects are known, in memory and on disk (`Effects`, `Accounted`); what
authority a coroutine past its checks still has (`Authority`); and the stop signal
and the receipts (`Signalled`, `Receipts`). Each part has a lemma that every step
preserves it, one step of the proof per action; they are combined in `Inductive`,
and the other theorems follow from it. The refinement maps `records` to what the
contract calls absent, pending, settled and unknown; `Ends`, `Fence` and `Restart`
get lemmas of their own, all others are one contract step or a stutter. That to
`NodeGate` keeps the gate and takes an accepted action for a running one. It needs
one fact more than `IInv`: past its intent, an action has a row on disk (`Written`),
so only an action that never began is forgotten by a restart.

For `TaskRuntime` (`TaskRuntime_proofs`), for every number of tasks, goals and
suspended requests and every capacity: type correctness, `NoGoalForgotten`,
`QueueWaitsForRunning`, `InterruptCoversAll` and `SettledStands`. Assumed: the
capacities are natural numbers, and None is none of the values it is compared with.
The invariant `RInv` says which tasks the tables know and that a task that is being
cancelled is CANCELLING (`Tables`), that a suspended request is for a task nobody
else has started (`CallsFresh`), that the queue holds tasks once, unexecuted, none
older than the latest interrupt, and only while a running task will look at it
(`Queue`), and that the planner, the
planning record and the goal agree, with the serial under which it was asked for
(`Planning`). The last is what `InterruptCoversAll` needs: a task may be activated
only if its serial is the present one, which for the planner follows from the record
it compares and for the queue from the interrupt that empties it.

For `TaskExecution` (`TaskExecution_proofs`), for every number of steps and nodes,
robots and others, every plan, and any number of faults, cancels and snapshots of a
fence: type correctness, `SettledIsOver`, `ReportIsTrue`, `LiftsOnlyOwnFence`,
`BegunAsPlanned` and `RepeatedOnlyAfterFailure`. Assumed: steps, nodes and None are
told apart; the bounds are natural numbers; and all steps that may recover are bound
to one node, because `_run_step` gives up unless the skill `observe` is bound to the
step's own node (`runtime.py:663`), and a task has one binding for it.

None of these properties is inductive, because at any time a call may be on the wire
whose caller has given up. `TaskInv` (in `TaskInvariant`) says what such a call can
still do. A submission is the only one of its action and carries the authority of
the preflight (`Submissions`); a node that has been fenced or restarted since is
`Past` that authority, for ever, because its pair of boot and epoch only grows
(`Captured`, `Fences`). So a step whose action may still begin is known by its job,
or its outcome is UNKNOWN (`Accounted`), and `_finish_cancel` has every node past its
authority, and no job between submission and answer, before it reads a status
(`Cancelled`). What is reported follows from what is in `task.actions`
(`Recording`, `Reports`). A repetition rests on a failed action that can change
only if the node loses track or its authority, which refuses the repetition
(`Failures`, `Recovery`). And a hold that the task may lift has just one epoch: it
was asked for while the node was open under the authority of the preflight, so
whoever closed the node at the next epoch was this fence (`Releasing`). The proof
first says what each kind of step does, point by point (`EnvMoves`, `JobMove`,
`CancelMove`, `TaskFrame`), and then has a lemma for each part of the invariant.
`task_steps` checks `TaskInv` itself, on its instance.

`Registry_proofs` takes `SystemClient` over `NodeDirectory`, then the composition
with `NodePresence`, for every finite set of processes, any names, addresses, targets
and skills, and every capacity. Assumed: `PlacesAssumption` and `PresencePlaces`, on where
processes may appear, which TLC evaluates in the runs. Of a client: type correctness,
`RoutedToCurrent`, `NeverTakenOver` and `SentToProvider`. The invariant `ClientInv`
joins a description with its connection and the instance that is known
(`Descriptions`), keeps requests under their names (`OwnNames`), and says that a call
under way was made for a skill of its instance (`CallIsProvided`). What is checked
after every await is just enough: the view may change arbitrarily at each of them. Of
the view: `ViewIsTrue`, with an invariant that says that no view lists a process whose
end has been reported, that an answer older than such a report is marked in
`touched`, and that a view that is whole and lost nothing lists whoever is known to
be up. One lemma, `UpdatedView`, says what a report does to a view, at its capacities
too. That the two fit together is `ClientOfTheRegistry`: every step of the composition
is one of `NodePresence` or a stutter, and one of `SystemClient` or a stutter, so what
is proved of each holds of both together; `RegistryTypes` and `PresenceIsTrue` are
stated of the composition that the run checks.

`Nodes_proofs` takes every safety and action property that the run `nodes` checks, of
all its parts, from the invariants and lemmas in `NodeParts_proofs` (that of
`Perception` is next to its theorem): `NoLostWakeup`, `NothingLeftRunning`,
`PlansAreSound`, `FramesAreLive`, `StopsAreTrue`, `SettledAsReported`,
`NothingStaleIsUsed` and `NodesTypeOK`. Assumed: `NodesAssumption`, which TLC
evaluates in the run: bounds are natural numbers, those of a cache are at least one,
and the values that stand for nothing are told apart from those they are compared with. Numbers of
requests, workers, processes, plan steps, epochs, boots, connections, streams, poses,
objects, restarts and cancels are otherwise arbitrary. A step is of one part and
leaves the others alone (`PartsStep`), so each part has an inductive invariant of its
own, all of which TLC had checked with the values of `nodes.cfg` before they were
proved:

| part | invariant | says, beyond the property itself |
|---|---|---|
| `Transport` | `WakeInv` | a non-empty inbox is flagged, and a flag means an event that is set or on its way |
| `VoiceInput` | `VoiceInv` | an event is bound to the epoch and utterance first seen, and what was confirmed without a refusal has been stopped, had nothing to stop, or was the agent's task (`Bound`); only what was released was said (`Spoken`) |
| `ActionHandle` | `HandleInv` | how far a submission can have come, by what the client was told (`Submission`); who has asked our action to stop (`Stopping`) |
| `TaskClient` | `ClientInv` | a task that was fenced has its receipt; what a poll has read is what the agent reports, unless it has restarted; the agent's present task is one it knows |
| `SpeechOutput` | `SpeechInv` | at which point of its thread the device is closed or silent (`Sounding`); that utterances are drained before they are completed (`Counted`) |
| `UrBackend` | `ArmInv` | see below |
| `JawDrive` | `JawInv` | a register older than the command is read only as "moving", or not believed yet |
| `VirtualModel`, `VirtualGrasp` | `ModelInv`, `GraspInv` | where on its path the model is (`Walk`, `GraspPath`), what it carries there (`Carried`), and what is published at each await (`Publishes`) |
| `MockWorld` | `MockInv` | the object held is the one in the gripper; a waiting skill has changed nothing |
| `CameraStream` | `CameraInv` | an item is waiting, with its callback, or has woken the loop (`Handoff`); frames are of the stream last seen, and older than what waits (`Readable`) |
| `VisionResults` | `DetectorInv` | the pictures are the last results, while nothing has failed since |
| `Perception` | `PerceptionInv` | what the nodes keep and of which source and epoch (`ResultsInv`); what a request, the robot and the preview can hold of it between two awaits (`ReadersTyped`, `RobotInv`, `ViewInv`) |
| `NodeLifecycle`, `LocalStack` | `LifeInv`, `StackInv` | who has the lock has a session to unwind; which children the reaper has passed, and that a router it has missed was started too late |
| `PlanOrder`, `PlanReply` | `OrderInv`, `ReplyInv` | an accepted plan is ordered, and a step that has started finds done all it names; which settings a client can be configured with |
| `PlanCache` | `CacheInv` | what is kept has proved itself as it is kept, and an intent has one plan at most |

`UrBackend` needs the most. That the arm is at rest when its action has settled is not
inductive: a job may be in the queue of the device thread whose coroutine was
cancelled long ago, and a switch or a shutdown may have begun since. `Gated` says that
an action holds the gate and that nothing runs while a switch is under its own fence;
`Awaits` that, until an outcome is unknown, the running action has just the job it
awaits on the device thread, or its answer, and that the arm moves only for that one;
`Switches` says the same of the jobs of a switch; `Linking` that a connection in use
is open, and that no job is about to close it. `SameDevice` and `RestWhenSettled`
follow. In `PlanOrder`, that a step and all it waits for are in a finite order is by
the least element of a set of step numbers (`Least`, and `OneByOne` for what is
reached step by step).

## 6. What is only model-checked

Liveness, and everything that needs ENABLED or fairness: `NodeComesToRest`,
`GoalsAnswered`, `TasksEnd`, `TaskEnds` and `CancelConverges`. The prover has no rules
for them. Every invariant and every action property of a run that passes is a theorem.
The properties of the other four runs are refuted (section 7).

There are two more limits. Induction over data is available only in the form above,
by the least element of a set: an induction theorem of the library takes a predicate
as its parameter, which no prover here can instantiate. And `NodeGate` is shown for
one node at a time; that several nodes are just their product, because they share no
state, is not a theorem here.

## 7. Where the code differs from what is said about it

* `executor_tts_reopens`. A TTS node has no allow_actions service and is meant to
  open again by itself after a cancel. `_execute` does so only when the action ended
  as CANCELLED (`executor.py:400`); an utterance that raises while it is being
  cancelled ends as FAILED and leaves the node HELD, with its stop confirmed, until
  another cancel or a restart opens it.
* `runtime_replaced`. `docs/errors_and_versions.md:55` says that no task can be
  started while another one is executing. `start()` checks this before it awaits
  discovery and not after it (`runtime.py:250`), so it can replace a task that the
  planner has activated meanwhile: the replaced task is reported as RUNNING for
  ever and can no longer be cancelled.
* `peer_rebound`. "Bind once: a disappearing peer must not silently select another
  device" (`system.py:54`). A call that waits for discovery without a name writes
  what it finds over the binding (`system.py:82`), also when another call has bound
  the role since.
* `mode_switch_reopens`. "allow_actions waits for a confirmed switch"
  (`env/ur.py:178`). A hold that comes while the switch waits for the device confirms
  the stop, and allow_actions then opens the gate in the middle of the switch. The
  device is still not exchanged under an action (`SameDevice`).

A fifth behaviour is no contradiction of a document, but not what the word in the
code suggests. When the robot refuses a replayed stop, because another control has
ended the epoch the stop was bound to or because 4096 controls are kept, `_execute`
records it as CONFIRMED, as it does with every phase but UNKNOWN (`voice/node.py:87`):
the event counts as handled, and a later delivery of its id gets the refusal from the
record, also after a first delivery whose outcome is unknown, without the robot being
asked again. The answer itself says `accepted` = false and REJECTED, so nothing unclear
is "recorded as success" (`docs/VOICE_INPUT.md:87`). The same refusal of a stop that was
said stays UNKNOWN and is tried again (`voice/node.py:173`). `ConfirmedStopsStopped`
therefore excepts exactly these: replayed stops whose result does not say "accepted".

## 8. What is not modelled, and why

Left out for good: the text of plans and prompts, HTTP, the grammar of spoken goals,
geometry, kinematics, segmentation and recognition networks, device drivers, the
viewer and the HTML of the preview, configuration and command lines, wording of
errors. They have no control state of their own, or are external. SQLite is an
atomic row update that may fail; Zenoh a wire that loses and delays.

Two known behaviours are in the models without a property, because nothing we know of in the
repository promises the opposite: a job that is still fencing its node may hold it
again after the cancel of its task has opened it (`runtime.py:600`); and after 4096
requests the runtime refuses cancels too (`docs/task_handles.md:160`). In no model is
that `close()` cancels the planner's worker while it executes a task
(`runtime.py:1012`): `TaskExecution` has no `close()`, and `TaskRuntime` has the
cancelled worker without its actions.

What would come next: a composition of several executors in one specification, and
the client registry under the tasks.
