---------------------------- MODULE ActionExecutor ----------------------------
(***************************************************************************)
(* The action executor of one node (executor.py) with its intent journal   *)
(* (store.py).  All but the journal's thread runs on one asyncio loop, so  *)
(* a step is the code between two awaits.  pc[a] is the await at which the *)
(* coroutine _admit_and_execute of action a is suspended:                  *)
(*    "intent"   the save of ACCEPTED, before the second fence check       *)
(*    "running"  the save of RUNNING, before the backend handler           *)
(*    "handler"  the backend handler itself                                *)
(*    "final"    the save of the last status; the node is free again       *)
(* An ActionRequest copies boot_id, control_epoch, state_version and       *)
(* lease_id from one context, so a request is modelled by its lease.  Any  *)
(* issued context may be submitted with any action id at any time, however *)
(* often: lost, late, duplicated and reordered submissions.  A submission  *)
(* that is refused or repeats a known id changes nothing and is no step.   *)
(***************************************************************************)
EXTENDS Naturals, Sequences, FiniteSets

CONSTANTS
  ActionIds,        \* the action ids clients construct
  LeaseIds,         \* the lease ids context() hands out, each one once
  None,             \* "no action", "no context", "no runner"
  RobotControls,    \* features().robot_controls: TRUE for a robot, FALSE for TTS
  LeaseCapacity,    \* 64 in the code
  RecordCapacity,   \* 4096 in the code
  ControlCapacity,  \* 4096 in the code
  MaxBoot,          \* bound: how many times the process starts
  MaxVersion        \* bound on the state versions a backend step can reach

ASSUME NoneAssumption == None \notin ActionIds /\ None \notin LeaseIds
ASSUME RobotAssumption == RobotControls \in BOOLEAN
ASSUME BoundAssumption ==
  /\ LeaseCapacity \in Nat \ {0}
  /\ RecordCapacity \in Nat
  /\ ControlCapacity \in Nat
  /\ MaxBoot \in Nat
  /\ MaxVersion \in Nat

VARIABLES
  boot,           \* boot_id, fresh for every process
  phase,          \* where close() is: up, draining, closing, shut, closed
  epoch,          \* control_epoch
  version,        \* world.version
  admission,      \* OPEN, HELD or UNKNOWN
  stopConfirmed,  \* stop_confirmed
  active,         \* the action that owns the node, or None
  runner,         \* the newest _admit_and_execute task, which close() awaits
  stopSignal,     \* whether the current stop_signal event is set
  leases,         \* the OrderedDict of granted leases, oldest first
  expired,        \* granted leases whose two seconds are over
  contexts,       \* what clients know: the context each lease was issued with
  records,        \* records: the request and the status of every known action
  pc,             \* where the coroutine of each action is suspended
  journal,        \* writes handed to the journal thread, not yet awaited
  disk,           \* the rows of the SQLite table
  controls,       \* the receipts of the accepted control requests, in order
  runs            \* history: how often the handler of each action was called

life == <<boot, phase, runner>>
gate == <<epoch, version, admission, stopConfirmed, active, stopSignal>>
grants == <<leases, expired, contexts>>
work == <<records, pc, journal>>
ledger == <<disk, controls, runs>>
vars == <<life, gate, grants, work, ledger>>

-------------------------------------------------------------------------------
(* Types.                                                                  *)

Known == {"SUCCEEDED", "FAILED", "CANCELLED"}
Terminal == Known \cup {"UNKNOWN"}
States == {"ACCEPTED", "RUNNING", "CANCELLING"} \cup Terminal

Record == [lease : LeaseIds, state : States]
NoRecord == [lease |-> None, state |-> "ABSENT"]
Context == [boot : Nat, epoch : Nat, version : Nat]
Write == [action : ActionIds, record : Record, result : {"queued", "ok", "failed"}]
Receipt == [kind : {"hold", "cancel", "allow_actions"},
            phase : {"STOPPING", "STOPPED", "UNKNOWN", "ACTIONS_ALLOWED"}]

TypeOK ==
  /\ boot \in Nat /\ epoch \in Nat /\ version \in Nat
  /\ phase \in {"up", "draining", "closing", "shut", "closed"}
  /\ admission \in {"OPEN", "HELD", "UNKNOWN"}
  /\ stopConfirmed \in BOOLEAN /\ stopSignal \in BOOLEAN
  /\ active \in ActionIds \cup {None} /\ runner \in ActionIds \cup {None}
  /\ leases \in Seq(LeaseIds) /\ expired \in SUBSET LeaseIds
  /\ contexts \in [LeaseIds -> Context \cup {None}]
  /\ records \in [ActionIds -> Record \cup {NoRecord}]
  /\ pc \in [ActionIds -> {"idle", "intent", "running", "handler", "final", "done"}]
  /\ journal \in Seq(Write)
  /\ disk \in [ActionIds -> Record \cup {NoRecord}]
  /\ controls \in Seq(Receipt)
  /\ runs \in [ActionIds -> Nat]

-------------------------------------------------------------------------------
(* Helpers.                                                                *)

\* Fault: the lookup forgets actions that have ended.
known_unfinished(a) == records[a].state \in {"ACCEPTED", "RUNNING", "CANCELLING"}
known(a) == records[a].state # "ABSENT"

\* _save hands the record to the journal thread.  After journal.close() the
\* thread pool refuses the job and the save fails.
Queued(queue, a, record) ==
  Append(queue, [action |-> a, record |-> record,
                 result |-> IF phase \in {"shut", "closed"} THEN "failed" ELSE "queued"])

\* _status, then _save: the request stays, the state changes.
_status(a, s) == [records EXCEPT ![a].state = s]
Persist(a, s, queue, where) ==
  /\ records' = _status(a, s)
  /\ journal' = Queued(queue, a, [records[a] EXCEPT !.state = s])
  /\ pc' = [pc EXCEPT ![a] = where]

\* _finish_cancel: a node without robot controls reopens by itself.
\* Fault: a robot does so as well.
_finish_cancel_robot(adm, confirmed) ==
  IF adm = "HELD" /\ confirmed THEN "OPEN" ELSE adm
_finish_cancel(adm, confirmed) ==
  IF ~RobotControls /\ adm = "HELD" /\ confirmed THEN "OPEN" ELSE adm

\* _fence_reason returns "" exactly when all of these hold.
Authorised(l) ==
  /\ contexts[l].boot = boot
  /\ contexts[l].epoch = epoch
  /\ admission = "OPEN"
  /\ contexts[l].version = version
  /\ \E i \in DOMAIN leases : leases[i] = l
  /\ l \notin expired

\* a waits at `where' for the oldest save, which has been carried out: the loop
\* resumes coroutines in the order in which the thread finished their saves.
SavedAs(a, where, results) ==
  /\ pc[a] = where
  /\ journal # <<>> /\ Head(journal).action = a /\ Head(journal).result \in results
\* Fault: the coroutine does not wait for the thread.
Saved_unawaited(a, where, result) == SavedAs(a, where, {result, "queued"})
Saved(a, where, result) == SavedAs(a, where, {result})

-------------------------------------------------------------------------------
(* A process starts: Journal.__init__ turns every unfinished row into      *)
(* UNKNOWN, ActionExecutor.__init__ derives the admission from the rows.   *)

Reload(rows, lost) ==
  [a \in ActionIds |-> IF rows[a].state \in Terminal \cup {"ABSENT"} THEN rows[a]
                       ELSE [rows[a] EXCEPT !.state = lost]]
\* Faults: an unfinished action counts as cancelled; a state no contract has.
Reloaded_cancelled(rows) == Reload(rows, "CANCELLED")
Reloaded_untyped(rows) == Reload(rows, "INTERRUPTED")
Reloaded(rows) == Reload(rows, "UNKNOWN")

\* Fault: a restart holds the robot but overlooks unconfirmed effects.
BootAdmission_held(rows) ==
  IF RobotControls /\ (\E a \in ActionIds : rows[a] # NoRecord) THEN "HELD" ELSE "OPEN"
BootAdmission(rows) ==
  IF \E a \in ActionIds : rows[a].state = "UNKNOWN" THEN "UNKNOWN"
  ELSE IF RobotControls /\ (\E a \in ActionIds : rows[a] # NoRecord) THEN "HELD"
  ELSE "OPEN"

Init ==
  /\ boot = 1 /\ phase = "up" /\ epoch = 0 /\ version = 0
  /\ admission = "OPEN" /\ stopConfirmed = TRUE /\ stopSignal = FALSE
  /\ active = None /\ runner = None
  /\ leases = <<>> /\ expired = {} /\ contexts = [l \in LeaseIds |-> None]
  /\ records = [a \in ActionIds |-> NoRecord]
  /\ disk = [a \in ActionIds |-> NoRecord]
  /\ pc = [a \in ActionIds |-> "idle"]
  /\ journal = <<>> /\ controls = <<>>
  /\ runs = [a \in ActionIds |-> 0]

\* The process dies at any point (crash, or exit after close()) and a new one
\* starts on the same journal.  Writes the thread had not carried out are lost.
Restart ==
  /\ boot < MaxBoot
  /\ boot' = boot + 1 /\ phase' = "up" /\ epoch' = 0 /\ version' = 0
  /\ disk' = Reloaded(disk) /\ records' = Reloaded(disk)
  /\ admission' = BootAdmission(Reloaded(disk))
  /\ stopConfirmed' = (admission' # "UNKNOWN") /\ stopSignal' = FALSE
  /\ active' = None /\ runner' = None
  /\ leases' = <<>> /\ expired' = {}
  /\ pc' = [a \in ActionIds |-> "idle"]
  /\ journal' = <<>> /\ controls' = <<>>
  /\ UNCHANGED <<contexts, runs>>

-------------------------------------------------------------------------------
(* Clients: context(), submit(), and the passing of time.                  *)

\* context() grants a lease; the 65th evicts the oldest.
GrantLease(l) ==
  /\ contexts[l] = None
  /\ contexts' = [contexts EXCEPT ![l] =
                    [boot |-> boot, epoch |-> epoch, version |-> version]]
  /\ leases' = IF Len(leases) < LeaseCapacity THEN Append(leases, l)
               ELSE Append(Tail(leases), l)
  /\ UNCHANGED <<life, gate, expired, work, ledger>>

\* Two seconds after its grant a lease no longer authorises anything.
ExpireLease(l) ==
  /\ l \notin expired
  /\ \E i \in DOMAIN leases : leases[i] = l
  /\ expired' = expired \cup {l}
  /\ UNCHANGED <<life, gate, leases, contexts, work, ledger>>

\* submit() accepts a request it has not seen.  The coroutine it creates hands
\* the intent to the journal on the next turn of the loop: one step here.
Submit(a, l) ==
  /\ contexts[l] # None
  /\ ~known(a)
  /\ Authorised(l)
  /\ active = None
  /\ Cardinality({b \in ActionIds : known(b)}) < RecordCapacity
  /\ active' = a /\ stopConfirmed' = FALSE /\ stopSignal' = FALSE
  /\ records' = [records EXCEPT ![a] = [lease |-> l, state |-> "ACCEPTED"]]
  /\ journal' = Queued(journal, a, [lease |-> l, state |-> "ACCEPTED"])
  /\ pc' = [pc EXCEPT ![a] = "intent"]
  \* close() has already read self.runner when the phase is not "up".
  /\ runner' = IF phase = "up" THEN a ELSE runner
  /\ UNCHANGED <<boot, phase, epoch, version, admission, grants, ledger>>

-------------------------------------------------------------------------------
(* The journal's worker thread: one write after the other, each of which   *)
(* may fail.  A failed write leaves the row as it was.                     *)

JournalWrite ==
  \E i \in DOMAIN journal, result \in {"ok", "failed"} :
    /\ journal[i].result = "queued"
    /\ \A j \in 1 .. (i - 1) : journal[j].result # "queued"
    /\ journal' = [journal EXCEPT ![i].result = result]
    /\ disk' = IF result = "ok" THEN [disk EXCEPT ![journal[i].action] = journal[i].record]
               ELSE disk
    /\ UNCHANGED <<life, gate, grants, records, pc, controls, runs>>

-------------------------------------------------------------------------------
(* _admit_and_execute, resumed after the save of ACCEPTED.                 *)

\* The authority was withdrawn or ran out during the save.
IntentFenced(a) ==
  /\ Saved(a, "intent", "ok")
  /\ ~Authorised(records[a].lease) \/ stopSignal
  /\ Persist(a, "CANCELLED", Tail(journal), "final")
  /\ active' = None
  /\ stopConfirmed' = (admission # "UNKNOWN")
  /\ admission' = _finish_cancel(admission, admission # "UNKNOWN")
  /\ UNCHANGED <<life, epoch, version, stopSignal, grants, ledger>>

IntentAdmitted(a) ==
  /\ Saved(a, "intent", "ok")
  /\ Authorised(records[a].lease)
  /\ ~stopSignal
  /\ Persist(a, "RUNNING", Tail(journal), "running")
  /\ UNCHANGED <<life, gate, grants, ledger>>

-------------------------------------------------------------------------------
(* _execute.                                                               *)

\* The fence is closed for this request: checked before the handler is called
\* and again when it has returned.
\* Fault: the event is looked at only while the node is open.
Stopped_while_open(a) == stopSignal /\ admission = "OPEN"
Stopped(a) ==
  stopSignal \/ contexts[records[a].lease].epoch # epoch \/ admission # "OPEN"

\* The finally block: the node is free again and the last status is saved.
\* queue is the journal without the write this coroutine was waiting for.
\* Fault: the node is freed only after a success.
Finish_success_frees(a, state, queue) ==
  /\ Persist(a, state, queue, "final")
  /\ active' = IF state = "SUCCEEDED" THEN None ELSE active
Finish(a, state, queue) ==
  /\ Persist(a, state, queue, "final")
  /\ active' = None

\* "controlled_stop"
\* Fault: the stop is not confirmed.
FinishStopped_unconfirmed(a, queue) ==
  /\ Finish(a, "CANCELLED", queue)
  /\ stopConfirmed' = stopConfirmed
  /\ admission' = _finish_cancel(admission, stopConfirmed)
FinishStopped(a, queue) ==
  /\ Finish(a, "CANCELLED", queue)
  /\ stopConfirmed' = TRUE
  /\ admission' = _finish_cancel(admission, TRUE)

\* Every way in which the node loses track of its backend.
FinishUnknown(a, queue) ==
  /\ Finish(a, "UNKNOWN", queue)
  /\ stopConfirmed' = FALSE
  /\ admission' = "UNKNOWN"

\* The save of RUNNING failed; the handler is not called.
RunningLost(a) ==
  /\ Saved(a, "running", "failed")
  /\ FinishUnknown(a, Tail(journal))
  /\ stopSignal' = TRUE
  /\ UNCHANGED <<life, epoch, version, grants, ledger>>

\* A stop arrived during the save; the handler is not called.
StoppedBeforeHandler(a) ==
  /\ Saved(a, "running", "ok")
  /\ Stopped(a)
  /\ FinishStopped(a, Tail(journal))
  /\ UNCHANGED <<life, epoch, version, stopSignal, grants, ledger>>

StartHandler(a) ==
  /\ Saved(a, "running", "ok")
  /\ ~Stopped(a)
  /\ runs' = [runs EXCEPT ![a] = @ + 1]
  /\ journal' = Tail(journal)
  /\ pc' = [pc EXCEPT ![a] = "handler"]
  /\ UNCHANGED <<life, gate, grants, records, disk, controls>>

\* progress(value): silent once a stop has been signalled.
\* Fault: progress is reported after the stop as well.
Progress_after_stop(a) ==
  /\ pc[a] = "handler"
  /\ records' = _status(a, "RUNNING")
  /\ UNCHANGED <<life, gate, grants, pc, journal, ledger>>
Progress(a) == ~stopSignal /\ Progress_after_stop(a)

\* A robot backend raises world.version with every waypoint it has reached
\* (env/wrs.py), also those of a motion that is stopped half-way.
BackendMoves(a) ==
  /\ RobotControls
  /\ pc[a] = "handler"
  /\ version < MaxVersion
  /\ version' = version + 1
  /\ UNCHANGED <<life, epoch, admission, stopConfirmed, active, stopSignal, grants,
                 work, ledger>>

\* The handler is over.  Returning after a stop it was stopped, whatever it
\* returns; otherwise its verified postcondition decides and the state version
\* rises.  SkillFailure and other exceptions are FAILED, stopped or not.
\* ExecutionUnknown, or a worker cancelled as the process exits, is UNKNOWN.
HandlerEnds(a) ==
  /\ pc[a] = "handler"
  /\ \/ Stopped(a) /\ FinishStopped(a, journal) /\ UNCHANGED version
     \/ /\ ~Stopped(a)
        /\ \E state \in {"SUCCEEDED", "FAILED"} : Finish(a, state, journal)
        /\ stopConfirmed' = TRUE /\ version' = version + 1 /\ UNCHANGED admission
     \/ /\ Finish(a, "FAILED", journal)
        /\ stopConfirmed' = TRUE /\ UNCHANGED <<version, admission>>
     \/ FinishUnknown(a, journal) /\ UNCHANGED version
  /\ UNCHANGED <<life, epoch, stopSignal, grants, ledger>>

FinalSaved(a) ==
  /\ Saved(a, "final", "ok")
  /\ journal' = Tail(journal)
  /\ pc' = [pc EXCEPT ![a] = "done"]
  /\ UNCHANGED <<life, gate, grants, records, ledger>>

\* A first or a last save failed: the node no longer knows what is on disk.
\* The exception ends the coroutine, _save has already closed the node.
SaveLost(a) ==
  /\ Saved(a, "intent", "failed") \/ Saved(a, "final", "failed")
  /\ active' = IF pc[a] = "intent" THEN None ELSE active
  /\ admission' = "UNKNOWN"
  /\ stopConfirmed' = FALSE
  /\ stopSignal' = TRUE
  /\ records' = _status(a, "UNKNOWN")
  /\ journal' = Tail(journal)
  /\ pc' = [pc EXCEPT ![a] = "done"]
  /\ UNCHANGED <<life, epoch, version, grants, ledger>>

-------------------------------------------------------------------------------
(* control(): hold, cancel, allow_actions.  A request that names another    *)
(* boot or epoch is stale and refused, one that repeats an interrupt_id     *)
(* gets the stored receipt; neither changes anything.  Every accepted       *)
(* request raises the epoch and stores one receipt, so controls holds the   *)
(* receipts in the order of their epochs.                                   *)

\* Fault: a hold also closes a node that was UNKNOWN with a plain HELD.
HeldAdmission_always == "HELD"
HeldAdmission == IF admission = "UNKNOWN" THEN "UNKNOWN" ELSE "HELD"

\* Fault: accepting the hold counts as the stop.
HoldConfirmed_at_once == admission # "UNKNOWN"
HoldConfirmed == active = None /\ admission # "UNKNOWN"

\* Fault: the receipt looks at the admission instead of the active action.
ReceiptPhase_by_admission == IF admission = "UNKNOWN" THEN "UNKNOWN" ELSE "STOPPED"
ReceiptPhase == IF active # None THEN "STOPPING"
                ELSE IF HoldConfirmed THEN "STOPPED" ELSE "UNKNOWN"

\* The fence of hold and cancel: atomic, waiting for neither motion nor disk.
Fence(kind) ==
  /\ epoch' = epoch + 1
  /\ leases' = <<>>
  /\ expired' = {}
  /\ stopSignal' = TRUE
  /\ stopConfirmed' = HoldConfirmed
  /\ admission' = IF active = None THEN _finish_cancel(HeldAdmission, HoldConfirmed)
                  ELSE HeldAdmission
  /\ controls' = Append(controls, [kind |-> kind, phase |-> ReceiptPhase])
  /\ records' = IF active # None THEN _status(active, "CANCELLING") ELSE records

\* A node registers hold only when it has robot controls (nodes/action_rpc.py).
Hold ==
  /\ RobotControls
  /\ Len(controls) < ControlCapacity
  /\ Fence("hold")
  /\ UNCHANGED <<life, version, active, contexts, pc, journal, disk, runs>>

\* target = None cancels the whole node, including submissions still under way.
Cancel(target) ==
  /\ target # None => target = active
  /\ Len(controls) < ControlCapacity
  /\ Fence("cancel")
  /\ UNCHANGED <<life, version, active, contexts, pc, journal, disk, runs>>

\* The request carries the state version its sender saw; here it is current.
AllowActions ==
  /\ RobotControls
  /\ Len(controls) < ControlCapacity
  /\ admission = "HELD"
  /\ stopConfirmed
  /\ active = None
  /\ epoch' = epoch + 1
  /\ leases' = <<>>
  /\ expired' = {}
  /\ admission' = "OPEN"
  /\ controls' = Append(controls, [kind |-> "allow_actions", phase |-> "ACTIONS_ALLOWED"])
  /\ UNCHANGED <<life, version, stopConfirmed, active, stopSignal, contexts, work, disk,
                 runs>>

-------------------------------------------------------------------------------
(* close(): hold the active action, wait for the newest runner, shut the    *)
(* journal's thread pool down, close the backend.  The node's transport is  *)
(* closed later (nodes/node.py), so requests still arrive.                  *)

RunnerDone == runner = None \/ pc[runner] = "done"

CloseActive ==
  /\ phase = "up"
  /\ active # None
  /\ phase' = "draining"
  /\ IF Len(controls) < ControlCapacity THEN Fence("hold")
     ELSE UNCHANGED <<epoch, leases, expired, stopSignal, stopConfirmed, admission,
                      controls, records>>
  /\ UNCHANGED <<boot, runner, version, active, contexts, pc, journal, disk, runs>>

CloseStep ==
  /\ \/ phase = "up" /\ active = None
        /\ phase' = IF RunnerDone THEN "closing" ELSE "draining"
     \/ phase = "draining" /\ RunnerDone /\ phase' = "closing"
     \* Journal.close() in a thread: it accepts no write from here on,
     \/ phase = "closing" /\ phase' = "shut"
     \* has waited for the queue when it returns, and close_backend() follows.
     \/ /\ phase = "shut" /\ phase' = "closed"
        /\ \A i \in DOMAIN journal : journal[i].result # "queued"
  /\ UNCHANGED <<boot, runner, gate, grants, work, ledger>>

-------------------------------------------------------------------------------
\* The coroutine of a, from one await to the next.
Resume(a) ==
  \/ IntentFenced(a) \/ IntentAdmitted(a)
  \/ RunningLost(a) \/ StoppedBeforeHandler(a) \/ StartHandler(a)
  \/ FinalSaved(a) \/ SaveLost(a)

Next ==
  \/ \E l \in LeaseIds : GrantLease(l) \/ ExpireLease(l)
  \/ \E a \in ActionIds, l \in LeaseIds : Submit(a, l)
  \/ JournalWrite
  \/ \E a \in ActionIds : Resume(a) \/ HandlerEnds(a) \/ Progress(a) \/ BackendMoves(a)
  \/ Hold
  \/ \E target \in ActionIds \cup {None} : Cancel(target)
  \/ AllowActions
  \/ CloseActive
  \/ CloseStep
  \/ Restart

\* The journal thread and the event loop keep going; a handler returns: every
\* backend of the repository is bounded and looks at its stop signal.
Fairness ==
  /\ WF_vars(JournalWrite)
  /\ \A a \in ActionIds : WF_vars(Resume(a)) /\ WF_vars(HandlerEnds(a))

Spec == Init /\ [][Next]_vars
FairSpec == Spec /\ Fairness

-------------------------------------------------------------------------------
(* Properties.                                                             *)

Owning == {"intent", "running", "handler"}

\* At most one coroutine is between acceptance and its last status, it is the
\* one the node reports as active, and no handler outlives that report: what
\* submit's resource_busy check and snapshot()'s active_action rest on.
OneOwner ==
  \A a \in ActionIds : pc[a] \in Owning <=> active = a

\* stop_confirmed is the promise a robot operator acts on: whenever it is
\* shown, no coroutine can still reach a backend and the node has not lost
\* track of one (executor.py sets it in five places, each by its own rule).
StopIsTrue ==
  stopConfirmed => /\ active = None
                   /\ admission # "UNKNOWN"

\* While a handler may touch the device, the intent to run it is on disk and
\* the last status of every other action is too: the save that submit starts
\* queues behind the last save of the action before it (store.py, one thread).
WriteAhead ==
  \A a \in ActionIds : pc[a] = "handler" =>
    /\ disk[a].state = "RUNNING"
    /\ \A b \in ActionIds \ {a} : known(b) => disk[b] = records[b]

\* Over all restarts, repeated submissions and races with stops, the handler
\* of an action id is called at most once (submit's lookup in records, and
\* the journal the records come from).
AtMostOnce == \A a \in ActionIds : runs[a] <= 1

\* A node that admits actions knows how every action that ever touched its
\* backend ended, except the one it is running: an effect nobody confirmed
\* keeps admission closed across restarts and failed writes.
NoBlindReopen ==
  admission = "OPEN" =>
    \A a \in ActionIds :
      runs[a] > 0 /\ active # a => records[a].state \in Known

\* A receipt that said STOPPED stays true until a later receipt allowed
\* actions again, so a client may act on a stored receipt it got by retrying.
StoppedReceiptHolds ==
  RobotControls =>
    \A i \in DOMAIN controls :
      /\ controls[i].phase = "STOPPED"
      /\ \A j \in DOMAIN controls : j > i => controls[j].kind # "allow_actions"
      => active = None

\* A handler is only ever called for a request whose context is the present
\* one: same process, same epoch, same state version, although two saves
\* and any number of controls lie between the check in submit and the call.
EffectUnderAuthority ==
  [][\A a \in ActionIds : runs'[a] # runs[a] =>
       /\ contexts[records[a].lease] =
            [boot |-> boot, epoch |-> epoch, version |-> version]
       /\ admission = "OPEN"]_vars

\* An outcome that was once visible is never replaced by another outcome or
\* by a running state; a lost write or a restart may only make it UNKNOWN.
OutcomeStands ==
  [][\A a \in ActionIds : records[a].state \in Known =>
       records'[a].state \in {records[a].state, "UNKNOWN"}]_vars

\* CANCELLING is never taken back: a late progress report, a late result or a
\* finished save cannot make a stopped action look as if it were running.
StopNotTakenBack ==
  [][\A a \in ActionIds : records[a].state = "CANCELLING" =>
       records'[a].state \in {"CANCELLING", "CANCELLED", "FAILED", "UNKNOWN"}
         \/ boot' # boot]_vars

\* Within one process nothing reopens a node that lost track of its backend.
UnknownIsFinal ==
  [][admission = "UNKNOWN" /\ admission' # "UNKNOWN" => boot' # boot]_vars

\* What the node has reported is never taken back: not an outcome, by a restart
\* or a late result (store.py:26, executor.py:201), not a stop, by late progress
\* (executor.py:340), and not its own doubt, by anything but a new process
\* (executor.py:465).
NothingTakenBack == OutcomeStands /\ StopNotTakenBack /\ UnknownIsFinal

\* Every hold or cancel is answered: the node comes to a confirmed stop or
\* admits that it cannot confirm one.
StopConverges ==
  (admission = "HELD" /\ ~stopConfirmed) ~> (stopConfirmed \/ admission = "UNKNOWN")

\* The node does not stay occupied by one action for ever.
NodeIsFreed == \A a \in ActionIds : active = a ~> active # a

\* The node comes to rest: each stop is answered, and each action lets go of the
\* node, also one whose save fails or that is stopped between two saves
\* (executor.py:363, :399).
NodeComesToRest == StopConverges /\ NodeIsFreed

\* "TTS cancellation ends one utterance. New work still needs a fresh
\* epoch/lease." (executor.py:180) and "TTS has no hold/allow_actions service"
\* (nodes/action_rpc.py:253): once its stop is confirmed, a node without
\* robot controls is not left closed.
CancelledNodeReopens ==
  ~RobotControls => ~(admission = "HELD" /\ stopConfirmed)
===============================================================================
