------------------------------ MODULE TaskClient ------------------------------
(***************************************************************************)
(* The handles of a task and of a goal (handles.py), as a program uses     *)
(* them over system.py, or over sync.py from a script, and the requests    *)
(* they make of the agent (nodes/agent/rpc.py; runtime.py, cancel,         *)
(* _duplicate, task_status). A handle knows an identity only: the agent    *)
(* goes on to the task of somebody else, or is started anew and knows no   *)
(* task. A call may be late or lost, and its caller calls again.           *)
(*                                                                         *)
(* There are the task of the handle and another one, which is before it or *)
(* after it. How a task runs is TaskRuntime's: here it ends in any way.    *)
(***************************************************************************)
EXTENDS Naturals, FiniteSets

CONSTANTS
  MaxCancels,   \* bound: calls of cancel() of the handle
  MaxRestarts   \* bound: restarts of the agent

VARIABLES
  mode,      \* how the program calls: from coroutines, from a script, no more
  restarts,  \* of the agent
  current,   \* Runtime.task
  report,    \* what task_status says of each task
  plan,      \* the state of the goal that the task comes of
  receipt,   \* requests[...] of the handle's cancel: what was answered first
  cancels,   \* the calls of cancel(): where the message and its caller are
  poll,      \* the status request of watch(), and the answer to it
  watch,     \* wait() of the goal, and watch() of the task: where they are
  ended,     \* the state in which the task was when watch() ended by itself
  fenced,    \* history: times this agent began to cancel a task for the handle
  asked      \* history: somebody else has cancelled the other task

vars == <<mode, restarts, current, report, plan, receipt, cancels, poll, watch, ended,
          fenced, asked>>

Settled == {"SUCCEEDED", "FAILED", "CANCELLED"}
TERMINAL == Settled \cup {"UNKNOWN"}
States == TERMINAL \cup {"absent", "gone", "QUEUED", "RUNNING", "CANCELLING"}
Tasks == {"mine", "other"}
Calls == 1..MaxCancels
NoReceipt == "none"

TypeOK ==
  /\ mode \in {"async", "sync", "closed"} /\ restarts \in 0..MaxRestarts
  /\ current \in Tasks \cup {"none"} /\ report \in [Tasks -> States]
  /\ plan \in {"absent", "gone", "WAITING", "DONE", "STALE"}
  /\ receipt \in States \cup {NoReceipt}
  /\ cancels \in [Calls -> [sent : {"no", "wire", "over"}, caller : {"idle", "waits", "over"}]]
  /\ poll \in {"none", "asked"} \cup States
  /\ watch \in {"off", "goal", "on", "over"}
  /\ ended \in States \cup {NoReceipt}
  /\ fenced \in 0..MaxCancels /\ asked \in BOOLEAN

Init ==
  /\ mode \in {"async", "sync"} /\ restarts = 0 /\ current = "none"
  /\ report = [t \in Tasks |-> "absent"] /\ plan = "absent" /\ receipt = NoReceipt
  /\ cancels = [c \in Calls |-> [sent |-> "no", caller |-> "idle"]]
  /\ poll = "none" /\ watch = "off" /\ ended = NoReceipt
  /\ fenced = 0 /\ asked = FALSE

agent == <<restarts, current, report, plan, receipt, fenced, asked>>
watching == <<poll, watch, ended>>
caller == <<mode, cancels, watching>>

-------------------------------------------------------------------------------
(* The agent.                                                              *)

Free == current # "none" => report[current] \in Settled

\* start(): of the explicit plan, of the goal that was planned, or of the other's.
Starts(t) ==
  /\ report[t] = "absent" /\ Free
  /\ current' = t /\ report' = [report EXCEPT ![t] = "RUNNING"]
  /\ plan' \in IF plan # "WAITING" THEN {plan}
              ELSE IF t = "mine" THEN {"DONE", "STALE"} ELSE {"STALE"}
  /\ UNCHANGED <<restarts, receipt, fenced, asked, caller>>

\* enqueue(): the handle's task waits behind the other one.
Enqueued ==
  /\ report["mine"] = "absent" /\ current = "other" /\ report["other"] = "RUNNING"
  /\ report' = [report EXCEPT !["mine"] = "QUEUED"]
  /\ UNCHANGED <<restarts, current, plan, receipt, fenced, asked, caller>>

Goal ==
  /\ plan = "absent" /\ report["mine"] = "absent" /\ Free /\ plan' = "WAITING"
  /\ UNCHANGED <<restarts, current, report, receipt, fenced, asked, caller>>

\* A queued task is started by the success of the current one, and ended by
\* everything else that happens to it.
Dequeued(rep, how) ==
  [t \in Tasks |-> IF report[t] = "QUEUED" /\ t # current THEN how ELSE rep[t]]
Executes ==
  /\ current # "none" /\ report[current] = "RUNNING"
  /\ \E end \in TERMINAL :
       LET rep == [report EXCEPT ![current] = end]
           queue == {t \in Tasks : report[t] = "QUEUED"} IN
       /\ report' = Dequeued(rep, IF end = "SUCCEEDED" THEN "RUNNING" ELSE "CANCELLED")
       /\ current' = IF end = "SUCCEEDED" /\ queue # {} THEN CHOOSE t \in queue : TRUE
                     ELSE current
  /\ UNCHANGED <<restarts, plan, receipt, fenced, asked, caller>>
FinishesCancel ==
  /\ current # "none" /\ report[current] = "CANCELLING"
  /\ \E end \in {"CANCELLED", "UNKNOWN"} : report' = [report EXCEPT ![current] = end]
  /\ UNCHANGED <<restarts, current, plan, receipt, fenced, asked, caller>>

\* _begin_cancel.
Cancelling ==
  /\ report' = Dequeued([report EXCEPT ![current] = "CANCELLING"], "CANCELLED")
  /\ plan' = IF plan = "WAITING" THEN "STALE" ELSE plan

\* Somebody else cancels the current task.
OtherCancels ==
  /\ current # "none" /\ report[current] \in {"RUNNING", "UNKNOWN"}
  /\ Cancelling /\ asked' = (asked \/ current = "other")
  /\ UNCHANGED <<restarts, current, receipt, fenced, caller>>

\* The tables are in memory: a new agent knows no task.
AgentRestarts ==
  /\ restarts < MaxRestarts /\ restarts' = restarts + 1
  /\ current' = "none"
  /\ report' = [t \in Tasks |-> IF report[t] = "absent" THEN "absent" ELSE "gone"]
  /\ plan' = IF plan = "absent" THEN "absent" ELSE "gone"
  /\ receipt' = NoReceipt /\ fenced' = 0 /\ asked' = FALSE
  /\ UNCHANGED caller

-------------------------------------------------------------------------------
(* cancel().                                                               *)

\* Session._call: a script has one call under way, in its own thread.
Busy == poll # "none" \/ \E c \in Calls : cancels[c].caller = "waits"
MayCall == mode = "async" \/ (mode = "sync" /\ ~Busy)

\* On the connection that was bound to the agent; every call with one id.
Cancel(c) ==
  /\ MayCall /\ cancels[c].caller = "idle" /\ \A k \in 1..c - 1 : cancels[k].caller # "idle"
  /\ cancels' = [cancels EXCEPT ![c] = [sent |-> "wire", caller |-> "waits"]]
  /\ UNCHANGED <<agent, mode, watching>>

\* The answer reaches a caller that waits for it, or is lost.
Answered(c) ==
  \E now \in {cancels[c].caller, "over"} :
    cancels' = [cancels EXCEPT ![c] = [sent |-> "over", caller |-> now]]

\* _duplicate.
\* Fault: every call is a request of its own.
Known_never == FALSE
Known == receipt # NoReceipt

\* Fault: whatever is current is cancelled.
Targets_current(t) == current # "none"
Targets(t) == current = t

\* cancel() of the runtime; an error is not remembered.
CancelServed(c) ==
  /\ cancels[c].sent = "wire" /\ Answered(c)
  /\ \/ Known /\ UNCHANGED <<report, plan, receipt, fenced>>
     \/ /\ ~Known /\ report["mine"] = "QUEUED"
        /\ report' = [report EXCEPT !["mine"] = "CANCELLED"]
        /\ receipt' = "CANCELLED" /\ UNCHANGED <<plan, fenced>>
     \/ /\ ~Known /\ report["mine"] # "QUEUED" /\ ~Targets("mine")
        /\ UNCHANGED <<report, plan, receipt, fenced>>
     \/ /\ ~Known /\ report["mine"] # "QUEUED" /\ Targets("mine")
        /\ receipt' = IF report[current] \in Settled THEN report[current] ELSE "CANCELLING"
        /\ IF report[current] \in Settled \cup {"CANCELLING"}
           THEN UNCHANGED <<report, plan, fenced>>
           ELSE Cancelling /\ fenced' = fenced + 1
  /\ UNCHANGED <<restarts, current, asked, mode, watching>>

\* The request is lost; the caller gives up, and its request may still come.
CancelLost(c) ==
  /\ cancels[c].sent = "wire" /\ cancels' = [cancels EXCEPT ![c].sent = "over"]
  /\ UNCHANGED <<agent, mode, watching>>
CancelTimeout(c) ==
  /\ cancels[c].caller = "waits" /\ cancels' = [cancels EXCEPT ![c].caller = "over"]
  /\ UNCHANGED <<agent, mode, watching>>

-------------------------------------------------------------------------------
(* watch() and wait(): the task; wait() of the goal.                       *)

\* GoalHandle.wait: until the goal is answered; a plan that was accepted has
\* the handle of its task.
WaitGoal ==
  /\ MayCall /\ watch \in {"off", "goal"} /\ plan # "absent"
  /\ watch' = CASE plan = "WAITING" -> "goal" [] plan = "DONE" -> "on" [] OTHER -> "over"
  /\ UNCHANGED <<agent, mode, cancels, poll, ended>>

Watch ==
  /\ MayCall /\ watch = "off" /\ watch' = "on"
  /\ UNCHANGED <<agent, mode, cancels, poll, ended>>
Poll ==
  /\ MayCall /\ watch = "on" /\ poll = "none" /\ poll' = "asked"
  /\ UNCHANGED <<agent, mode, cancels, watch, ended>>

\* task_status.
\* Fault: the overview of the current task is returned.
Reported_current == IF current = "none" THEN "absent" ELSE report[current]
Reported == report["mine"]
PollServed ==
  /\ poll = "asked" /\ poll' = Reported
  /\ UNCHANGED <<agent, mode, cancels, watch, ended>>

\* Changes are yielded; the end of the task ends the watch, task_not_found too.
Polled ==
  /\ poll \in States /\ poll' = "none"
  /\ ended' = IF poll \in TERMINAL THEN poll ELSE ended
  /\ watch' = IF poll \in TERMINAL \cup {"absent", "gone"} THEN "over" ELSE "on"
  /\ UNCHANGED <<agent, mode, cancels>>

\* The deadline, or the caller closes the iterator: nothing else ends.
WatchEnds ==
  /\ watch \in {"goal", "on"} /\ watch' = "over" /\ poll' = "none"
  /\ UNCHANGED <<agent, mode, cancels, ended>>

\* with connect(), launch(): the end of the script.
SessionEnds ==
  /\ mode = "sync" /\ ~Busy /\ mode' = "closed"
  /\ UNCHANGED <<agent, cancels, watching>>

Next ==
  \/ \E t \in Tasks : Starts(t)
  \/ Enqueued \/ Goal \/ Executes \/ FinishesCancel \/ OtherCancels \/ AgentRestarts
  \/ \E c \in Calls : Cancel(c) \/ CancelServed(c) \/ CancelLost(c) \/ CancelTimeout(c)
  \/ Watch \/ Poll \/ PollServed \/ Polled \/ WatchEnds \/ WaitGoal \/ SessionEnds

-------------------------------------------------------------------------------
\* The handle's cancel never reaches another task, and an agent begins it once
\* however often it is called. A receipt holds: what it says has settled is settled so, and what
\* it says is being cancelled runs no more. What the handle has seen settled
\* stays so while that agent lives; no later task shows through it (handles.py;
\* docs/task_handles.md:130).
HandleIsTrue ==
  /\ fenced <= 1
  /\ report["other"] = "CANCELLING" => asked
  /\ receipt \in Settled => report["mine"] = receipt
  /\ receipt = "CANCELLING" => report["mine"] \in {"CANCELLING", "CANCELLED", "UNKNOWN"}
  /\ ended \in Settled => report["mine"] \in {ended, "gone"}
===============================================================================
