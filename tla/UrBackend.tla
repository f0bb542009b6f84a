------------------------------- MODULE UrBackend -------------------------------
(***************************************************************************)
(* The robot backend that starts virtual and may be switched to the real   *)
(* arm (env/ur.py, env/ur_rtde.py, env/wrs.py). The coroutines of the      *)
(* event loop - the handler of the one action, the mode switch, the        *)
(* monitor and close - hand jobs to one device thread, in order. Of the    *)
(* executor above it there is the gate: its admission, epoch, stop signal  *)
(* and what it calls confirmed; ActionExecutor has the rest.               *)
(***************************************************************************)
EXTENDS Naturals, Sequences, FiniteSets

CONSTANTS
  AllowHardware,  \* the node was started with hardware allowed
  MaxLinks,       \* bound: connections opened
  MaxEpoch,       \* bound: control epochs
  None

VARIABLES
  gate,      \* of the executor: admission, epoch, confirmed, active, stop
  driver,    \* link["driver"]: the connection in use, or None
  links,     \* connections made so far
  open,      \* connections that are open at the robot
  device,    \* the jobs of the device thread, oldest first
  done,      \* per coroutine, the result it has not resumed with
  switch,    \* switch(): where it is, its epoch and its connection
  action,    \* advance(): where it is, and the connection it read at its start
  halt,      \* the event track() shares with the device thread
  arm,       \* the arm: at rest, moving under servo, or slowing down
  watcher,   \* monitor(): sleeping, reading, or cancelled
  closing    \* close(): of the executor, its journal, the driver; shut: no more jobs

robot == <<open, arm>>
loop == <<gate, driver, switch, action, halt, watcher, closing>>
vars == <<loop, links, device, done, robot>>

Links == 1..MaxLinks
Callers == {"switch", "action", "watcher", "close"}
Moves == {"reading", "following", "virtual", "step", "final"}

TypeOK ==
  /\ gate \in [admission : {"OPEN", "HELD", "UNKNOWN"}, epoch : 1..MaxEpoch,
               confirmed : BOOLEAN, active : BOOLEAN, stop : BOOLEAN]
  /\ driver \in Links \cup {None} /\ links \in 0..MaxLinks /\ open \subseteq Links
  /\ device \in Seq([who : Callers, job : {"connect", "read", "follow", "close"},
                     on : Links \cup {None}])
  /\ done \in [Callers -> {"none", "ready", "unready", "done", "stopped", "failed", "lost"}]
  /\ switch \in [at : {"no", "connect", "read", "refuse", "mirror", "release"},
                 fenced : 0..MaxEpoch, on : Links \cup {None}]
  /\ action \in [at : {"no"} \cup Moves, on : Links \cup {None}]
  /\ halt \in BOOLEAN /\ arm \in {"rest", "moving", "slowing"}
  /\ watcher \in {"sleep", "read", "cancelled"}
  /\ closing \in {"no", "asked", "journal", "driver", "shut"}

Idle == [at |-> "no", on |-> None]
Init ==
  /\ gate = [admission |-> "HELD", epoch |-> 1, confirmed |-> TRUE, active |-> FALSE, stop |-> FALSE]
  /\ driver = None /\ links = 0 /\ open = {} /\ device = <<>>
  /\ done = [c \in Callers |-> "none"]
  /\ switch = [at |-> "no", fenced |-> 0, on |-> None]
  /\ action = Idle /\ halt = FALSE /\ arm = "rest"
  /\ watcher = "sleep" /\ closing = "no"

-------------------------------------------------------------------------------
(* The gate (executor.py).                                                 *)

Gate(a, e, c) == [gate EXCEPT !.admission = a, !.epoch = e, !.confirmed = c]

Submit ==
  /\ gate.admission = "OPEN" /\ ~gate.active
  /\ gate' = [gate EXCEPT !.active = TRUE, !.confirmed = FALSE, !.stop = FALSE]
  /\ UNCHANGED <<driver, switch, action, halt, watcher, closing, links, device, done, robot>>

Held == [Gate(IF gate.admission = "UNKNOWN" THEN "UNKNOWN" ELSE "HELD", gate.epoch + 1,
              ~gate.active /\ gate.admission # "UNKNOWN") EXCEPT !.stop = TRUE]
Hold ==
  /\ gate.epoch < MaxEpoch
  /\ gate' = Held
  /\ UNCHANGED <<driver, switch, action, halt, watcher, closing, links, device, done, robot>>

AllowActions ==
  /\ gate.epoch < MaxEpoch /\ gate.admission = "HELD" /\ gate.confirmed /\ ~gate.active
  /\ gate' = Gate("OPEN", gate.epoch + 1, gate.confirmed)
  /\ UNCHANGED <<driver, switch, action, halt, watcher, closing, links, device, done, robot>>

\* _execute, after the handler.
Fenced == gate.stop \/ gate.admission # "OPEN"
Over(how) ==
  /\ action' = Idle
  /\ gate' = CASE how \in {"unknown", "cancelled"} ->
                    [Gate("UNKNOWN", gate.epoch, FALSE) EXCEPT !.active = FALSE]
               [] OTHER -> [gate EXCEPT !.active = FALSE, !.confirmed = TRUE]

-------------------------------------------------------------------------------
(* The device thread: jobs in order, each to its end.                      *)

Push(c, job, on) == device' = Append(device, [who |-> c, job |-> job, on |-> on])
Take(c) == done' = [done EXCEPT ![c] = "none"]
Doing(job) == device # <<>> /\ Head(device).job = job
Finish(result) ==
  /\ device' = Tail(device)
  /\ done' = [done EXCEPT ![Head(device).who] =
                IF Head(device).who = "action" /\ action.at = "no" THEN @ ELSE result]

\* connect: what was opened is closed again when a later part fails.
Connects ==
  /\ Doing("connect") /\ links < MaxLinks
  /\ \/ links' = links + 1 /\ open' = open \cup {links + 1} /\ Finish("done")
     \/ UNCHANGED <<links, open>> /\ Finish("failed")
  /\ UNCHANGED <<loop, arm>>

Reads ==
  /\ Doing("read")
  /\ \/ Head(device).on \in open /\ \E s \in {"ready", "unready"} : Finish(s)
     \/ Finish("failed")
  /\ UNCHANGED <<loop, links, robot>>

\* follow: every period looks at the event. Whatever ends the stream, the
\* servo is stopped; a device fault is raised without waiting for rest.
Streams ==
  /\ Doing("follow") /\ arm = "rest"
  /\ IF Head(device).on \notin open THEN Finish("failed") /\ UNCHANGED arm
     ELSE IF halt THEN arm' = "slowing" /\ UNCHANGED <<device, done>>
     ELSE \/ arm' = "moving" /\ UNCHANGED <<device, done>>
          \/ Finish("failed") /\ UNCHANGED arm
  /\ UNCHANGED <<loop, links, open>>
ServoEnds ==
  /\ Doing("follow") /\ arm = "moving"
  /\ arm' = "slowing"
  /\ \/ Finish("failed")
     \/ UNCHANGED <<device, done>>
  /\ UNCHANGED <<loop, links, open>>

\* _wait_rest.
\* Fault: follow returns when the servo has been told to stop.
AtRest_assumed(now) == TRUE
AtRest(now) == now = "rest"
Rests ==
  /\ arm = "slowing"
  /\ \E now \in {"rest", "slowing"} :
       /\ arm' = now
       /\ IF ~Doing("follow") THEN UNCHANGED <<device, done>>
          ELSE Finish(IF AtRest(now) THEN IF halt THEN "stopped" ELSE "done" ELSE "failed")
  /\ UNCHANGED <<loop, links, open>>

Closes ==
  /\ Doing("close") /\ open' = open \ {Head(device).on} /\ Finish("done")
  /\ UNCHANGED <<loop, links, arm>>

-------------------------------------------------------------------------------
(* advance: the handler of an action.                                      *)

\* The executor runs the handler unless the gate was shut meanwhile, or the
\* journal is; the handler reads the link once.
Begin ==
  /\ gate.active /\ action.at = "no"
  /\ \/ Fenced /\ Over("stopped") /\ UNCHANGED <<device, halt>>
     \/ closing \notin {"no", "asked"} /\ Over("unknown") /\ UNCHANGED <<device, halt>>
     \/ /\ ~Fenced /\ closing \in {"no", "asked", "journal"}
        /\ UNCHANGED gate /\ halt' = FALSE
        /\ action' = [at |-> IF driver = None THEN "virtual" ELSE "reading", on |-> driver]
        /\ IF driver = None THEN UNCHANGED device ELSE Push("action", "read", driver)
  /\ UNCHANGED <<driver, switch, watcher, closing, links, done, robot>>

\* advance_virtual: one model step at a time, on the model's thread; the stop
\* is looked at before and after each.
Virtual ==
  /\ \/ /\ action.at = "virtual"
        /\ \/ gate.stop /\ Over("stopped")
           \/ ~gate.stop /\ action' = [action EXCEPT !.at = "step"] /\ UNCHANGED gate
           \/ ~gate.stop /\ Over("verified")
     \/ /\ action.at = "step"
        /\ \/ action' = [action EXCEPT !.at = "virtual"] /\ UNCHANGED gate
           \/ Over("unknown")
  /\ UNCHANGED <<driver, switch, halt, watcher, closing, links, device, done, robot>>

\* The first reading: an observation, a refusal or a motion.
Measured ==
  /\ action.at = "reading" /\ done.action # "none" /\ Take("action")
  /\ \/ Over("unknown") /\ UNCHANGED device  \* the reading or its mirror fails
     \/ done.action = "ready" /\ closing # "shut" /\ Push("action", "follow", action.on)
        /\ action' = [action EXCEPT !.at = "following"] /\ UNCHANGED gate
     \/ done.action # "failed" /\ Over("observed") /\ UNCHANGED device
  /\ UNCHANGED <<driver, switch, halt, watcher, closing, links, robot>>

\* track: the stop is handed to the device thread, and the job is awaited.
\* Fault: the stop ends the wait.
Tracked_stop == done.action # "none" \/ gate.stop
Tracked == done.action # "none"
Track ==
  /\ action.at = "following"
  /\ \/ gate.stop /\ ~halt /\ halt' = TRUE /\ UNCHANGED <<gate, action, device, done>>
     \/ /\ Tracked /\ Take("action") /\ UNCHANGED halt
        /\ IF done.action = "failed" \/ closing = "shut" THEN Over("unknown") /\ UNCHANGED device
           ELSE /\ action' = [action EXCEPT !.at = "final"] /\ UNCHANGED gate
                /\ Push("action", "read", action.on)
     \/ halt' = TRUE /\ Over("unknown") /\ UNCHANGED <<device, done>>  \* mirror fails
  /\ UNCHANGED <<driver, switch, watcher, closing, links, robot>>

Verified ==
  /\ action.at = "final" /\ done.action # "none" /\ Take("action")
  /\ Over(IF done.action = "failed" THEN "unknown" ELSE "verified")
  /\ UNCHANGED <<driver, switch, halt, watcher, closing, links, device, robot>>

\* The worker of the executor is cancelled; the device thread is told to halt.
Cancelled ==
  /\ action.at # "no" /\ Over("cancelled")
  /\ halt' = (halt \/ action.at = "following")
  /\ Take("action")
  /\ UNCHANGED <<driver, switch, watcher, closing, links, device, robot>>

-------------------------------------------------------------------------------
(* switch: between the virtual and the real robot.                         *)

Switching == switch.at # "no"
Done == switch' = [switch EXCEPT !.at = "no", !.on = None]
        /\ gate' = [gate EXCEPT !.confirmed = gate.admission # "UNKNOWN"]

SwitchStart ==
  /\ closing # "shut" /\ ~Switching /\ gate.epoch < MaxEpoch
  /\ driver = None => AllowHardware /\ links < MaxLinks
  /\ ~gate.active /\ gate.admission # "UNKNOWN" /\ gate.confirmed
  /\ gate' = Gate("HELD", gate.epoch + 1, FALSE)
  /\ switch' = [at |-> IF driver = None THEN "connect" ELSE "release",
                fenced |-> gate.epoch + 1, on |-> None]
  /\ driver' = None
  /\ Push("switch", IF driver = None THEN "connect" ELSE "close", driver)
  /\ UNCHANGED <<action, halt, watcher, closing, links, done, robot>>

\* What happened to the gate while the robot connected.
Interrupted == gate.epoch # switch.fenced

Connected ==
  /\ switch.at = "connect" /\ done.switch # "none" /\ Take("switch")
  /\ IF done.switch = "failed" \/ closing = "shut" THEN Done /\ UNCHANGED device
     ELSE /\ switch' = [switch EXCEPT !.at = "read", !.on = links]
          /\ UNCHANGED gate /\ Push("switch", "read", links)
  /\ UNCHANGED <<driver, action, halt, watcher, closing, links, robot>>
Checked ==
  /\ switch.at = "read" /\ done.switch # "none" /\ Take("switch")
  /\ CASE done.switch = "failed" -> Done /\ UNCHANGED <<driver, device>>
       [] done.switch # "failed" /\ (done.switch = "unready" \/ Interrupted) ->
            /\ UNCHANGED driver
            /\ IF closing = "shut" THEN Done /\ UNCHANGED device
               ELSE /\ switch' = [switch EXCEPT !.at = "refuse"] /\ UNCHANGED gate
                    /\ Push("switch", "close", switch.on)
       [] OTHER -> driver' = switch.on /\ switch' = [switch EXCEPT !.at = "mirror"]
                   /\ UNCHANGED <<gate, device>>
  /\ UNCHANGED <<action, halt, watcher, closing, links, robot>>
SwitchEnds ==
  /\ \/ switch.at = "mirror" /\ UNCHANGED done
     \/ switch.at \in {"refuse", "release"} /\ done.switch # "none" /\ Take("switch")
  /\ Done
  /\ UNCHANGED <<driver, action, halt, watcher, closing, links, device, robot>>

-------------------------------------------------------------------------------
(* monitor, close.                                                         *)

Monitor ==
  /\ \/ /\ watcher = "sleep" /\ driver # None /\ ~Switching /\ ~gate.active
        /\ watcher' = "read" /\ Push("watcher", "read", driver) /\ UNCHANGED done
     \/ /\ watcher = "read" /\ done.watcher # "none" /\ Take("watcher")
        /\ watcher' = "sleep" /\ UNCHANGED device
  /\ UNCHANGED <<gate, driver, switch, action, halt, closing, links, robot>>

\* The executor holds its action and waits for it, then it closes its journal;
\* what is submitted then is still accepted.
CloseExecutor ==
  /\ \/ /\ closing = "no" /\ closing' = "asked"
        /\ gate.active => gate.epoch < MaxEpoch
        /\ gate' = IF gate.active THEN Held ELSE gate
     \/ closing = "asked" /\ ~gate.active /\ closing' = "journal" /\ UNCHANGED gate
  /\ UNCHANGED <<driver, switch, action, halt, watcher, links, device, done, robot>>
CloseBackend ==
  /\ closing = "journal" /\ closing' = "driver"
  /\ watcher' = "cancelled" /\ Take("watcher") /\ driver' = None
  /\ IF driver = None THEN UNCHANGED device ELSE Push("close", "close", driver)
  /\ UNCHANGED <<gate, switch, action, halt, links, robot>>
Shutdown ==
  /\ closing = "driver" /\ \A i \in DOMAIN device : device[i].who # "close"
  /\ closing' = "shut"
  /\ UNCHANGED <<gate, driver, switch, action, halt, watcher, links, device, done, robot>>

Next ==
  \/ Submit \/ Hold \/ AllowActions
  \/ Connects \/ Reads \/ Streams \/ ServoEnds \/ Rests \/ Closes
  \/ Begin \/ Virtual \/ Measured \/ Track \/ Verified \/ Cancelled
  \/ SwitchStart \/ Connected \/ Checked \/ SwitchEnds
  \/ Monitor \/ CloseExecutor \/ CloseBackend \/ Shutdown

Spec == Init /\ [][Next]_vars

-------------------------------------------------------------------------------
\* When the executor has no action and does not say UNKNOWN, the arm is at
\* rest: no stop, fault, cancel or failed mirror lets a settled action leave a
\* motion behind on the device thread (ur.py, track; ur_rtde.py, follow).
RestWhenSettled == ~gate.active /\ gate.admission # "UNKNOWN" => arm = "rest"

\* The device of a running action is never exchanged or closed under it, and
\* no virtual action runs once the real robot is linked, although a hold and
\* an allow_actions may open the gate in the middle of a switch (ur.py, switch).
\* An action accepted while the executor closes may lose its device: it fails
\* as UNKNOWN.
SameDevice ==
  action.at # "no" /\ closing \notin {"driver", "shut"} =>
    driver = action.on /\ (action.on # None => action.on \in open)

\* "Fence like hold: old leases die; allow_actions waits for a confirmed
\* switch." (ur.py:178)
GateWaitsForSwitch == Switching => gate.admission # "OPEN"
===============================================================================
