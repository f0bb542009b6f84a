------------------------------- MODULE LocalStack -------------------------------
(***************************************************************************)
(* The launcher of a local system (processes.py): it starts the router in  *)
(* a thread, connects, starts the nodes, waits for all of them, and on the *)
(* way out asks the nodes to shut down and reaps every process, again in a *)
(* thread. Any process may end by itself at any time, or ignore what it is *)
(* asked; a kill ends it.                                                  *)
(***************************************************************************)
EXTENDS Naturals

CONSTANT Count   \* nodes; process 0 is the router, the others are in order

VARIABLES
  pc,        \* the launcher
  starter,   \* the thread of start_router
  reaper,    \* the thread of _reap
  proc,      \* every process
  spawned,   \* nodes started
  next,      \* the process the launcher or the reaper is at
  signalled, \* processes that were told to end by a signal
  late       \* history: the router was started after the reaper had begun

vars == <<pc, starter, reaper, proc, spawned, next, signalled, late>>

Processes == 0..Count

TypeOK ==
  /\ pc \in {"router", "spawning", "waiting", "up", "leaving", "reaping", "gone"}
  /\ starter \in {"checking", "polling", "ready", "failed"}
  /\ reaper \in {"idle", "next", "waiting", "terminated", "ended"}
  /\ proc \in [Processes -> {"none", "running", "exited"}]
  /\ spawned \in 0..Count /\ next \in 0..(Count + 1)
  /\ signalled \subseteq Processes /\ late \in BOOLEAN

Init ==
  /\ pc = "router" /\ starter = "checking" /\ reaper = "idle"
  /\ proc = [p \in Processes |-> "none"] /\ spawned = 0 /\ next = 0
  /\ signalled = {} /\ late = FALSE

-------------------------------------------------------------------------------
(* start_router, in its thread.                                            *)

\* The port is taken, there is no router or it is of another version.
StartFails ==
  /\ starter = "checking" /\ starter' = "failed"
  /\ UNCHANGED <<pc, reaper, proc, spawned, next, signalled, late>>
StartRouter ==
  /\ starter = "checking" /\ starter' = "polling"
  /\ proc' = [proc EXCEPT ![0] = "running"] /\ late' = (reaper # "idle")
  /\ UNCHANGED <<pc, reaper, spawned, next, signalled>>
\* The port answers, the router has exited, or five seconds are over.
Polled ==
  /\ starter = "polling"
  /\ starter' \in IF proc[0] = "exited" THEN {"failed"} ELSE {"ready", "failed"}
  /\ UNCHANGED <<pc, reaper, proc, spawned, next, signalled, late>>

-------------------------------------------------------------------------------
(* __aenter__ and __aexit__.                                               *)

Leave == pc' = "leaving" /\ next' = spawned

\* The launcher connects to the router, which may fail.
Connect ==
  /\ pc = "router" /\ starter \in {"ready", "failed"}
  /\ \/ starter = "ready" /\ pc' = "spawning" /\ UNCHANGED next
     \/ pc' = "reaping" /\ UNCHANGED next
  /\ UNCHANGED <<starter, reaper, proc, spawned, signalled, late>>

SpawnNode ==
  /\ pc = "spawning" /\ spawned < Count
  /\ \/ /\ spawned' = spawned + 1 /\ proc' = [proc EXCEPT ![spawned + 1] = "running"]
        /\ UNCHANGED <<pc, next>>
     \/ Leave /\ UNCHANGED <<spawned, proc>>
  /\ UNCHANGED <<starter, reaper, signalled, late>>
Spawned ==
  /\ pc = "spawning" /\ spawned = Count /\ pc' = "waiting"
  /\ UNCHANGED <<starter, reaper, proc, spawned, next, signalled, late>>

\* All nodes are ready; or a process has exited, or the time is over.
Ready ==
  /\ pc = "waiting"
  /\ \/ pc' = "up" /\ UNCHANGED next
     \/ Leave
  /\ UNCHANGED <<starter, reaper, proc, spawned, signalled, late>>

\* The body ends, or the task is cancelled, wherever it waits.
Cancelled ==
  /\ IF pc = "router" THEN pc' = "reaping" /\ UNCHANGED next
     ELSE pc \in {"waiting", "up"} /\ Leave
  /\ UNCHANGED <<starter, reaper, proc, spawned, signalled, late>>

\* Each node is asked to shut down, the last one first; it may not answer.
AskShutdown ==
  /\ pc = "leaving" /\ next > 0 /\ next' = next - 1
  /\ UNCHANGED <<pc, starter, reaper, proc, spawned, signalled, late>>
Disconnect ==
  /\ pc = "leaving" /\ pc' = "reaping"
  /\ UNCHANGED <<starter, reaper, proc, spawned, next, signalled, late>>
\* __aexit__ ends with the reaper, or before it when it is cancelled.
Gone ==
  /\ pc = "reaping" /\ reaper # "idle" /\ pc' = "gone"
  /\ UNCHANGED <<starter, reaper, proc, spawned, next, signalled, late>>

-------------------------------------------------------------------------------
(* _reap, in its thread: the last process first, the router at the end.    *)

Reap ==
  /\ pc = "reaping" /\ reaper = "idle" /\ next' = spawned
  /\ reaper' = IF proc[0] = "none" THEN "ended" ELSE "next"
  /\ UNCHANGED <<pc, starter, proc, spawned, signalled, late>>

\* Fault: nobody waits for a process that was told to end.
Outwaits_not == FALSE
\* A wait of two seconds may end without the process.
Outwaits == proc[next] = "running"

Reaped ==
  /\ reaper' = IF next = 0 THEN "ended" ELSE "next"
  /\ next' = IF next = 0 THEN 0 ELSE next - 1

\* The router is told to end at once, the nodes are first given their time.
ReapNext ==
  /\ reaper = "next"
  /\ IF proc[next] = "exited" THEN Reaped /\ UNCHANGED signalled
     ELSE /\ reaper' = "waiting" /\ UNCHANGED next
          /\ signalled' = IF next = 0 THEN signalled \cup {0} ELSE signalled
  /\ UNCHANGED <<pc, starter, proc, spawned, late>>
Terminate ==
  /\ reaper = "waiting"
  /\ IF Outwaits THEN reaper' = "terminated" /\ signalled' = signalled \cup {next} /\ UNCHANGED next
     ELSE Reaped /\ UNCHANGED signalled
  /\ UNCHANGED <<pc, starter, proc, spawned, late>>
Kill ==
  /\ reaper = "terminated"
  /\ proc' = [proc EXCEPT ![next] = "exited"] /\ Reaped
  /\ UNCHANGED <<pc, starter, spawned, signalled, late>>

\* A process ends, for a reason of its own or for a signal.
Exit(p) ==
  /\ proc[p] = "running" /\ proc' = [proc EXCEPT ![p] = "exited"]
  /\ UNCHANGED <<pc, starter, reaper, spawned, next, signalled, late>>

Next ==
  \/ StartFails \/ StartRouter \/ Polled
  \/ Connect \/ SpawnNode \/ Spawned \/ Ready \/ Cancelled \/ AskShutdown \/ Disconnect \/ Gone
  \/ Reap \/ ReapNext \/ Terminate \/ Kill
  \/ \E p \in Processes : Exit(p)

Spec == Init /\ [][Next]_vars

-------------------------------------------------------------------------------
\* However the launcher is left, and whatever its processes do, it leaves none
\* behind, and the router is told to end only when no node is left that could
\* need it; except a router that its thread starts after the launcher was
\* cancelled, which nobody knows of (processes.py, __aexit__ and _reap).
NothingLeftRunning ==
  /\ reaper = "ended" => \A p \in Processes : proc[p] = "running" => p = 0 /\ late
  /\ 0 \in signalled => \A p \in Processes \ {0} : proc[p] # "running"
===============================================================================
