-------------------------- MODULE ExecutorRefinement --------------------------
(* ActionExecutor implements ActionContract, and NodeGate.                 *)
EXTENDS ExecutorInvariant

Outcome ==
  [a \in ActionIds |->
     IF records[a].state = "ABSENT" THEN "absent"
     ELSE IF records[a].state \in Known THEN "settled"
     ELSE IF records[a].state = "UNKNOWN" THEN "unknown"
     ELSE "pending"]

Gate == IF admission = "OPEN" THEN "open"
        ELSE IF admission = "HELD" THEN "closed" ELSE "lost"

Contract == INSTANCE ActionContract
              WITH outcome <- Outcome, effects <- runs, gate <- Gate

\* Every behaviour of the executor, with its saves, races, crashes and
\* restarts, is one of the contract: one effect per action, no reopening over
\* an unaccounted effect, no outcome replaced by another one.
ImplementsContract == Contract!Spec

-------------------------------------------------------------------------------
\* The node as its clients see it: an accepted action is running, and an action
\* whose intent could not be saved is one that a new process does not know.
Node == "node"

Seen(a) ==
  LET s == records[a].state IN
    IF s = "ABSENT" THEN "absent"
    ELSE IF s = "ACCEPTED" THEN "RUNNING"
    ELSE IF s = "UNKNOWN" /\ disk[a].state = "ABSENT" THEN "UNSAVED"
    ELSE s

AsNode == INSTANCE NodeGate
  WITH Nodes <- {Node},
       Robots <- IF RobotControls THEN {Node} ELSE {},
       Actions <- ActionIds,
       Home <- [a \in ActionIds |-> Node],
       boot <- [n \in {Node} |-> boot],
       epoch <- [n \in {Node} |-> epoch],
       admission <- [n \in {Node} |-> admission],
       stopConfirmed <- [n \in {Node} |-> stopConfirmed],
       active <- [n \in {Node} |-> active],
       status <- [a \in ActionIds |-> Seen(a)]

\* A task may be composed with NodeGate instead of the executor: whatever clients
\* see a node do, with its saves, leases, state versions, crashes and restarts, is
\* a step of NodeGate (executor.py, store.py:26).
ImplementsNodeGate == AsNode!GateSpec
===============================================================================
