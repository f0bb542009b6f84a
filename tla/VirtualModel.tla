------------------------------ MODULE VirtualModel ------------------------------
(***************************************************************************)
(* The robot model of the virtual profile (env/wrs.py): an arm and a jaw,  *)
(* moved along a path by one skill after another. One thread owns the      *)
(* model; the handler calls it and waits, and a call is never cancelled.   *)
(* A state that leaves is read from what the handler copied last. An arm   *)
(* position is a named pose, where a relative motion ended, or a place in  *)
(* between; a stop comes at any time.                                      *)
(***************************************************************************)
EXTENDS Naturals

CONSTANTS
  Poses,   \* POSES
  Home,    \* where the model starts
  Steps,   \* count - 1, the moves of a path
  Nowhere  \* no pose, no path

VARIABLES
  arm, jaw,            \* robot.qs, width
  path, jawPath,       \* where they lead
  goal, goalWidth,
  motion,              \* where the handler is
  skill, target, index,
  halt,                \* the action's stop event
  label,               \* state.pose
  reported,            \* state.kinematics: arm and jaw of the last read
  outcome,             \* of the last action
  before               \* history: arm and jaw when it began

model == <<arm, jaw, path, jawPath, goal, goalWidth>>
published == <<label, reported>>
vars == <<model, motion, skill, target, index, halt, published, outcome, before>>

Arms == Poses \cup {"shifted", "between"}
Jaws == {"open", "close", "between"}
Motions == {"observe", "move_named_pose", "move_relative", "set_gripper"}
Read == [arm |-> arm, jaw |-> jaw]
Reads == [arm : Arms, jaw : Jaws]

TypeOK ==
  /\ arm \in Arms /\ jaw \in Jaws
  /\ path \in Arms \cup {Nowhere} /\ jawPath \in Jaws \cup {Nowhere}
  /\ goal \in Arms \cup {Nowhere} /\ goalWidth \in Jaws
  /\ motion \in {"idle", "begin", "looping", "stepping", "stepped", "verifying", "orphan"}
  /\ skill \in Motions \cup {Nowhere} /\ target \in Poses \cup {"open", "close", Nowhere}
  /\ index \in 1..Steps + 1 /\ halt \in BOOLEAN
  /\ label \in Poses \cup {Nowhere} /\ reported \in Reads /\ before \in Reads
  /\ outcome \in {"none", "succeeded", "failed", "cancelled", "unknown"}

Init ==
  /\ arm = Home /\ jaw = "open"
  /\ path = Nowhere /\ jawPath = Nowhere /\ goal = Nowhere /\ goalWidth = jaw
  /\ motion = "idle" /\ skill = Nowhere /\ target = Nowhere /\ index = 1 /\ halt = FALSE
  /\ label = Home /\ reported = Read /\ outcome = "none" /\ before = Read

-------------------------------------------------------------------------------
(* The executor. After an unknown outcome it admits nothing.               *)

Begin ==
  /\ motion = "idle" /\ outcome # "unknown"
  /\ skill' \in Motions
  /\ target' \in CASE skill' = "move_named_pose" -> Poses
                   [] skill' = "set_gripper" -> {"open", "close"}
                   [] OTHER -> {Nowhere}
  /\ motion' = "begin" /\ halt' = FALSE /\ index' = 1 /\ outcome' = "none" /\ before' = Read
  /\ UNCHANGED <<model, published>>

Stop ==
  /\ motion \notin {"idle", "orphan"} /\ halt' = TRUE
  /\ UNCHANGED <<model, motion, skill, target, index, published, outcome, before>>

Ends(how) == motion' = "idle" /\ outcome' = how
Frame == <<skill, target, index, halt, before>>

-------------------------------------------------------------------------------
(* advance_virtual and the calls it makes.                                 *)

Observe ==
  /\ motion = "begin" /\ skill = "observe"
  /\ reported' = Read /\ Ends(IF halt THEN "cancelled" ELSE "succeeded")
  /\ UNCHANGED <<model, label, Frame>>

\* begin, begin_relative and begin_gripper leave the model where it is.
\* Fault: the path of the jaw before is kept.
Cleared_not == jawPath
Cleared == Nowhere
PlanArm(to) ==
  /\ path' = to /\ goal' = to /\ jawPath' = Cleared /\ goalWidth' = jaw
PlanJaw(to) ==
  /\ path' = Nowhere /\ goal' = arm /\ jawPath' = to /\ goalWidth' = to
Prepare ==
  /\ motion = "begin" /\ motion' = "looping"
  /\ CASE skill = "move_named_pose" -> PlanArm(target)
       [] skill = "move_relative" -> PlanArm("shifted")
       [] skill = "set_gripper" -> PlanJaw(target)
       [] OTHER -> FALSE
  /\ UNCHANGED <<arm, jaw, published, outcome, Frame>>
Unreachable ==
  /\ motion = "begin" /\ skill = "move_relative" /\ Ends("failed")
  /\ UNCHANGED <<model, published, Frame>>

\* Fault: the label falls after the first step.
Unlabelled_late == IF skill # "set_gripper" /\ index > 1 THEN Nowhere ELSE label
Unlabelled == IF skill # "set_gripper" THEN Nowhere ELSE label
Loop ==
  /\ motion = "looping"
  /\ IF halt THEN Ends("cancelled") /\ UNCHANGED label
             ELSE motion' = "stepping" /\ label' = Unlabelled /\ UNCHANGED outcome
  /\ UNCHANGED <<model, reported, Frame>>

\* model.step on the owner thread.
Along(at, to) == IF index = Steps \/ at = to THEN to ELSE "between"
Moves ==
  /\ IF jawPath # Nowhere
     THEN jaw' = Along(jaw, jawPath) /\ UNCHANGED arm
     ELSE arm' = Along(arm, path) /\ UNCHANGED jaw
  /\ UNCHANGED <<path, jawPath, goal, goalWidth>>
Step ==
  /\ motion = "stepping" /\ motion' = "stepped" /\ Moves
  /\ UNCHANGED <<published, outcome, Frame>>
\* It raises, wherever the model is then.
StepFails ==
  /\ motion = "stepping" /\ Ends("unknown") /\ (Moves \/ UNCHANGED model)
  /\ UNCHANGED <<published, Frame>>
\* The handler is cancelled, the step is not.
Cancelled ==
  /\ motion = "stepping" /\ motion' = "orphan" /\ outcome' = "unknown"
  /\ UNCHANGED <<model, published, Frame>>
Orphan ==
  /\ motion = "orphan" /\ motion' = "idle" /\ Moves
  /\ UNCHANGED <<published, outcome, Frame>>

Resume ==
  /\ motion = "stepped" /\ reported' = Read
  /\ IF halt THEN Ends("cancelled") /\ UNCHANGED index
             ELSE /\ index' = index + 1 /\ UNCHANGED outcome
                  /\ motion' = IF index < Steps THEN "looping" ELSE "verifying"
  /\ UNCHANGED <<model, label, skill, target, halt, before>>

\* model.verify reads the joints and the jaw, not the command.
Verified == arm = goal /\ jaw = goalWidth
Verify ==
  /\ motion = "verifying"
  /\ \/ halt /\ Ends("cancelled") /\ UNCHANGED label
     \/ /\ ~halt /\ Ends(IF Verified THEN "succeeded" ELSE "failed")
        /\ label' = IF Verified /\ skill = "move_named_pose" THEN target ELSE label
  /\ UNCHANGED <<model, reported, Frame>>

\* A call of the model raises, and nothing has moved.
CallFails ==
  /\ motion \in {"begin", "verifying"} /\ Ends("unknown")
  /\ UNCHANGED <<model, published, Frame>>

Next ==
  \/ Begin \/ Stop \/ CallFails \/ Observe \/ Prepare \/ Unreachable \/ Loop
  \/ Step \/ StepFails \/ Cancelled \/ Orphan \/ Resume \/ Verify

Spec == Init /\ [][Next]_vars

-------------------------------------------------------------------------------
\* Whatever was begun, stopped or refused before, a state that leaves names a
\* pose only while the arm is in it; after a definite outcome the kinematics
\* are those of the model; and a command moves the arm or the jaw, never what
\* an earlier command left to do (wrs.py, advance_virtual and begin...).
WorldAsReported ==
  /\ label # Nowhere => arm = label
  /\ motion = "idle" /\ outcome # "unknown" => reported = Read
  /\ IF skill = "set_gripper" THEN arm = before.arm ELSE jaw = before.jaw
===============================================================================
