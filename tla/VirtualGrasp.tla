------------------------------ MODULE VirtualGrasp ------------------------------
(***************************************************************************)
(* The virtual robot takes an object and lifts it (env/wrs_grasp.py). The  *)
(* observed scene must be the configured one and name one object. A grasp  *)
(* is planned on the model itself: each candidate is reached, closed and   *)
(* lifted for a trial, and the model is put back whatever happened; then   *)
(* the path is walked, one call of the owner thread after another. The     *)
(* reading of the grasp is Perception's.                                   *)
(***************************************************************************)
EXTENDS Naturals, Sequences, FiniteSets

CONSTANTS
  Objects,     \* the boxes of the scene
  Candidates,  \* grasps tried, 8 in the code
  Nothing      \* no object

VARIABLES
  arm, jaw,       \* of the model: where the arm is, how far the jaw
  where,          \* of each object, on the table or lifted
  mounted,        \* the object the gripper holds, in the model
  active,         \* the objects in the group that collides as part of the robot
  held, object,   \* VirtualGrasp.held, object_id
  route, attachAt,\* VirtualGrasp.path, attach_at
  grasping,       \* where the handler or the plan is
  aim,            \* the object the observation shows
  try,            \* the candidate
  start,          \* the model when the planning began
  index, halt, outcome,
  reported        \* state: arm, jaw, objects and the fact held_object

world == <<arm, jaw, where, mounted, active>>
adapter == <<held, object, route, attachAt>>
vars == <<world, adapter, grasping, aim, try, start, index, halt, outcome, reported>>

Arms == {"home", "before", "at", "up", "searching"}
Jaws == {"rest", "wide", "on"}
World == [arm |-> arm, jaw |-> jaw, where |-> where, mounted |-> mounted, active |-> active]
Planning == {"candidate", "travel", "approach", "closing", "lift", "found", "none", "raised"}

TypeOK ==
  /\ arm \in Arms /\ jaw \in Jaws /\ where \in [Objects -> {"table", "lifted"}]
  /\ {mounted, held, object, aim} \subseteq Objects \cup {Nothing} /\ active \subseteq Objects
  /\ \A i \in DOMAIN route : route[i] \in [arm : Arms, jaw : Jaws]
  /\ attachAt \in 0..Len(route) /\ index \in 0..Len(route) + 1
  /\ grasping \in Planning \cup {"idle", "matching", "planning", "planned", "rereading",
                                 "looping", "stepping", "stepped", "verifying"}
  /\ try \in 0..Candidates + 1 /\ halt \in BOOLEAN
  /\ outcome \in {"none", "succeeded", "failed", "cancelled", "unknown"}
  /\ start.where \in [Objects -> {"table", "lifted"}]
  /\ reported.where \in [Objects -> {"table", "lifted"}]

Init ==
  /\ arm = "home" /\ jaw = "rest" /\ where = [o \in Objects |-> "table"]
  /\ mounted = Nothing /\ active = {}
  /\ held = Nothing /\ object = Nothing /\ route = <<>> /\ attachAt = 0
  /\ grasping = "idle" /\ aim = Nothing /\ try = 0 /\ start = World /\ index = 0
  /\ halt = FALSE /\ outcome = "none"
  /\ reported = [arm |-> arm, jaw |-> jaw, where |-> where, held |-> Nothing]

Ends(how) == grasping' = "idle" /\ outcome' = how
Goes(to) == grasping' = to /\ UNCHANGED outcome
Frame == <<start, halt, reported>>

-------------------------------------------------------------------------------
(* The executor, and the observation.                                      *)

Begin ==
  /\ grasping = "idle" /\ outcome # "unknown"
  /\ grasping' = "matching" /\ outcome' = "none" /\ halt' = FALSE /\ index' = 0 /\ aim' = Nothing
  /\ UNCHANGED <<world, adapter, try, start, reported>>
Stop ==
  /\ grasping # "idle" /\ halt' = TRUE
  /\ UNCHANGED <<world, adapter, grasping, aim, try, start, index, outcome, reported>>

\* match_scene: the boxes that contain all points of the target, where the
\* state says they are; every other point must be of some box.
Match ==
  /\ grasping = "matching"
  /\ \/ \E boxes \in SUBSET Objects :
          IF Cardinality(boxes) = 1
          THEN aim' \in boxes /\ Goes("planning")
          ELSE Ends("failed") /\ UNCHANGED aim
     \/ Ends("failed") /\ UNCHANGED aim   \* unread, too old, of another task, or unmodelled
  /\ UNCHANGED <<world, adapter, try, index, Frame>>

-------------------------------------------------------------------------------
(* plan, on the owner thread.                                              *)

\* Fault: a gripper that holds plans another grasp.
Engaged_never == FALSE
Engaged == held # Nothing
Plan ==
  /\ grasping = "planning"
  /\ IF Engaged THEN Ends("failed") /\ UNCHANGED <<try, start>>
                ELSE Goes("candidate") /\ try' = 1 /\ start' = World
  /\ UNCHANGED <<world, adapter, aim, index, halt, reported>>

NextTry == try' = try + 1 /\ Goes("candidate")

\* The arm and the jaw go back before each; the box must be caught face to face.
Candidate ==
  /\ grasping = "candidate"
  /\ IF try > Candidates
     THEN Goes("none") /\ UNCHANGED <<arm, jaw, try>>
     ELSE /\ arm' = start.arm
          /\ \/ NextTry /\ jaw' = start.jaw
             \/ Goes("raised") /\ jaw' = start.jaw /\ UNCHANGED try
             \/ Goes("travel") /\ jaw' = "wide" /\ UNCHANGED try
  /\ UNCHANGED <<where, mounted, active, adapter, aim, index, Frame>>

\* A search leaves the arm anywhere.
Search(from, to, at) ==
  /\ grasping = from
  /\ \/ Goes(to) /\ arm' = at /\ UNCHANGED try
     \/ NextTry /\ arm' = "searching"
     \/ Goes("raised") /\ arm' = "searching" /\ UNCHANGED try
  /\ UNCHANGED <<jaw, where, mounted, active, adapter, aim, index, Frame>>
Travel == Search("travel", "approach", "searching")
Approach == Search("approach", "closing", "at")

\* The jaw closes and must hit nothing; then the object is held, for a trial.
Closing ==
  /\ grasping = "closing" /\ jaw' = "on"
  /\ \/ NextTry /\ UNCHANGED <<mounted, active>>
     \/ Goes("lift") /\ mounted' = aim /\ active' = active \cup {aim} /\ UNCHANGED try
     \/ Goes("raised") /\ UNCHANGED <<mounted, active, try>>
     \/ /\ Goes("raised") /\ mounted' = aim /\ UNCHANGED try   \* after hold(obj)
        /\ active' \in {active, active \cup {aim}}
  /\ UNCHANGED <<arm, where, adapter, aim, index, Frame>>

\* The lift, then the inner finally: the object is let go and put back.
Lift ==
  /\ grasping = "lift" /\ arm' = "searching"
  /\ mounted' = Nothing /\ active' = start.active /\ where' = start.where
  /\ \/ Goes("found") /\ UNCHANGED try
     \/ NextTry
     \/ Goes("raised") /\ UNCHANGED try
  /\ UNCHANGED <<jaw, adapter, aim, index, Frame>>

Way(a, j) == [arm |-> a, jaw |-> j]
Found ==
  /\ route' = <<Way("before", "wide"), Way("at", "wide"), Way("at", "on"),
                Way("at", "on"), Way("up", "on")>>
  /\ attachAt' = 4 /\ object' = aim /\ UNCHANGED held

\* The outer finally.
\* Fault: the object is put back and still held.
LetGo_not == UNCHANGED mounted
LetGo == mounted' = IF mounted = aim THEN Nothing ELSE mounted
Restore ==
  /\ grasping \in {"found", "none", "raised"}
  /\ IF grasping = "found" THEN Found ELSE UNCHANGED adapter
  /\ LetGo
  /\ active' = (active \ {aim}) \cup (start.active \cap {aim})
  /\ arm' = start.arm /\ jaw' = start.jaw /\ where' = [where EXCEPT ![aim] = start.where[aim]]
  /\ CASE grasping = "found" -> Goes("planned")
       [] grasping = "none" -> Ends("failed")
       [] OTHER -> Ends("unknown")
  /\ UNCHANGED <<aim, try, index, Frame>>

-------------------------------------------------------------------------------
(* execute, after the planning.                                            *)

Planned ==
  /\ grasping = "planned"
  /\ \/ Ends("failed")   \* the observation is too old by now
     \/ IF halt THEN Ends("cancelled") ELSE Goes("rereading")
  /\ UNCHANGED <<world, adapter, aim, try, index, Frame>>
Reread ==
  /\ grasping = "rereading"
  /\ \/ Ends("failed") /\ UNCHANGED index
     \/ Goes("looping") /\ index' = 1
  /\ UNCHANGED <<world, adapter, aim, try, Frame>>
Loop ==
  /\ grasping = "looping"
  /\ IF index > Len(route) THEN Goes("verifying")
     ELSE IF halt THEN Ends("cancelled") ELSE Goes("stepping")
  /\ UNCHANGED <<world, adapter, aim, try, index, Frame>>

\* step: what the gripper holds moves with it, and from attach_at on it holds.
Carry(at) ==
  /\ arm' = at.arm /\ jaw' = at.jaw
  /\ where' = [o \in Objects |->
       IF o = mounted THEN IF at.arm = "up" THEN "lifted" ELSE "table" ELSE where[o]]
Attach ==
  IF index = attachAt
  THEN mounted' = object /\ active' = active \cup {object} /\ held' = object
  ELSE UNCHANGED <<mounted, active, held>>
Step ==
  /\ grasping = "stepping" /\ Goes("stepped") /\ Carry(route[index]) /\ Attach
  /\ UNCHANGED <<object, route, attachAt, aim, try, index, Frame>>
StepFails ==
  /\ grasping \in {"stepping", "verifying"} /\ Ends("unknown")
  /\ IF grasping = "stepping" THEN Carry(route[index]) ELSE UNCHANGED <<arm, jaw, where>>
  /\ UNCHANGED <<mounted, active, adapter, aim, try, index, Frame>>

\* Fault: the object that is held is reported when the grasp is verified.
Holding_late == reported.held
Holding == held
Resume ==
  /\ grasping = "stepped" /\ Goes("looping") /\ index' = index + 1
  /\ reported' = [arm |-> arm, jaw |-> jaw, held |-> Holding,
                  where |-> [reported.where EXCEPT ![aim] = where[aim]]]
  /\ UNCHANGED <<world, adapter, aim, try, start, halt>>

Verified == held = object /\ where[object] = "lifted" /\ arm = route[Len(route)].arm
Verify ==
  /\ grasping = "verifying"
  /\ Ends(IF ~Verified THEN "unknown" ELSE IF halt THEN "cancelled" ELSE "succeeded")
  /\ UNCHANGED <<world, adapter, aim, try, index, Frame>>

Next ==
  \/ Begin \/ Stop \/ Match
  \/ Plan \/ Candidate \/ Travel \/ Approach \/ Closing \/ Lift \/ Restore
  \/ Planned \/ Reread \/ Loop \/ Step \/ StepFails \/ Resume \/ Verify

Spec == Init /\ [][Next]_vars

-------------------------------------------------------------------------------
\* Whatever a trial did, where it failed and when it was stopped: outside the
\* planning the gripper holds in the model what the adapter says it holds, and
\* that alone is away from its place; after a definite outcome the state shows
\* the model and the object held; and a grasp that succeeded has lifted the
\* object that was observed (wrs_grasp.py, plan, step, verify and execute).
WorldAsReported ==
  /\ grasping \notin Planning =>
       /\ mounted = held /\ active = {held} \ {Nothing}
       /\ \A o \in Objects : where[o] = "lifted" => o = held
  /\ grasping \in {"planned", "rereading"} \/ (grasping = "idle" /\ outcome # "unknown")
       => reported = [arm |-> arm, jaw |-> jaw, where |-> where, held |-> held]
  /\ outcome = "succeeded" => held = aim /\ where[aim] = "lifted"
===============================================================================
