------------------------------- MODULE MockWorld -------------------------------
(***************************************************************************)
(* The robot of the tests (env/mock.py): objects, one held at most, and    *)
(* the faults injected into its skills. A skill waits for a while or for   *)
(* the stop, then does all it does at once.                                *)
(***************************************************************************)
EXTENDS Naturals

CONSTANTS
  Objects,  \* of the world
  Stranger, \* a name of none of them
  Nothing   \* no object

VARIABLES
  fault, remaining,  \* what is injected, and into how many picks
  world,             \* where each object is, the one held, and the pose
  task, told,        \* the skill that waits, and its stop event
  result,            \* of the last skill
  past, refused      \* history: the world when it began; the picks a fault failed

vars == <<fault, remaining, world, task, told, result, past, refused>>

Once == {"grasp_once", "localization_once"}
Picking == Once \cup {"grasp", "localization"}
Faults == {"none", "stop_unknown", "unknown", "inconclusive"} \cup Picking
Idle == [skill |-> "none", object |-> Nothing, place |-> "table"]
Tasks ==
  [skill : {"pick", "place", "verify"}, object : Objects \cup {Stranger}, place : {"B", "C"}]
  \cup [skill : {"move_named_pose", "observe"}, object : {Nothing}, place : {"home", "B"}]

TypeOK ==
  /\ fault \in Faults /\ remaining \in 0..1 /\ refused \in 0..2
  /\ {world, past} \subseteq [at : [Objects -> {"table", "gripper", "B", "C"}],
                              held : Objects \cup {Nothing}, pose : {"home", "B"}]
  /\ task \in Tasks \cup {Idle} /\ told \in BOOLEAN
  /\ result \in {"none", "succeeded", "failed", "cancelled", "unknown"}

Init ==
  /\ fault \in Faults /\ remaining = 1 /\ refused = 0
  /\ world = [at |-> [o \in Objects |-> "table"], held |-> Nothing, pose |-> "home"]
  /\ past = world /\ task = Idle /\ told = FALSE /\ result = "none"

\* The executor admits nothing after an unknown outcome.
Begin ==
  /\ task = Idle /\ result # "unknown"
  /\ task' \in Tasks /\ told' = FALSE /\ result' = "none" /\ past' = world
  /\ UNCHANGED <<fault, remaining, world, refused>>
Stop ==
  /\ task # Idle /\ told' = TRUE
  /\ UNCHANGED <<fault, remaining, world, task, result, past, refused>>

Ends(how) == task' = Idle /\ result' = how /\ UNCHANGED <<fault, told, past>>

\* simulate: the stop and the faults, before the skill does anything.
Uncertain == IF told THEN fault = "stop_unknown" ELSE fault \in {"unknown", "inconclusive"}
Injected == ~told /\ fault \in Picking /\ task.skill = "pick" /\ remaining # 0
\* Fault: what is meant for one pick fails every one.
Spent_not == remaining
Spent == IF fault \in Once THEN remaining - 1 ELSE remaining
Prevented ==
  /\ task # Idle /\ (told \/ Uncertain \/ Injected)
  /\ Ends(IF Uncertain THEN "unknown" ELSE IF told THEN "cancelled" ELSE "failed")
  /\ remaining' = IF Injected THEN Spent ELSE remaining
  /\ refused' = IF Injected /\ refused < 2 THEN refused + 1 ELSE refused
  /\ UNCHANGED world

\* Fault: a gripper that holds picks another object.
Free_always == TRUE
Free == world.held = Nothing
Fits ==
  CASE task.skill = "pick" -> Free /\ task.object \in Objects
    [] task.skill = "place" -> world.held = task.object
    [] task.skill = "verify" -> /\ task.object \in Objects /\ Free
                                /\ world.at[task.object] = task.place
    [] OTHER -> TRUE
Effect ==
  CASE task.skill = "pick" ->
         [world EXCEPT !.held = task.object, !.at[task.object] = "gripper"]
    [] task.skill = "place" -> [world EXCEPT !.held = Nothing, !.at[task.object] = task.place]
    [] task.skill = "move_named_pose" -> [world EXCEPT !.pose = task.place]
    [] OTHER -> world
Done ==
  /\ task # Idle /\ ~told /\ ~Uncertain /\ ~Injected
  /\ world' = IF Fits THEN Effect ELSE world
  /\ Ends(IF Fits THEN "succeeded" ELSE "failed")
  /\ UNCHANGED <<remaining, refused>>

Next == Begin \/ Stop \/ Prevented \/ Done
Spec == Init /\ [][Next]_vars

-------------------------------------------------------------------------------
\* Over any sequence of skills, stops and faults an object is held exactly if it
\* is located in the gripper, a skill that did not succeed left the world as it
\* was, and a fault that is to happen once fails one pick (mock.py, simulate).
WorldAsReported ==
  /\ \A o \in Objects : world.held = o <=> world.at[o] = "gripper"
  /\ result \in {"failed", "cancelled", "unknown"} => world = past
  /\ fault \in Once => refused <= 1
===============================================================================
