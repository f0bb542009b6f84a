------------------------------- MODULE PlanOrder -------------------------------
(***************************************************************************)
(* What a proposed plan must be to run, and how it then runs. A plan is    *)
(* taken when its steps form a graph without cycles (schemas.py, Plan),    *)
(* every skill is provided by the node it is bound to in the right         *)
(* version, results go only where they fit, and steps that hold one        *)
(* resource are ordered (plan_validation.py). A step starts as soon as the *)
(* steps it depends on are done, and takes its inputs then.                *)
(***************************************************************************)
EXTENDS Naturals, FiniteSets

CONSTANTS
  Count,      \* steps of a plan
  Skills,     \* skills a plan may name
  Holds,      \* the resources of each skill
  Makes,      \* the type of the result of each skill, or Nothing
  Takes,      \* the type of the argument of each skill that may be a result, or Nothing
  Nothing

VARIABLES
  plan,     \* none yet, or the steps: a skill, the steps it depends on, the step its input is from (0: none)
  offered,  \* the version of every skill at its provider, 0 when there is none
  run       \* what has become of every step, or of the whole plan

vars == <<plan, offered, run>>

Steps == 1..Count
Versions == 0..2

Plans == [Steps -> [skill : Skills, after : SUBSET Steps, input : {0} \cup Steps]]

TypeOK ==
  /\ plan = <<>> \/ plan \in Plans
  /\ offered \in [Skills -> Versions]
  /\ run \in [Steps -> {"proposed", "refused", "waiting", "running", "done", "failed"}]

Init == plan = <<>> /\ offered = [k \in Skills |-> 1] /\ run = [s \in Steps |-> "proposed"]

\* The model proposes any plan. It names version 1 of every skill; one provider
\* at most is not as it was.
Propose ==
  /\ plan = <<>> /\ plan' \in Plans
  /\ \A s \in Steps : s \notin plan'[s].after /\ plan'[s].input # s
                      /\ (Takes[plan'[s].skill] = Nothing => plan'[s].input = 0)
  /\ \E k \in Skills, v \in Versions : offered' = [offered EXCEPT ![k] = v]
  /\ UNCHANGED run

\* The steps before a step, over any number of dependencies.
Ancestors(p) ==
  LET within[n \in 0..Count] ==
        IF n = 0 THEN [s \in Steps |-> p[s].after]
        ELSE [s \in Steps |-> within[n - 1][s] \cup UNION {within[n - 1][t] : t \in p[s].after}]
  IN within[Count]
Before(s, t) == s \in Ancestors(plan)[t]

\* valid_dag
IsGraph ==
  /\ \A s \in Steps : ~Before(s, s)
  /\ \A s \in Steps : plan[s].input # 0 => Before(plan[s].input, s)

\* require_contract
Provided(s) == offered[plan[s].skill] = 1

\* The result has the type of the argument.
Fits(s) ==
  plan[s].input # 0 =>
    LET source == Makes[plan[plan[s].input].skill]
    IN source # Nothing /\ source = Takes[plan[s].skill]

\* Fault: only steps of one skill are taken to be in each other's way.
Conflict_sameSkill(s, t) == plan[s].skill = plan[t].skill
Conflict(s, t) == Holds[plan[s].skill] \cap Holds[plan[t].skill] # {}

\* require_ordered_resources
Ordered ==
  \A s, t \in Steps :
    s # t /\ Conflict(s, t) => Before(s, t) \/ Before(t, s)

\* validate_plan
Validate ==
  /\ plan # <<>> /\ run = [s \in Steps |-> "proposed"]
  /\ LET valid == IsGraph /\ (\A s \in Steps : Provided(s) /\ Fits(s)) /\ Ordered
     IN run' = [s \in Steps |-> IF valid THEN "waiting" ELSE "refused"]
  /\ UNCHANGED <<plan, offered>>

StartStep(s) ==
  /\ run[s] = "waiting" /\ \A t \in plan[s].after : run[t] = "done"
  /\ run' = [run EXCEPT ![s] = "running"]
  /\ UNCHANGED <<plan, offered>>
EndStep(s) ==
  /\ run[s] = "running" /\ run' \in {[run EXCEPT ![s] = "done"], [run EXCEPT ![s] = "failed"]}
  /\ UNCHANGED <<plan, offered>>

Next == Propose \/ Validate \/ \E s \in Steps : StartStep(s) \/ EndStep(s)

Spec == Init /\ [][Next]_vars

-------------------------------------------------------------------------------
\* A plan that was accepted leaves nothing to a race: of two steps that hold
\* one resource never are both under way or free to start, and a step that has
\* started finds the result it was to take, of the type it takes
\* (plan_validation.py, require_ordered_resources and validate_plan).
NothingLeftToRaces ==
  LET mayRun(s) == \/ run[s] = "running"
                   \/ run[s] = "waiting" /\ \A t \in plan[s].after : run[t] = "done"
  IN /\ \A s, t \in Steps :
          mayRun(s) /\ mayRun(t) /\ s # t =>
            Holds[plan[s].skill] \cap Holds[plan[t].skill] = {}
     /\ \A s \in Steps :
          run[s] = "running" /\ plan[s].input # 0 =>
            /\ run[plan[s].input] = "done"
            /\ Makes[plan[plan[s].input].skill] = Takes[plan[s].skill]
===============================================================================
