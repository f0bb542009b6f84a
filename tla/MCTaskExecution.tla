---------------------------- MODULE MCTaskExecution ----------------------------
(* Two steps: on a robot and a TTS node, or both on the robot.              *)
EXTENDS TaskInvariant, TLC

CONSTANTS s1, s2, robot, tts

TwoNodes == (s1 :> robot) @@ (s2 :> tts)
OneRobot == (s1 :> robot) @@ (s2 :> robot)

Independent == (s1 :> <<>>) @@ (s2 :> <<>>)
Chained == (s1 :> <<>>) @@ (s2 :> <<s1>>)
OnlyChained == {Chained}
BothPlans == {Independent, Chained}
===============================================================================
