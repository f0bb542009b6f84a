-------------------------------- MODULE MCNodes --------------------------------
(***************************************************************************)
(* Small instances of the parts of Nodes: the values of the constants that *)
(* are functions.                                                          *)
(***************************************************************************)
EXTENDS Nodes, TLC

CONSTANTS e1, e2

\* A stop and a goal, with room for both; a cancel of the speech and a task to append;
\* two stops without a press, with room for one.
Said == [voice |-> (e1 :> "stop") @@ (e2 :> "goal"),
         hush |-> (e1 :> "hush") @@ (e2 :> "append"),
         replay |-> (e1 :> "hold") @@ (e2 :> "barge_in")]
PressesKept == [voice |-> 1, hush |-> 1, replay |-> 1]
TextsKept == [voice |-> 2, hush |-> 2, replay |-> 1]
Reopenings == [voice |-> 4, hush |-> 3, replay |-> 3]

\* A mask cut from a camera, and one cut from a location.
Masks == [segment |-> 2, locate |-> 1]
Stops == [segment |-> 1, locate |-> 2]
Boxed == [segment |-> FALSE, locate |-> TRUE]

\* A skill whose result the next takes, and two that hold the same arm.
Resources == [see |-> {"camera", "arm"}, say |-> {"speaker"}, move |-> {"arm"}]
Results == [see |-> "text", say |-> "nothing", move |-> "pose"]
Arguments == [see |-> "nothing", say |-> "text", move |-> "nothing"]
===============================================================================
