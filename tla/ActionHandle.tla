------------------------------ MODULE ActionHandle ------------------------------
(***************************************************************************)
(* One action as its client sees it (nodes/action_rpc.py, ActionClient and *)
(* ActionHandle): submitted once, looked up by its id when the answer is   *)
(* lost, polled, and cancelled with a request that is made once and then   *)
(* repeated. Other clients use the node too, and it may restart. Of the    *)
(* node there is the gate that ActionExecutor has in full.                 *)
(***************************************************************************)
EXTENDS Naturals

CONSTANTS
  MaxEpoch,  \* bound: control epochs of a boot
  MaxBoots   \* bound: boots of the node

VARIABLES
  node,     \* boot, epoch, open, active, stopping
  mine,     \* our action: unsent, travelling, refused, running, over or forgotten
  context,  \* the boot and epoch our request carries
  asked,    \* where submit is, or what it came to
  answer,   \* the receipt that travels back
  cancel,   \* where cancel is, and the epoch of its request
  stored,   \* the node has accepted that request
  polled,   \* what wait returned
  struck    \* history: the actions our cancel has stopped

client == <<context, asked, cancel, polled>>
vars == <<node, mine, client, answer, stored, struck>>

Actions == {"mine", "other"}

TypeOK ==
  /\ node \in [boot : 1..MaxBoots, epoch : 0..MaxEpoch, open : BOOLEAN,
               active : Actions \cup {"none"}, stopping : BOOLEAN]
  /\ mine \in {"unsent", "travelling", "refused", "running", "over", "forgotten"}
  /\ context \in [boot : 1..MaxBoots, epoch : 0..MaxEpoch]
  /\ asked \in {"no", "waiting", "checking", "held", "refused", "doubtful"}
  /\ answer \in {"none", "accepted", "refused"}
  /\ cancel \in [at : {"no", "reading", "ready", "answered"}, epoch : 0..MaxEpoch,
                 made : BOOLEAN]
  /\ stored \in BOOLEAN /\ polled \in {"no", "over", "forgotten"} /\ struck \subseteq Actions

Init ==
  /\ node = [boot |-> 1, epoch |-> 0, open |-> TRUE, active |-> "none", stopping |-> FALSE]
  /\ mine = "unsent" /\ context = [boot |-> 1, epoch |-> 0] /\ asked = "no" /\ answer = "none"
  /\ cancel = [at |-> "no", epoch |-> 0, made |-> FALSE] /\ stored = FALSE
  /\ polled = "no" /\ struck = {}

-------------------------------------------------------------------------------
(* The node, and the others who use it.                                    *)

Stopped == [node EXCEPT !.epoch = @ + 1, !.open = FALSE, !.stopping = node.active # "none"]
OtherHolds ==
  /\ node.epoch < MaxEpoch /\ node' = Stopped
  /\ UNCHANGED <<mine, client, answer, stored, struck>>
OtherAllows ==
  /\ node.epoch < MaxEpoch /\ ~node.open /\ node.active = "none"
  /\ node' = [node EXCEPT !.epoch = @ + 1, !.open = TRUE]
  /\ UNCHANGED <<mine, client, answer, stored, struck>>
OtherSubmits ==
  /\ node.open /\ node.active = "none" /\ node' = [node EXCEPT !.active = "other"]
  /\ UNCHANGED <<mine, client, answer, stored, struck>>
Ends ==
  /\ node.active # "none" /\ node' = [node EXCEPT !.active = "none", !.stopping = FALSE]
  /\ mine' = IF node.active = "mine" THEN "over" ELSE mine
  /\ UNCHANGED <<client, answer, stored, struck>>
\* The journal keeps an unfinished action as UNKNOWN, or it is lost.
Restart ==
  /\ node.boot < MaxBoots
  /\ \E open \in BOOLEAN :
       node' = [boot |-> node.boot + 1, epoch |-> 0, open |-> open, active |-> "none",
                stopping |-> FALSE]
  /\ mine' \in IF mine \in {"running", "over"} THEN {"over", "forgotten"} ELSE {mine}
  /\ stored' = FALSE
  /\ UNCHANGED <<client, answer, struck>>

Arrive ==
  /\ mine = "travelling"
  /\ IF context = [boot |-> node.boot, epoch |-> node.epoch] /\ node.open /\ node.active = "none"
     THEN /\ node' = [node EXCEPT !.active = "mine"] /\ mine' = "running"
          /\ answer' = "accepted"
     ELSE mine' = "refused" /\ answer' = "refused" /\ UNCHANGED node
  /\ UNCHANGED <<client, stored, struck>>

-------------------------------------------------------------------------------
(* submit, wait.                                                           *)

Submit ==
  /\ asked = "no" /\ mine = "unsent"
  /\ context' = [boot |-> node.boot, epoch |-> node.epoch]
  /\ \/ asked' = "waiting" /\ mine' = "travelling"
     \/ asked' = "refused" /\ UNCHANGED mine   \* invalid arguments, or no way to the node
  /\ UNCHANGED <<node, answer, stored, cancel, polled, struck>>
Answered ==
  /\ asked = "waiting"
  /\ \/ answer # "none" /\ asked' = IF answer = "accepted" THEN "held" ELSE "refused"
     \/ asked' = "checking"   \* lost, late or invalid
  /\ UNCHANGED <<node, mine, context, cancel, polled, answer, stored, struck>>

\* Fault: an id the node does not know was refused.
Reconciled_refused == IF mine \in {"running", "over"} THEN "held" ELSE "refused"
Reconciled == IF mine \in {"running", "over"} THEN "held" ELSE "doubtful"
Check ==
  /\ asked = "checking" /\ asked' \in {Reconciled, "doubtful"}
  /\ UNCHANGED <<node, mine, context, cancel, polled, answer, stored, struck>>
Wait ==
  /\ asked = "held" /\ polled = "no" /\ mine \in {"over", "forgotten"} /\ polled' = mine
  /\ UNCHANGED <<node, mine, context, asked, cancel, answer, stored, struck>>

-------------------------------------------------------------------------------
(* cancel.                                                                 *)

\* The request is made of the epoch the node has now, and kept.
Cancel ==
  /\ asked = "held" /\ cancel.at \in {"no", "answered"}
  /\ cancel' = [cancel EXCEPT !.at = IF cancel.made THEN "ready" ELSE "reading"]
  /\ UNCHANGED <<node, mine, context, asked, polled, answer, stored, struck>>
Make ==
  /\ cancel.at = "reading"
  /\ \/ cancel' = [at |-> "ready", epoch |-> node.epoch, made |-> TRUE]
     \/ cancel' = [cancel EXCEPT !.at = "no"]
  /\ UNCHANGED <<node, mine, context, asked, polled, answer, stored, struck>>

\* Fault: the request names no action.
Addressed_any == node.active # "none"
Addressed == node.active = "mine"
Accepted == ~stored /\ context.boot = node.boot /\ cancel.epoch = node.epoch /\ Addressed
Deliver ==
  /\ cancel.at = "ready" /\ node.epoch < MaxEpoch
  /\ IF Accepted
     THEN node' = Stopped /\ stored' = TRUE /\ struck' = struck \cup {node.active}
     ELSE UNCHANGED <<node, stored, struck>>
  /\ cancel' \in {[cancel EXCEPT !.at = "answered"], [cancel EXCEPT !.at = "no"]}
  /\ UNCHANGED <<mine, context, asked, polled, answer>>
CancelLost ==
  /\ cancel.at = "ready" /\ cancel' = [cancel EXCEPT !.at = "no"]
  /\ UNCHANGED <<node, mine, context, asked, polled, answer, stored, struck>>

Next ==
  \/ OtherHolds \/ OtherAllows \/ OtherSubmits \/ Ends \/ Restart \/ Arrive
  \/ Submit \/ Answered \/ Check \/ Wait \/ Cancel \/ Make \/ Deliver \/ CancelLost
Spec == Init /\ [][Next]_vars

-------------------------------------------------------------------------------
\* Whatever is lost, repeated or overtaken by others: a cancel that the node
\* answered, even with a refusal, finds the action over or told to stop, and
\* stops no other; and an action reported as refused never runs
\* (action_rpc.py, submit and cancel).
HandleIsTrue ==
  /\ cancel.at = "answered" => mine \in {"over", "forgotten"} \/ node.stopping
  /\ struck \subseteq {"mine"}
  /\ asked = "refused" => mine \in {"unsent", "refused"}
===============================================================================
