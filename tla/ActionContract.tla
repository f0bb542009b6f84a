---------------------------- MODULE ActionContract ----------------------------
(***************************************************************************)
(* What a node promises about the actions submitted to it, without saying  *)
(* how: no coroutines, no journal, no leases, no epochs.  An action has at *)
(* most one effect, the node runs one action at a time, it knows how every *)
(* action with an effect ended before it admits another one, and a crash   *)
(* can turn what it knew into UNKNOWN but never into another outcome.      *)
(* ActionExecutor is shown to implement this in ExecutorRefinement.        *)
(***************************************************************************)
EXTENDS Naturals

CONSTANT ActionIds

VARIABLES
  outcome,   \* what the node says about each action
  effects,   \* how often the backend was asked to perform each action
  gate       \* whether new actions are admitted

vars == <<outcome, effects, gate>>

Outcomes == {"absent", "pending", "settled", "unknown"}

TypeOK ==
  /\ outcome \in [ActionIds -> Outcomes]
  /\ effects \in [ActionIds -> {0, 1}]
  /\ gate \in {"open", "closed", "lost"}

Pending == {a \in ActionIds : outcome[a] = "pending"}

Init ==
  /\ outcome = [a \in ActionIds |-> "absent"]
  /\ effects = [a \in ActionIds |-> 0]
  /\ gate = "open"

\* A new action is admitted through an open gate when no other is pending.
Accept(a) ==
  /\ gate = "open"
  /\ outcome[a] = "absent"
  /\ Pending = {}
  /\ outcome' = [outcome EXCEPT ![a] = "pending"]
  /\ UNCHANGED <<effects, gate>>

\* The backend is asked to perform it, once, and only through an open gate.
Perform(a) ==
  /\ gate = "open"
  /\ outcome[a] = "pending"
  /\ effects[a] = 0
  /\ effects' = [effects EXCEPT ![a] = 1]
  /\ UNCHANGED <<outcome, gate>>

\* The action ends in a way the node is sure of; a node that closed its gate
\* only to cancel this action may open it again.
Settle(a) ==
  /\ outcome[a] = "pending"
  /\ outcome' = [outcome EXCEPT ![a] = "settled"]
  /\ gate' \in {gate} \cup (IF gate = "closed" THEN {"open"} ELSE {})
  /\ UNCHANGED effects

\* The node loses track of an action and of its gate.
Lose(a) ==
  /\ outcome[a] \in {"pending", "settled"}
  /\ outcome' = [outcome EXCEPT ![a] = "unknown"]
  /\ gate' = "lost"
  /\ UNCHANGED effects

CloseGate ==
  /\ gate = "open"
  /\ gate' = "closed"
  /\ UNCHANGED <<outcome, effects>>

OpenGate ==
  /\ gate = "closed"
  /\ Pending = {}
  /\ gate' = "open"
  /\ UNCHANGED <<outcome, effects>>

\* What a new process may still know about an action of the old one: an action
\* without effect may be forgotten, one with an effect may not.
Remembered(a) ==
  (IF outcome[a] = "settled" THEN {"settled"} ELSE {})
    \cup (IF outcome[a] # "absent" THEN {"unknown"} ELSE {"absent"})
    \cup (IF outcome[a] # "settled" /\ effects[a] = 0 THEN {"absent"} ELSE {})

\* The new process starts open only if it knows how every effect ended.
Reboot ==
  /\ outcome' \in [ActionIds -> Outcomes]
  /\ \A a \in ActionIds : outcome'[a] \in Remembered(a)
  /\ gate' \in {"open", "closed", "lost"}
  /\ (\E a \in ActionIds : outcome'[a] = "unknown") <=> gate' = "lost"
  /\ UNCHANGED effects

Next ==
  \/ \E a \in ActionIds : Accept(a) \/ Perform(a) \/ Settle(a) \/ Lose(a)
  \/ CloseGate
  \/ OpenGate
  \/ Reboot

Spec == Init /\ [][Next]_vars

\* An open gate means that no effect is unaccounted for: every action with an
\* effect is settled, or is the one that is pending now.
EffectsAccounted ==
  gate = "open" =>
    /\ \A a \in ActionIds : effects[a] = 1 => outcome[a] \in {"settled", "pending"}
    /\ \A a, b \in Pending : a = b
===============================================================================
