-------------------------------- MODULE NodeGate --------------------------------
(***************************************************************************)
(* The nodes of a task as their clients see them: the admission of each    *)
(* node, its control epoch, the action that owns it, and the status of     *)
(* every action.  This is ActionExecutor without its saves, its leases and *)
(* its state versions: what they decide (a refusal, an action that ends    *)
(* before its handler, a node that loses track) is a choice here.          *)
(***************************************************************************)
EXTENDS Naturals

CONSTANTS
  Nodes,
  Robots,    \* the nodes with robot controls; the others are TTS nodes
  Actions,   \* action ids
  Home,      \* the node an action is submitted to
  None

VARIABLES
  boot, epoch, admission, stopConfirmed, active,   \* of each node
  status                                           \* of each action

Known == {"SUCCEEDED", "FAILED", "CANCELLED"}
\* An action that is UNSAVED is shown as UNKNOWN, but its intent is not in the
\* journal.
Unknown == {"UNKNOWN", "UNSAVED"}
Terminal == Known \cup Unknown

GateTypeOK ==
  /\ boot \in [Nodes -> Nat] /\ epoch \in [Nodes -> Nat]
  /\ admission \in [Nodes -> {"OPEN", "HELD", "UNKNOWN"}]
  /\ stopConfirmed \in [Nodes -> BOOLEAN]
  /\ active \in [Nodes -> Actions \cup {None}]
  /\ status \in [Actions -> {"absent", "RUNNING", "CANCELLING"} \cup Terminal]

GateInit ==
  /\ boot = [n \in Nodes |-> 1] /\ epoch = [n \in Nodes |-> 0]
  /\ admission = [n \in Nodes |-> "OPEN"]
  /\ stopConfirmed = [n \in Nodes |-> TRUE]
  /\ active = [n \in Nodes |-> None]
  /\ status = [a \in Actions |-> "absent"]

\* The node has neither been restarted nor fenced since it said b and e.
SameAuthority(n, b, e) == boot[n] = b /\ epoch[n] = e

\* submit().
MayAdmit(a, b, e) ==
  /\ SameAuthority(Home[a], b, e)
  /\ admission[Home[a]] = "OPEN"
  /\ active[Home[a]] = None
  /\ status[a] = "absent"

Admit(a) ==
  /\ status' = [status EXCEPT ![a] = "RUNNING"]
  /\ active' = [active EXCEPT ![Home[a]] = a]
  /\ stopConfirmed' = [stopConfirmed EXCEPT ![Home[a]] = FALSE]
  /\ UNCHANGED <<boot, epoch, admission>>

\* A TTS node opens again as soon as its stop is confirmed.
HeldUntilStopped(n, confirmed) ==
  IF n \notin Robots /\ confirmed THEN "OPEN" ELSE "HELD"

\* hold of a robot, cancel of a TTS node.
Fenced(n) ==
  LET idle == active[n] = None IN
    /\ epoch' = [epoch EXCEPT ![n] = @ + 1]
    /\ stopConfirmed' = [stopConfirmed EXCEPT ![n] = idle /\ admission[n] # "UNKNOWN"]
    /\ admission' = [admission EXCEPT ![n] =
                       IF @ = "UNKNOWN" THEN @ ELSE HeldUntilStopped(n, idle)]
    /\ status' = IF idle THEN status ELSE [status EXCEPT ![active[n]] = "CANCELLING"]
    /\ UNCHANGED <<boot, active>>

\* allow_actions.
MayReopen(n) ==
  n \in Robots /\ admission[n] = "HELD" /\ stopConfirmed[n] /\ active[n] = None

Reopened(n) ==
  /\ epoch' = [epoch EXCEPT ![n] = @ + 1]
  /\ admission' = [admission EXCEPT ![n] = "OPEN"]
  /\ UNCHANGED <<boot, stopConfirmed, active, status>>

\* The action that owns the node ends: with its result, or before its handler
\* was called, or as the fence demands; or it raises, fenced or not.
ActionEnds(n) ==
  /\ active[n] # None
  /\ \E s \in Known :
       /\ admission[n] # "OPEN" => s # "SUCCEEDED"
       /\ status' = [status EXCEPT ![active[n]] = s]
       /\ admission' = [admission EXCEPT ![n] =
            IF @ = "HELD" /\ s = "CANCELLED" THEN HeldUntilStopped(n, TRUE) ELSE @]
  /\ stopConfirmed' = [stopConfirmed EXCEPT ![n] = admission[n] # "UNKNOWN"]
  /\ active' = [active EXCEPT ![n] = None]
  /\ UNCHANGED <<boot, epoch>>

\* A handler cannot say what it has done, or a write to the journal fails.
LosesTrack(a) ==
  /\ \/ status[a] \in Known /\ status' = [status EXCEPT ![a] = "UNKNOWN"]
     \/ /\ active[Home[a]] = a
        /\ \E s \in Unknown : status' = [status EXCEPT ![a] = s]
  /\ admission' = [admission EXCEPT ![Home[a]] = "UNKNOWN"]
  /\ stopConfirmed' = [stopConfirmed EXCEPT ![Home[a]] = FALSE]
  /\ active' = [active EXCEPT ![Home[a]] = IF @ = a THEN None ELSE @]
  /\ UNCHANGED <<boot, epoch>>

\* What a new process may know nothing of.
Unsettled == {"RUNNING", "CANCELLING", "UNSAVED"}

\* The process dies and a new one starts: it knows nothing of an action whose
\* intent was not saved (which then had no effect), and does not know how one
\* ended whose last write was lost.
AfterRestart(n, lost) ==
  [a \in Actions |-> IF a \in lost THEN "UNKNOWN"
                     ELSE IF Home[a] = n /\ status[a] \in Unsettled THEN "absent"
                     ELSE status[a]]

Restarted(n) ==
  LET mine == {a \in Actions : Home[a] = n /\ status[a] # "absent"}
      of(s) == \E a \in mine : status'[a] \in s
  IN
  /\ boot' = [boot EXCEPT ![n] = @ + 1]
  /\ epoch' = [epoch EXCEPT ![n] = 0]
  /\ active' = [active EXCEPT ![n] = None]
  /\ \E lost \in SUBSET {a \in mine : status[a] # "UNSAVED"} : status' = AfterRestart(n, lost)
  /\ admission' = [admission EXCEPT ![n] =
       IF of({"UNKNOWN"}) THEN "UNKNOWN"
       ELSE IF n \in Robots /\ of(Known) THEN "HELD" ELSE "OPEN"]
  /\ stopConfirmed' = [stopConfirmed EXCEPT ![n] = ~of({"UNKNOWN"})]

-------------------------------------------------------------------------------
(* What a node does on its own, whoever its clients are.                   *)

gateVars == <<boot, epoch, admission, stopConfirmed, active, status>>

GateNext ==
  \/ \E a \in Actions :
       \/ MayAdmit(a, boot[Home[a]], epoch[Home[a]]) /\ Admit(a)
       \/ LosesTrack(a)
  \/ \E n \in Nodes :
       \/ Fenced(n)
       \/ MayReopen(n) /\ Reopened(n)
       \/ ActionEnds(n)
       \/ Restarted(n)

GateSpec == GateInit /\ [][GateNext]_gateVars
===============================================================================
