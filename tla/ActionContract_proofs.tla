------------------------ MODULE ActionContract_proofs -------------------------
(* Proof that the contract of a node says what it is meant to say.         *)
EXTENDS ActionContract, TLAPS

\* The strengthening of EffectsAccounted that steps preserve: a gate that is
\* not lost hides no unknown outcome, and no action with an effect is forgotten.
CInv ==
  /\ outcome \in [ActionIds -> Outcomes]
  /\ effects \in [ActionIds -> {0, 1}]
  /\ gate \in {"open", "closed", "lost"}
  /\ \A a, b \in ActionIds : outcome[a] = "pending" /\ outcome[b] = "pending" => a = b
  /\ gate # "lost" => \A a \in ActionIds : outcome[a] # "unknown"
  /\ \A a \in ActionIds : effects[a] = 1 => outcome[a] # "absent"

LEMMA ContractStep == CInv /\ [Next]_vars => CInv'
<1> SUFFICES ASSUME CInv, [Next]_vars PROVE CInv'
  OBVIOUS
<1> USE DEF CInv, Outcomes
<1>1. ASSUME NEW a \in ActionIds, Accept(a) PROVE CInv'
  BY <1>1 DEF Accept, Pending
<1>2. ASSUME NEW a \in ActionIds, Perform(a) PROVE CInv'
  BY <1>2 DEF Perform
<1>3. ASSUME NEW a \in ActionIds, Settle(a) PROVE CInv'
  BY <1>3 DEF Settle
<1>4. ASSUME NEW a \in ActionIds, Lose(a) PROVE CInv'
  BY <1>4 DEF Lose
<1>5. ASSUME CloseGate \/ OpenGate PROVE CInv'
  BY <1>5 DEF CloseGate, OpenGate
<1>6. ASSUME Reboot PROVE CInv'
  <2>1. \A a \in ActionIds : outcome'[a] # "pending"
    BY <1>6 DEF Reboot, Remembered
  <2>2. \A a \in ActionIds : effects[a] = 1 => outcome'[a] # "absent"
    BY <1>6 DEF Reboot, Remembered
  <2> QED
    BY <1>6, <2>1, <2>2 DEF Reboot
<1>7. ASSUME UNCHANGED vars PROVE CInv'
  BY <1>7 DEF vars
<1> QED
  BY <1>1, <1>2, <1>3, <1>4, <1>5, <1>6, <1>7 DEF Next

\* Behind an open gate every effect is accounted for and at most one action is
\* pending: what a client of a node relies on when it submits.
THEOREM GateIsAccounted == Spec => []EffectsAccounted
<1>1. Init => CInv
  BY DEF Init, CInv, Outcomes
<1>2. CInv => EffectsAccounted
  BY DEF CInv, EffectsAccounted, Outcomes, Pending
<1> QED
  BY <1>1, <1>2, ContractStep, PTL DEF Spec
===============================================================================
