---------------------- MODULE ExecutorRefinement_proofs -----------------------
(* Proofs that every step of ActionExecutor is a step of ActionContract, and *)
(* one of NodeGate, or leaves their variables alone, for every value of the *)
(* constants.                                                              *)
EXTENDS ExecutorRefinement, ActionExecutor_proofs

\* The outcome of an action depends on its record only.
OutcomeOf(s) ==
  IF s = "ABSENT" THEN "absent" ELSE IF s \in Known THEN "settled"
  ELSE IF s = "UNKNOWN" THEN "unknown" ELSE "pending"

LEMMA OutcomeValues ==
  /\ Outcome = [a \in ActionIds |-> OutcomeOf(records[a].state)]
  /\ \A s \in Pending : OutcomeOf(s) = "pending"
  /\ \A s \in Known : OutcomeOf(s) = "settled"
  /\ OutcomeOf("UNKNOWN") = "unknown" /\ OutcomeOf("ABSENT") = "absent"
  /\ Pending = {"ACCEPTED", "RUNNING", "CANCELLING"}
  /\ Known = {"SUCCEEDED", "FAILED", "CANCELLED"}
BY DEF Outcome, OutcomeOf, Pending, Known

\* No action is pending when nobody owns the node.
LEMMA NonePending ==
  ASSUME TypeOK, Ownership, active = None
  PROVE  Contract!Pending = {}
<1>1. \A a \in ActionIds : records[a].state \notin Pending
  BY NoneAssumption DEF Ownership, OneOwner
<1>2. \A a \in ActionIds : records[a].state \in States \cup {"ABSENT"}
  BY DEF TypeOK, Record, NoRecord
<1>3. \A a \in ActionIds : Outcome[a] # "pending"
  BY <1>1, <1>2, OutcomeValues DEF States, Terminal, Pending
<1> QED
  BY <1>3 DEF Contract!Pending

LEMMA OutcomeType ==
  ASSUME TypeOK
  PROVE  /\ Outcome \in [ActionIds -> {"absent", "pending", "settled", "unknown"}]
         /\ \A a \in ActionIds : Outcome[a] = OutcomeOf(records[a].state)
BY OutcomeValues DEF OutcomeOf

\* Steps that keep every outcome, every effect and the gate.
LEMMA Stutters ==
  ASSUME UNCHANGED <<runs, admission>>,
         \A a \in ActionIds :
           \/ records'[a] = records[a]
           \/ records[a].state \in Pending /\ records'[a].state \in Pending
  PROVE  UNCHANGED Contract!vars
<1>1. Outcome' = [a \in ActionIds |-> OutcomeOf(records'[a].state)]
  BY DEF Outcome, OutcomeOf, Known
<1>2. \A a \in ActionIds : OutcomeOf(records'[a].state) = OutcomeOf(records[a].state)
  BY OutcomeValues
<1>3. Outcome' = Outcome
  BY <1>1, <1>2, OutcomeValues
<1>4. Gate' = Gate
  BY DEF Gate
<1> QED
  BY <1>3, <1>4 DEF Contract!vars

\* Steps that change the outcome of one action.
LEMMA OneOutcome ==
  ASSUME NEW a \in ActionIds, \A b \in ActionIds \ {a} : records'[b] = records[b]
  PROVE  Outcome' = [Outcome EXCEPT ![a] = OutcomeOf(records'[a].state)]
<1>1. Outcome' = [b \in ActionIds |-> OutcomeOf(records'[b].state)]
  BY DEF Outcome, OutcomeOf, Known
<1> QED
  BY <1>1, OutcomeValues

\* Fence closes the gate, leaves it as it is or, on an idle node without robot
\* controls, opens it.
LEMMA FenceImplements ==
  ASSUME IInv, NEW kind, Fence(kind), runs' = runs
  PROVE  [Contract!Next]_(Contract!vars)
<1>1. \A a \in ActionIds :
        \/ records'[a] = records[a]
        \/ records[a].state \in Pending /\ records'[a].state \in Pending
  BY FenceRecords DEF IInv, Ownership, OneOwner, Pending
<1>2. CASE admission' = admission
  BY <1>1, <1>2, Stutters
<1>3. Outcome' = Outcome
  <2>1. Outcome' = [a \in ActionIds |-> OutcomeOf(records'[a].state)]
    BY DEF Outcome, OutcomeOf, Known
  <2> QED
    BY <1>1, <2>1, OutcomeValues
<1>4. CASE admission = "OPEN" /\ admission' = "HELD"
  BY <1>3, <1>4 DEF Gate, Contract!Next, Contract!CloseGate
<1>5. CASE admission = "HELD" /\ admission' = "OPEN"
  <2>1. active = None
    BY <1>5 DEF Fence, HeldAdmission
  <2> QED
    BY <1>3, <1>5, <2>1, NonePending DEF Gate, Contract!Next, Contract!OpenGate, IInv
<1> QED
  BY <1>2, <1>4, <1>5 DEF Fence, HeldAdmission, _finish_cancel, IInv, TypeOK

\* An owner that ends its action settles it or loses it.
LEMMA EndsImplements ==
  ASSUME IInv, NEW a \in ActionIds, Ends(a)
  PROVE  [Contract!Next]_(Contract!vars)
<1> USE DEF life, gate, grants, work, ledger
<1>1. /\ Outcome[a] = "pending"
      /\ Outcome' = [Outcome EXCEPT ![a] = OutcomeOf(records'[a].state)]
      /\ runs' = runs
  <2>1. records[a].state \in Pending
    BY EndsEffect DEF IInv, Ownership
  <2> QED
    BY <2>1, EndsEffect, EndsRecord, OneOutcome, OutcomeType, OutcomeValues DEF IInv
<1>2. CASE records'[a].state = "UNKNOWN"
  <2>1. admission' = "UNKNOWN"
    BY <1>2, EndsRecord DEF IInv
  <2> QED
    BY <1>1, <1>2, <2>1, OutcomeValues DEF Gate, Contract!Next, Contract!Lose
<1>3. CASE records'[a].state \in Known
  <2>1. admission' = admission \/ (admission = "HELD" /\ admission' = "OPEN")
    <3>1. records'[a].state # "UNKNOWN"
      BY <1>3, OutcomeValues
    <3>2. ~(RunningLost(a) \/ FinishUnknown(a, journal))
      <4>1. \A queue : ~Finish(a, "UNKNOWN", queue)
        <5>1. records[a] \in Record
          BY EndsEffect, StatusType DEF IInv, Ownership, Owning, States
        <5> QED
          BY <3>1, <5>1 DEF Finish, Persist, _status, IInv, TypeOK, Record
      <4> QED
        BY <4>1 DEF RunningLost, FinishUnknown
    <3> QED
      BY <3>2 DEF Ends, IntentFenced, StoppedBeforeHandler, HandlerEnds, FinishStopped,
                  _finish_cancel
  <2>2. Gate' = Gate \/ (Gate = "closed" /\ Gate' = "open")
    BY <2>1 DEF Gate
  <2>3. OutcomeOf(records'[a].state) = "settled"
    BY <1>3, OutcomeValues
  <2> QED
    BY <1>1, <2>2, <2>3 DEF Contract!Next, Contract!Settle
<1> QED
  BY <1>2, <1>3, EndsRecord DEF IInv, Terminal

\* A restart forgets at most what the contract lets a process forget.
LEMMA RestartImplements ==
  ASSUME IInv, Restart
  PROVE  [Contract!Next]_(Contract!vars)
<1>1. ASSUME NEW a \in ActionIds PROVE Outcome'[a] \in Contract!Remembered(a)
  <2>1. /\ Outcome[a] = OutcomeOf(records[a].state)
        /\ Outcome'[a] = OutcomeOf(records'[a].state)
    BY OutcomeType DEF Outcome, OutcomeOf, IInv, Known
  <2>2. /\ records[a].state \in States \cup {"ABSENT"}
        /\ disk[a].state \in States \cup {"ABSENT"}
    BY DEF IInv, TypeOK, Record, NoRecord
  <2>3. /\ disk[a].state \in Known => records[a].state = disk[a].state
        /\ disk[a].state # "ABSENT" => known(a)
        /\ runs[a] > 0 => disk[a].state # "ABSENT"
        /\ runs[a] \in Nat
    BY DEF IInv, DiskFollows, Effects, TypeOK
  <2>4. /\ records'[a] = disk'[a]
        /\ disk[a].state = "ABSENT" => disk'[a] = disk[a]
        /\ disk[a].state \in Terminal => disk'[a] = disk[a]
        /\ disk[a].state \notin Terminal \cup {"ABSENT"} => disk'[a].state = "UNKNOWN"
    BY RestartRows DEF IInv
  <2>5. CASE disk[a].state = "ABSENT"
    <3>1. Outcome'[a] = "absent" /\ runs[a] = 0
      BY <2>1, <2>3, <2>4, <2>5, OutcomeValues
    <3>2. records[a].state \notin Known
      BY <2>5 DEF IInv, DiskFollows
    <3>3. Outcome[a] # "settled"
      BY <2>1, <3>2 DEF OutcomeOf
    <3> QED
      BY <3>1, <3>3 DEF Contract!Remembered
  <2>6. CASE disk[a].state \in Known
    <3>1. Outcome'[a] = "settled" /\ Outcome[a] = "settled"
      BY <2>1, <2>3, <2>4, <2>6, OutcomeValues DEF Terminal
    <3> QED
      BY <3>1 DEF Contract!Remembered
  <2>7. CASE disk[a].state \notin Known \cup {"ABSENT"}
    <3>1. Outcome'[a] = "unknown"
      BY <2>1, <2>4, <2>7, OutcomeValues DEF Terminal
    <3>2. Outcome[a] # "absent"
      BY <2>1, <2>3, <2>7 DEF OutcomeOf, known
    <3> QED
      BY <3>1, <3>2 DEF Contract!Remembered
  <2> QED
    BY <2>5, <2>6, <2>7
<1>2. Outcome' \in [ActionIds -> Contract!Outcomes]
  <2>1. Outcome' = [a \in ActionIds |-> OutcomeOf(records'[a].state)]
    BY DEF Outcome, OutcomeOf, Known
  <2> QED
    BY <2>1 DEF OutcomeOf, Contract!Outcomes
<1>3. Gate' \in {"open", "closed", "lost"}
  BY DEF Gate
<1>4. (\E a \in ActionIds : Outcome'[a] = "unknown") <=> Gate' = "lost"
  <2>1. \A a \in ActionIds : Outcome'[a] = "unknown" <=> records'[a].state = "UNKNOWN"
    <3>1. \A a \in ActionIds : Outcome'[a] = OutcomeOf(records'[a].state)
      BY DEF Outcome, OutcomeOf, Known
    <3> QED
      BY <3>1 DEF OutcomeOf, Known
  <2>2. (\E a \in ActionIds : records'[a].state = "UNKNOWN") <=> admission' = "UNKNOWN"
    BY DEF Restart, BootAdmission
  <2>3. Gate' = "lost" <=> admission' = "UNKNOWN"
    <3>1. admission' \in {"OPEN", "HELD", "UNKNOWN"}
      BY DEF Restart, BootAdmission
    <3> QED
      BY <3>1 DEF Gate
  <2> QED
    BY <2>1, <2>2, <2>3
<1>5. runs' = runs
  BY DEF Restart
<1>6. Contract!Reboot
  BY <1>1, <1>2, <1>3, <1>4, <1>5 DEF Contract!Reboot
<1> QED
  BY <1>6 DEF Contract!Next

LEMMA StepImplements ==
  ASSUME IInv, [Next]_vars
  PROVE  [Contract!Next]_(Contract!vars)
<1> USE DEF life, gate, grants, work, ledger
<1>0. TypeOK /\ Ownership /\ QueueShape
  BY DEF IInv
<1>1. ASSUME UNCHANGED <<records, runs, admission>> PROVE [Contract!Next]_(Contract!vars)
  BY <1>1, Stutters
<1>2. ASSUME NEW a \in ActionIds, NEW l \in LeaseIds, Submit(a, l)
      PROVE  [Contract!Next]_(Contract!vars)
  <2>1. /\ records[a].state = "ABSENT" /\ records'[a].state = "ACCEPTED"
        /\ \A b \in ActionIds \ {a} : records'[b] = records[b]
        /\ runs' = runs /\ admission' = admission /\ admission = "OPEN" /\ active = None
    BY <1>0, <1>2 DEF Submit, Authorised, known, TypeOK
  <2>2. Outcome[a] = "absent" /\ Outcome' = [Outcome EXCEPT ![a] = "pending"]
    BY <1>0, <2>1, OneOutcome, OutcomeType, OutcomeValues
  <2>3. Contract!Accept(a)
    BY <1>0, <2>1, <2>2, NonePending DEF Contract!Accept, Gate
  <2> QED
    BY <2>3 DEF Contract!Next
<1>3. ASSUME NEW a \in ActionIds, IntentAdmitted(a) \/ Progress(a)
      PROVE  [Contract!Next]_(Contract!vars)
  <2>1. pc[a] \in Owning
    BY <1>3 DEF IntentAdmitted, Progress, Progress_after_stop, Saved, SavedAs, Owning
  <2>2. records[a].state \in Pending /\ records[a] \in Record
    BY <1>0, <2>1, StatusType DEF Ownership, Owning, States
  <2>3. records' = _status(a, "RUNNING") /\ UNCHANGED <<runs, admission>>
    BY <1>3 DEF IntentAdmitted, Progress, Progress_after_stop, Persist
  <2>4. \A b \in ActionIds :
          \/ records'[b] = records[b]
          \/ records[b].state \in Pending /\ records'[b].state \in Pending
    BY <1>0, <2>2, <2>3 DEF _status, TypeOK, Record, Pending
  <2> QED
    BY <2>3, <2>4, Stutters
<1>4. ASSUME NEW a \in ActionIds, StartHandler(a) PROVE [Contract!Next]_(Contract!vars)
  <2>1. /\ pc[a] = "running" /\ pc[a] \in Owning /\ admission = "OPEN"
        /\ runs' = [runs EXCEPT ![a] = runs[a] + 1] /\ UNCHANGED <<records, admission>>
    BY <1>0, <1>4, OwnerAlone DEF StartHandler, Stopped
  <2>2. runs[a] = 0
    BY <2>1 DEF IInv, Effects, TypeOK
  <2>3. Outcome[a] = "pending"
    BY <1>0, <2>1, OutcomeType, OutcomeValues DEF Ownership
  <2>4. Outcome' = Outcome /\ Gate' = Gate /\ Gate = "open"
    BY <2>1 DEF Outcome, Gate
  <2>5. Contract!Perform(a)
    BY <2>1, <2>2, <2>3, <2>4 DEF Contract!Perform
  <2> QED
    BY <2>5 DEF Contract!Next
<1>5. ASSUME NEW a \in ActionIds, SaveLost(a) PROVE [Contract!Next]_(Contract!vars)
  <2>1. pc[a] \in {"intent", "final"}
    BY <1>5 DEF SaveLost, Saved, SavedAs
  <2>2. records[a] \in Record
    BY <1>0, <2>1, StatusType DEF Ownership, States
  <2>3. /\ records'[a].state = "UNKNOWN"
        /\ \A b \in ActionIds \ {a} : records'[b] = records[b]
        /\ runs' = runs /\ admission' = "UNKNOWN"
    BY <1>0, <1>5, <2>2 DEF SaveLost, _status, TypeOK, Record
  <2>4. Outcome' = [Outcome EXCEPT ![a] = "unknown"] /\ Gate' = "lost"
    BY <2>3, OneOutcome, OutcomeValues DEF Gate
  <2>5. CASE records[a].state = "UNKNOWN"
    <3>1. admission = "UNKNOWN"
      BY <2>5 DEF IInv, Accounted
    <3>2. Outcome' = Outcome
      BY <1>0, <2>4, <2>5, OutcomeType, OutcomeValues
    <3>3. Gate' = Gate
      BY <2>4, <3>1 DEF Gate
    <3> QED
      BY <2>3, <3>2, <3>3 DEF Contract!vars
  <2>6. CASE records[a].state # "UNKNOWN"
    <3>1. records[a].state \in Pending \cup Known
      BY <2>2, <2>6 DEF Record, States, Terminal, Pending
    <3>2. Outcome[a] \in {"pending", "settled"}
      BY <1>0, <3>1, OutcomeType, OutcomeValues
    <3>3. Contract!Lose(a)
      BY <2>3, <2>4, <3>2 DEF Contract!Lose
    <3> QED
      BY <3>3 DEF Contract!Next
  <2> QED
    BY <2>5, <2>6
<1>6. ASSUME AllowActions PROVE [Contract!Next]_(Contract!vars)
  <2>1. /\ admission = "HELD" /\ admission' = "OPEN" /\ active = None
        /\ UNCHANGED <<records, runs>>
    BY <1>6 DEF AllowActions
  <2>2. Outcome' = Outcome /\ Gate = "closed" /\ Gate' = "open"
    BY <2>1 DEF Outcome, Gate
  <2>3. Contract!OpenGate
    BY <1>0, <2>1, <2>2, NonePending DEF Contract!OpenGate
  <2> QED
    BY <2>3 DEF Contract!Next
<1>7. ASSUME Hold \/ \E target \in ActionIds \cup {None} : Cancel(target)
      PROVE  [Contract!Next]_(Contract!vars)
  BY <1>7, FenceImplements DEF Hold, Cancel
<1>8. ASSUME CloseActive PROVE [Contract!Next]_(Contract!vars)
  BY <1>1, <1>8, FenceImplements DEF CloseActive
<1> QED
  <2>1. ASSUME NEW l \in LeaseIds, GrantLease(l) \/ ExpireLease(l)
        PROVE  [Contract!Next]_(Contract!vars)
    BY <1>1, <2>1 DEF GrantLease, ExpireLease
  <2>2. ASSUME JournalWrite \/ CloseStep \/ UNCHANGED vars
        PROVE  [Contract!Next]_(Contract!vars)
    BY <1>1, <2>2 DEF JournalWrite, CloseStep, vars
  <2>3. ASSUME NEW a \in ActionIds, BackendMoves(a) \/ FinalSaved(a)
        PROVE  [Contract!Next]_(Contract!vars)
    BY <1>1, <2>3 DEF BackendMoves, FinalSaved
  <2> QED
    BY <1>2, <1>3, <1>4, <1>5, <1>6, <1>7, <1>8, <2>1, <2>2, <2>3, EndsImplements,
       RestartImplements DEF Next, Resume, Ends

LEMMA InitImplements == Init => Contract!Init
BY OutcomeValues DEF Init, Contract!Init, Outcome, Gate, NoRecord

\* Every behaviour of the executor is one of the contract: an action has at
\* most one effect, no unaccounted effect is left behind an open gate, and no
\* restart or lost write turns one outcome into another.
THEOREM Refinement == Spec => ImplementsContract
BY InitImplements, StepImplements, Inductive, PTL DEF Spec, ImplementsContract, Contract!Spec

-------------------------------------------------------------------------------
(* The executor as its clients see it.                                     *)

\* The writes of an action begin with its intent.
Written ==
  \A a \in ActionIds : pc[a] \in {"running", "handler", "final"} => disk[a].state # "ABSENT"

\* What a step changes in the statuses: nothing, or the status of one action.
LEMMA SeenStays ==
  ASSUME \A a \in ActionIds : Seen(a)' = Seen(a)
  PROVE  UNCHANGED [a \in ActionIds |-> Seen(a)]
OBVIOUS

LEMMA SeenMoves ==
  ASSUME NEW a \in ActionIds, NEW s, Seen(a)' = s,
         \A b \in ActionIds \ {a} : Seen(b)' = Seen(b)
  PROVE  [b \in ActionIds |-> Seen(b)]' = [[b \in ActionIds |-> Seen(b)] EXCEPT ![a] = s]
OBVIOUS

\* Steps that keep the gate and every status.
LEMMA NodeStutters ==
  ASSUME UNCHANGED <<boot, epoch, admission, stopConfirmed, active>>,
         \A a \in ActionIds : Seen(a)' = Seen(a)
  PROVE  UNCHANGED AsNode!gateVars
BY SeenStays DEF AsNode!gateVars

LEMMA FenceAsNode ==
  ASSUME IInv, NEW kind, Fence(kind), UNCHANGED <<boot, active, disk>>
  PROVE  AsNode!Fenced(Node)
<1>1. /\ epoch' = epoch + 1
      /\ stopConfirmed' = (active = None /\ admission # "UNKNOWN")
      /\ admission' = IF admission = "UNKNOWN" THEN "UNKNOWN"
                      ELSE IF ~RobotControls /\ active = None THEN "OPEN" ELSE "HELD"
  BY DEF Fence, HoldConfirmed, HeldAdmission, _finish_cancel
<1>2. CASE active = None
  <2>1. \A a \in ActionIds : Seen(a)' = Seen(a)
    BY <1>2 DEF Fence, Seen
  <2>2. UNCHANGED [a \in ActionIds |-> Seen(a)]
    BY <2>1, SeenStays
  <2> QED
    BY <1>1, <1>2, <2>2 DEF AsNode!Fenced, AsNode!HeldUntilStopped
<1>3. CASE active # None
  <2>1. active \in ActionIds /\ records[active] \in Record
    BY <1>3, StatusType DEF IInv, TypeOK, Ownership, OneOwner, Owning, States
  <2>2. records' = [records EXCEPT ![active] = [records[active] EXCEPT !.state = "CANCELLING"]]
    BY <1>3 DEF Fence, _status
  <2>3. /\ records'[active].state = "CANCELLING"
        /\ \A b \in ActionIds \ {active} : records'[b] = records[b]
    BY <2>1, <2>2 DEF IInv, TypeOK, Record
  <2>4. Seen(active)' = "CANCELLING" /\ \A b \in ActionIds \ {active} : Seen(b)' = Seen(b)
    BY <2>3 DEF Seen
  <2>5. [b \in ActionIds |-> Seen(b)]'
          = [[b \in ActionIds |-> Seen(b)] EXCEPT ![active] = "CANCELLING"]
    BY <2>1, <2>4, SeenMoves
  <2> QED
    BY <1>1, <1>3, <2>5 DEF AsNode!Fenced, AsNode!HeldUntilStopped
<1> QED
  BY <1>2, <1>3

\* An owner that ends its action reports how it ended, or loses track of it.
LEMMA EndsAsNode ==
  ASSUME IInv, Written, NEW a \in ActionIds, Ends(a)
  PROVE  AsNode!ActionEnds(Node) \/ AsNode!LosesTrack(a)
<1> USE DEF life, gate, grants, work, ledger
<1>0. TypeOK /\ Ownership /\ QueueShape /\ QueueContents /\ Tracked
  BY DEF IInv
<1>1. /\ pc[a] \in Owning /\ active = a /\ active' = None
      /\ \A b \in ActionIds \ {a} : records'[b] = records[b]
      /\ records'[a].state \in Terminal
      /\ UNCHANGED <<boot, disk>>
  BY <1>0, EndsEffect, EndsRecord
<1>2. epoch' = epoch
  BY DEF Ends, IntentFenced, RunningLost, StoppedBeforeHandler, HandlerEnds
<1>3. a # None /\ records[a].state \in Pending /\ records[a] \in Record
  BY <1>0, <1>1, NoneAssumption, StatusType DEF Ownership, Owning, States
<1>4. \A b \in ActionIds \ {a} : Seen(b)' = Seen(b)
  BY <1>1 DEF Seen
\* Its intent is on disk.
<1>5. disk[a].state # "ABSENT"
  <2>1. CASE pc[a] = "intent"
    <3>1. Saved(a, "intent", "ok")
      BY <1>0, <2>1, OwnerAlone DEF Ends, IntentFenced, RunningLost, StoppedBeforeHandler, HandlerEnds
    <3>2. DOMAIN journal = {1} /\ journal[1].action = a /\ journal[1].result = "ok"
      BY <1>0, <3>1, OwnerAlone
    <3>3. disk[a] = journal[1].record /\ journal[1].record.state = "ACCEPTED"
      BY <1>0, <2>1, <3>2 DEF QueueContents
    <3> QED
      BY <3>3
  <2> QED
    BY <1>1, <2>1 DEF Written, Owning
\* What Finish leaves in the records.
<1>6. ASSUME NEW t \in States, NEW queue, Finish(a, t, queue) PROVE records'[a].state = t
  BY <1>0, <1>3, <1>6 DEF Finish, Persist, _status, TypeOK, Record
<1>7. "CANCELLED" \in States /\ "UNKNOWN" \in States /\ "FAILED" \in States
      /\ "SUCCEEDED" \in States
  BY DEF States, Terminal, Known
<1>8. CASE FinishUnknown(a, Tail(journal)) \/ FinishUnknown(a, journal)
  <2>1. /\ records'[a].state = "UNKNOWN" /\ admission' = "UNKNOWN" /\ stopConfirmed' = FALSE
    BY <1>6, <1>7, <1>8 DEF FinishUnknown
  <2>2. Seen(a)' = "UNKNOWN"
    BY <1>1, <1>5, <2>1 DEF Seen
  <2>3. [b \in ActionIds |-> Seen(b)]'
          = [[b \in ActionIds |-> Seen(b)] EXCEPT ![a] = "UNKNOWN"]
    BY <1>4, <2>2, SeenMoves
  <2> QED
    BY <1>1, <1>2, <2>1, <2>3 DEF AsNode!LosesTrack, AsNode!Unknown
<1>9. ASSUME records'[a].state \in Known,
             stopConfirmed' = (admission # "UNKNOWN"),
             admission # "OPEN" => records'[a].state # "SUCCEEDED",
             admission' = IF admission = "HELD" /\ records'[a].state = "CANCELLED"
                             /\ ~RobotControls
                          THEN "OPEN" ELSE admission
      PROVE  AsNode!ActionEnds(Node)
  <2> DEFINE t == records'[a].state
  <2>1. Seen(a)' = t
    BY <1>9 DEF Seen, Known
  <2>2. [b \in ActionIds |-> Seen(b)]' = [[b \in ActionIds |-> Seen(b)] EXCEPT ![a] = t]
    BY <1>4, <2>1, SeenMoves
  <2>3. t \in AsNode!Known
    BY <1>9 DEF Known, AsNode!Known
  <2> HIDE DEF t
  <2> QED
    BY <1>1, <1>2, <1>3, <1>9, <2>2, <2>3 DEF t, AsNode!ActionEnds, AsNode!HeldUntilStopped
<1>10. CASE IntentFenced(a)
  <2>1. records'[a].state = "CANCELLED"
    BY <1>0, <1>3, <1>10 DEF IntentFenced, Persist, _status, TypeOK, Record
  <2> QED
    BY <1>9, <1>10, <2>1 DEF IntentFenced, _finish_cancel, Known
<1>11. pc[a] \in {"running", "handler"} => admission # "UNKNOWN"
  BY <1>0 DEF Tracked
<1>12. ASSUME NEW queue, FinishStopped(a, queue), pc[a] \in {"running", "handler"}
       PROVE  AsNode!ActionEnds(Node)
  <2>1. records'[a].state = "CANCELLED"
    BY <1>6, <1>7, <1>12 DEF FinishStopped
  <2> QED
    BY <1>9, <1>11, <1>12, <2>1 DEF FinishStopped, _finish_cancel, Known
<1>13. CASE StoppedBeforeHandler(a)
  BY <1>12, <1>13 DEF StoppedBeforeHandler, Saved, SavedAs
<1>14. CASE HandlerEnds(a)
  <2>1. ASSUME NEW t \in {"SUCCEEDED", "FAILED"}, Finish(a, t, journal), stopConfirmed' = TRUE,
               UNCHANGED admission, t = "SUCCEEDED" => ~Stopped(a)
        PROVE  AsNode!ActionEnds(Node)
    <3>1. records'[a].state = t
      BY <1>6, <1>7, <2>1
    <3> QED
      BY <1>9, <1>11, <1>14, <2>1, <3>1 DEF HandlerEnds, Stopped, Known
  <2> QED
    BY <1>8, <1>12, <1>14, <2>1 DEF HandlerEnds
<1> QED
  BY <1>8, <1>10, <1>13, <1>14 DEF Ends, RunningLost

\* A first or last save that fails.
LEMMA LostAsNode ==
  ASSUME IInv, Written, NEW a \in ActionIds, SaveLost(a)
  PROVE  [AsNode!GateNext]_(AsNode!gateVars)
<1> USE DEF life, gate, grants, work, ledger
<1>0. TypeOK /\ Ownership
  BY DEF IInv
<1>1. pc[a] \in {"intent", "final"}
  BY DEF SaveLost, Saved, SavedAs
<1>2. records[a] \in Record
  BY <1>0, <1>1, StatusType DEF Ownership, States
<1>3. /\ records'[a].state = "UNKNOWN"
      /\ \A b \in ActionIds \ {a} : records'[b] = records[b]
      /\ admission' = "UNKNOWN" /\ stopConfirmed' = FALSE
      /\ UNCHANGED <<boot, epoch, disk>>
  BY <1>0, <1>2 DEF SaveLost, _status, TypeOK, Record
<1>4. Seen(a)' = (IF disk[a].state = "ABSENT" THEN "UNSAVED" ELSE "UNKNOWN")
      /\ \A b \in ActionIds \ {a} : Seen(b)' = Seen(b)
  BY <1>3 DEF Seen
<1>5. CASE pc[a] = "intent"
  <2>1. active = a /\ active' = None
    BY <1>0, <1>5 DEF SaveLost, Ownership, OneOwner, Owning
  <2>2. PICK s \in {"UNKNOWN", "UNSAVED"} : Seen(a)' = s
    BY <1>4
  <2>3. [b \in ActionIds |-> Seen(b)]' = [[b \in ActionIds |-> Seen(b)] EXCEPT ![a] = s]
    BY <1>4, <2>2, SeenMoves
  <2>4. AsNode!LosesTrack(a)
    BY <1>3, <2>1, <2>2, <2>3 DEF AsNode!LosesTrack, AsNode!Unknown
  <2> QED
    BY <2>4 DEF AsNode!GateNext
<1>6. CASE pc[a] = "final"
  <2>1. active # a /\ active' = active /\ Seen(a)' = "UNKNOWN"
    BY <1>0, <1>4, <1>6 DEF SaveLost, Written, Ownership, OneOwner, Owning
  <2>2. CASE records[a].state = "UNKNOWN"
    <3>1. admission = "UNKNOWN" /\ stopConfirmed = FALSE
      BY <1>0, <2>2 DEF IInv, Accounted, Tracked, StopIsTrue, TypeOK
    <3>2. Seen(a) = "UNKNOWN"
      BY <1>6, <2>2 DEF Seen, Written
    <3> QED
      BY <1>3, <1>4, <2>1, <3>1, <3>2, NodeStutters
  <2>3. CASE records[a].state \in Known
    <3>1. Seen(a) \in AsNode!Known
      BY <2>3 DEF Seen, Known, AsNode!Known
    <3>2. [b \in ActionIds |-> Seen(b)]'
            = [[b \in ActionIds |-> Seen(b)] EXCEPT ![a] = "UNKNOWN"]
      BY <1>4, <2>1, SeenMoves
    <3>3. AsNode!LosesTrack(a)
      BY <1>3, <2>1, <3>1, <3>2 DEF AsNode!LosesTrack
    <3> QED
      BY <3>3 DEF AsNode!GateNext
  <2>4. records[a].state \in Known \cup {"UNKNOWN"}
    BY <1>0, <1>2, <1>6 DEF Ownership, Owning, Record, States, Terminal, Pending
  <2> QED
    BY <2>2, <2>3, <2>4
<1> QED
  BY <1>1, <1>5, <1>6

\* A new process forgets what was never saved, and does not know how an action
\* ended whose last status was not.
LEMMA RestartAsNode ==
  ASSUME IInv, Restart
  PROVE  AsNode!Restarted(Node)
<1> DEFINE mine == {a \in ActionIds : Seen(a) # "absent"}
           saved == {a \in mine : Seen(a) # "UNSAVED"}
           lost == {a \in ActionIds : Seen(a)' = "UNKNOWN"}
<1>0. TypeOK
  BY DEF IInv
<1>1. ASSUME NEW a \in ActionIds
      PROVE  /\ a \in lost => a \in saved
             /\ a \notin lost => Seen(a)' = IF Seen(a) \in {"RUNNING", "CANCELLING", "UNSAVED"}
                                            THEN "absent" ELSE Seen(a)
             /\ records'[a].state = "UNKNOWN" <=> Seen(a)' = "UNKNOWN"
             /\ records'[a].state \in Known <=> Seen(a)' \in Known
             /\ records'[a].state \in Terminal \/ records'[a] = NoRecord
             /\ Seen(a)' # "absent" => Seen(a) # "absent"
  <2>1. /\ records'[a] = disk'[a]
        /\ disk[a].state = "ABSENT" => disk'[a] = disk[a]
        /\ disk[a].state \in Terminal => disk'[a] = disk[a]
        /\ disk[a].state \notin Terminal \cup {"ABSENT"} => disk'[a].state = "UNKNOWN"
        /\ disk[a].state # "ABSENT" => disk'[a].state \in Terminal
    BY <1>0, RestartRows
  <2>2. /\ disk[a].state \in Known => records[a].state = disk[a].state
        /\ disk[a].state # "ABSENT" => records[a].state # "ABSENT"
        /\ records[a].state \in Known => disk[a].state # "ABSENT"
    BY DEF IInv, DiskFollows, known
  <2>3. /\ records[a].state \in States \cup {"ABSENT"}
        /\ disk[a].state = "ABSENT" => disk[a] = NoRecord
    <3>1. disk[a] \in Record \cup {NoRecord}
      BY <1>0 DEF TypeOK
    <3>2. \A r \in Record : r.state # "ABSENT"
      BY DEF Record, States, Terminal, Known
    <3>3. records[a].state \in States \cup {"ABSENT"}
      BY <1>0 DEF TypeOK, Record, NoRecord
    <3> QED
      BY <3>1, <3>2, <3>3
  <2>4. CASE disk[a].state = "ABSENT"
    <3>1. records'[a] = NoRecord /\ Seen(a)' = "absent" /\ records'[a].state = "ABSENT"
      BY <2>1, <2>3, <2>4 DEF Seen, NoRecord
    <3>2. Seen(a) \in {"absent", "RUNNING", "CANCELLING", "UNSAVED"}
      BY <2>2, <2>3, <2>4 DEF Seen, States, Terminal, Known
    <3> QED
      BY <3>1, <3>2 DEF Known
  <2>5. CASE disk[a].state \in Known
    <3>1. records'[a].state = records[a].state /\ records[a].state \in Known
      BY <2>1, <2>2, <2>5 DEF Terminal, Known
    <3>2. Seen(a)' = records[a].state /\ Seen(a) = records[a].state
      BY <3>1 DEF Seen, Known
    <3> QED
      BY <3>1, <3>2 DEF Known, Terminal
  <2>6. CASE disk[a].state \notin Known \cup {"ABSENT"}
    <3>1. records'[a].state = "UNKNOWN" /\ disk'[a].state = "UNKNOWN"
      BY <2>1, <2>6 DEF Terminal
    <3>2. Seen(a)' = "UNKNOWN" /\ Seen(a) \notin {"absent", "UNSAVED"}
      BY <2>2, <2>3, <2>6, <3>1 DEF Seen, States, Terminal, Known
    <3> QED
      BY <3>1, <3>2 DEF Known, Terminal
  <2> QED
    BY <2>4, <2>5, <2>6
<1>2. [a \in ActionIds |-> Seen(a)]' = AsNode!AfterRestart(Node, lost)
  BY <1>1 DEF AsNode!AfterRestart, AsNode!Unsettled
<1>3. lost \in SUBSET saved
  BY <1>1
<1>4. (\E a \in mine : Seen(a)' = "UNKNOWN") <=> admission' = "UNKNOWN"
  BY <1>1 DEF Restart, BootAdmission
<1>5. admission' = IF \E a \in mine : Seen(a)' = "UNKNOWN" THEN "UNKNOWN"
                   ELSE IF RobotControls /\ (\E a \in mine : Seen(a)' \in Known) THEN "HELD"
                   ELSE "OPEN"
  <2>1. ASSUME \A a \in mine : Seen(a)' # "UNKNOWN"
        PROVE  (\E a \in mine : Seen(a)' \in Known) <=> \E a \in ActionIds : records'[a] # NoRecord
    <3>1. ASSUME NEW a \in ActionIds, records'[a] # NoRecord
          PROVE  a \in mine /\ Seen(a)' \in Known
      BY <1>1, <2>1, <3>1 DEF Terminal, Known
    <3>2. ASSUME NEW a \in mine, Seen(a)' \in Known PROVE records'[a] # NoRecord
      BY <1>1, <3>2 DEF NoRecord, Known
    <3> QED
      BY <3>1, <3>2
  <2> QED
    BY <1>4, <2>1 DEF Restart, BootAdmission
<1>6. /\ boot' = boot + 1 /\ epoch' = 0 /\ active' = None
      /\ stopConfirmed' = (admission' # "UNKNOWN")
  BY DEF Restart
<1> HIDE DEF lost
<1> QED
  BY <1>2, <1>3, <1>4, <1>5, <1>6 DEF AsNode!Restarted, AsNode!Known, Known

LEMMA StepAsNode ==
  ASSUME IInv, Written, [Next]_vars
  PROVE  [AsNode!GateNext]_(AsNode!gateVars)
<1> USE DEF life, gate, grants, work, ledger
<1>0. TypeOK /\ Ownership /\ QueueShape
  BY DEF IInv
<1>1. ASSUME UNCHANGED <<boot, epoch, admission, stopConfirmed, active, records, disk>>
      PROVE  UNCHANGED AsNode!gateVars
  BY <1>1, NodeStutters DEF Seen
<1>2. ASSUME NEW a \in ActionIds, NEW l \in LeaseIds, Submit(a, l)
      PROVE  AsNode!GateNext
  <2>1. /\ records[a].state = "ABSENT" /\ records'[a].state = "ACCEPTED"
        /\ \A b \in ActionIds \ {a} : records'[b] = records[b]
        /\ active = None /\ active' = a /\ admission = "OPEN" /\ stopConfirmed' = FALSE
        /\ UNCHANGED <<boot, epoch, admission, disk>>
    BY <1>0, <1>2 DEF Submit, Authorised, known, TypeOK
  <2>2. Seen(a) = "absent" /\ Seen(a)' = "RUNNING" /\ \A b \in ActionIds \ {a} : Seen(b)' = Seen(b)
    BY <2>1 DEF Seen
  <2>3. [b \in ActionIds |-> Seen(b)]' = [[b \in ActionIds |-> Seen(b)] EXCEPT ![a] = "RUNNING"]
    BY <2>2, SeenMoves
  <2>4. AsNode!MayAdmit(a, boot, epoch)
    BY <2>1, <2>2 DEF AsNode!MayAdmit, AsNode!SameAuthority
  <2>5. AsNode!Admit(a)
    BY <2>1, <2>3 DEF AsNode!Admit
  <2> QED
    BY <2>4, <2>5 DEF AsNode!GateNext
<1>3. ASSUME NEW a \in ActionIds, IntentAdmitted(a) \/ Progress(a)
      PROVE  UNCHANGED AsNode!gateVars
  <2>1. pc[a] \in Owning
    BY <1>3 DEF IntentAdmitted, Progress, Progress_after_stop, Saved, SavedAs, Owning
  <2>2. records[a].state \in {"ACCEPTED", "RUNNING"} /\ records[a] \in Record
    BY <1>0, <1>3, <2>1, StatusType
    DEF IInv, Signalled, IntentAdmitted, Progress, Ownership, Owning, Pending, States
  <2>3. records' = _status(a, "RUNNING")
        /\ UNCHANGED <<boot, epoch, admission, stopConfirmed, active, disk>>
    BY <1>3 DEF IntentAdmitted, Progress, Progress_after_stop, Persist
  <2>4. records'[a].state = "RUNNING" /\ \A b \in ActionIds \ {a} : records'[b] = records[b]
    BY <1>0, <2>2, <2>3 DEF _status, TypeOK, Record
  <2>5. \A b \in ActionIds : Seen(b)' = Seen(b)
    BY <2>2, <2>3, <2>4 DEF Seen
  <2> QED
    BY <2>3, <2>5, NodeStutters
<1>4. ASSUME JournalWrite PROVE UNCHANGED AsNode!gateVars
  <2>1. PICK i \in DOMAIN journal :
          /\ disk' = disk \/ disk' = [disk EXCEPT ![journal[i].action] = journal[i].record]
          /\ UNCHANGED <<boot, epoch, admission, stopConfirmed, active, records>>
    BY <1>4 DEF JournalWrite
  <2>2. /\ journal[i].action \in ActionIds /\ journal[i].record \in Record
        /\ pc[journal[i].action] \in Waiting
    BY <1>0, WriteOf DEF Write
  <2>3. ASSUME NEW a \in ActionIds PROVE Seen(a)' = Seen(a)
    <3>1. CASE disk'[a] = disk[a]
      BY <2>1, <3>1 DEF Seen
    <3>2. CASE a = journal[i].action
      <4>1. disk'[a].state # "ABSENT" \/ disk'[a] = disk[a]
        BY <1>0, <2>1, <2>2, <3>2 DEF TypeOK, Record, States, Terminal, Known
      <4>2. records[a].state = "UNKNOWN" => disk[a].state # "ABSENT"
        BY <1>0, <2>2, <3>2 DEF Waiting, Written, Ownership, Owning, Pending
      <4> QED
        BY <2>1, <3>1, <4>1, <4>2 DEF Seen
    <3> QED
      BY <1>0, <2>1, <2>2, <3>1, <3>2 DEF TypeOK
  <2> QED
    BY <2>1, <2>3, NodeStutters
<1>5. ASSUME NEW a \in ActionIds,
             StartHandler(a) \/ FinalSaved(a) \/ BackendMoves(a)
      PROVE  UNCHANGED AsNode!gateVars
  BY <1>1, <1>5 DEF StartHandler, FinalSaved, BackendMoves
<1>6. ASSUME AllowActions PROVE AsNode!GateNext
  <2>1. /\ RobotControls /\ admission = "HELD" /\ stopConfirmed /\ active = None
        /\ epoch' = epoch + 1 /\ admission' = "OPEN"
        /\ UNCHANGED <<boot, stopConfirmed, active, records, disk>>
    BY <1>6 DEF AllowActions
  <2>2. UNCHANGED [b \in ActionIds |-> Seen(b)]
    BY <2>1, SeenStays DEF Seen
  <2>3. AsNode!MayReopen(Node) /\ AsNode!Reopened(Node)
    BY <2>1, <2>2 DEF AsNode!MayReopen, AsNode!Reopened
  <2> QED
    BY <2>3 DEF AsNode!GateNext
<1>7. ASSUME NEW kind, Fence(kind), UNCHANGED <<boot, active, disk>> PROVE AsNode!GateNext
  BY <1>7, FenceAsNode DEF AsNode!GateNext
<1>8. ASSUME Hold \/ (\E target \in ActionIds \cup {None} : Cancel(target)) \/ CloseActive
      PROVE  [AsNode!GateNext]_(AsNode!gateVars)
  BY <1>1, <1>7, <1>8 DEF Hold, Cancel, CloseActive
<1>9. ASSUME NEW a \in ActionIds, Ends(a) PROVE AsNode!GateNext
  BY <1>9, EndsAsNode DEF AsNode!GateNext
<1>10. CASE Restart
  BY <1>10, RestartAsNode DEF AsNode!GateNext
<1>11. ASSUME (\E l \in LeaseIds : GrantLease(l) \/ ExpireLease(l)) \/ CloseStep \/ UNCHANGED vars
       PROVE  UNCHANGED AsNode!gateVars
  BY <1>1, <1>11 DEF GrantLease, ExpireLease, CloseStep, vars
<1> QED
  BY <1>2, <1>3, <1>4, <1>5, <1>6, <1>8, <1>9, <1>10, <1>11, LostAsNode
  DEF Next, Resume, Ends

\* Nothing but the save of an intent comes before the first row of an action.
LEMMA WrittenStep ==
  ASSUME IInv, Written, [Next]_vars
  PROVE  Written'
<1> USE DEF life, gate, grants, work, ledger
<1> DEFINE Past == {"running", "handler", "final"}
<1>0. TypeOK /\ Ownership /\ QueueShape /\ QueueContents
  BY DEF IInv
<1>1. ASSUME ~Restart
      PROVE  \A a \in ActionIds : disk[a].state # "ABSENT" => disk'[a].state # "ABSENT"
  <2>1. CASE JournalWrite
    <3>1. PICK i \in DOMAIN journal :
            disk' = disk \/ disk' = [disk EXCEPT ![journal[i].action] = journal[i].record]
      BY <2>1 DEF JournalWrite
    <3>2. journal[i].action \in ActionIds /\ journal[i].record \in Record
      BY <1>0, WriteOf DEF Write
    <3> QED
      BY <1>0, <3>1, <3>2 DEF TypeOK, Record, States, Terminal, Known
  <2>2. CASE ~JournalWrite
    <3>1. \A a \in ActionIds : Ends(a) => disk' = disk
      BY <1>0, EndsEffect
    <3> QED
      BY <1>1, <2>2, <3>1 DEF Next, GrantLease, ExpireLease, Submit, Resume, Ends, IntentAdmitted,
         StartHandler, FinalSaved, SaveLost, HandlerEnds, Progress, Progress_after_stop,
         BackendMoves, Hold, Cancel, AllowActions, CloseActive, CloseStep, vars
  <2> QED
    BY <2>1, <2>2
<1>2. CASE Restart
  BY <1>2 DEF Restart, Written
\* A coroutine gets past its intent when that is on disk.
<1>3. ASSUME NEW a \in ActionIds, IntentAdmitted(a) \/ IntentFenced(a)
      PROVE  disk[a].state # "ABSENT"
  <2>1. Saved(a, "intent", "ok")
    BY <1>3 DEF IntentAdmitted, IntentFenced
  <2>2. DOMAIN journal = {1} /\ journal[1].action = a /\ journal[1].result = "ok"
        /\ pc[a] = "intent"
    BY <1>0, <2>1, OwnerAlone
  <2>3. disk[a] = journal[1].record /\ journal[1].record.state = "ACCEPTED"
    BY <1>0, <2>2 DEF QueueContents
  <2> QED
    BY <2>3
<1>4. ASSUME ~Restart, NEW a \in ActionIds, pc'[a] \in Past
      PROVE  \/ pc[a] \in Past
             \/ IntentAdmitted(a) \/ IntentFenced(a)
  <2>1. CASE pc' = pc
    BY <1>4, <2>1
  <2>2. ASSUME NEW b \in ActionIds, NEW l \in LeaseIds, Submit(b, l)
        PROVE  pc[a] \in Past
    BY <1>0, <1>4, <2>2 DEF Submit, TypeOK
  <2>3. ASSUME NEW b \in ActionIds, IntentAdmitted(b) \/ IntentFenced(b)
        PROVE  a = b \/ pc[a] \in Past
    BY <1>0, <1>4, <2>3 DEF IntentAdmitted, IntentFenced, Persist, TypeOK
  <2>4. ASSUME NEW b \in ActionIds, RunningLost(b) \/ StoppedBeforeHandler(b) \/ HandlerEnds(b)
        PROVE  pc[a] \in Past
    <3>1. pc[b] \in Past /\ \A c \in ActionIds \ {b} : pc'[c] = pc[c]
      BY <1>0, <2>4, EndsRecord DEF Ends, RunningLost, StoppedBeforeHandler, HandlerEnds, Saved, SavedAs
    <3> QED
      BY <1>4, <3>1
  <2>5. ASSUME NEW b \in ActionIds, StartHandler(b) \/ FinalSaved(b) \/ SaveLost(b)
        PROVE  pc[a] \in Past
    BY <1>0, <1>4, <2>5 DEF StartHandler, FinalSaved, SaveLost, Saved, SavedAs, TypeOK
  <2> QED
    BY <1>4, <2>1, <2>2, <2>3, <2>4, <2>5
    DEF Next, GrantLease, ExpireLease, JournalWrite, Resume, Progress, Progress_after_stop,
        BackendMoves, Hold, Cancel, AllowActions, CloseActive, CloseStep, vars
<1>5. ASSUME ~Restart, NEW a \in ActionIds, pc'[a] \in Past
      PROVE  disk'[a].state # "ABSENT"
  BY <1>1, <1>3, <1>4, <1>5 DEF Written
<1> QED
  BY <1>2, <1>5 DEF Written

LEMMA WrittenFirst == Spec => []Written
<1>1. Init => Written
  BY DEF Init, Written
<1> QED
  BY <1>1, WrittenStep, Inductive, PTL DEF Spec

LEMMA InitAsNode == Init => AsNode!GateInit
BY DEF Init, AsNode!GateInit, Seen, NoRecord

\* Every behaviour of the executor is one of NodeGate, so what is proved of a task
\* among nodes that behave as NodeGate does holds among executors: no save, lease,
\* state version or restart shows its clients anything else.
THEOREM NodeRefinement == Spec => ImplementsNodeGate
BY InitAsNode, StepAsNode, WrittenFirst, Inductive, PTL
DEF Spec, ImplementsNodeGate, AsNode!GateSpec
===============================================================================
