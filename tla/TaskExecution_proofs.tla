-------------------------- MODULE TaskExecution_proofs --------------------------
(* Proofs about one task on its nodes, for any number of steps, nodes,     *)
(* faults and cancels and any plan.                                        *)
EXTENDS TaskInvariant, TLAPS

\* Every action has a node.
LEMMA Homes ==
  /\ \A a \in Actions : Home[a] \in Nodes
  /\ \A s \in Steps : NodeOf[s] \in Nodes
  /\ \A s \in Steps, att \in Attempts : <<s, att>> \in Actions /\ Home[<<s, att>>] = NodeOf[s]
BY NodeAssumption DEF Home, Actions

-------------------------------------------------------------------------------
(* What a step may do to the nodes, whoever takes it.                      *)

\* Authorities only go on.
Forward ==
  \A n \in Nodes : boot'[n] > boot[n] \/ (boot'[n] = boot[n] /\ epoch'[n] >= epoch[n])

\* The submission m is admitted by its node.
Admitted(m) ==
  /\ m \in Submits /\ MayAdmit(m.action, m.boot, m.epoch)
  /\ wire' = wire \ {m}

\* An action begins by being admitted; once it has ended, its end is known or lost,
\* and one that was never saved is forgotten by a new process.
StatusMoves ==
  \A a \in Actions :
    \/ status'[a] = status[a]
    \/ status[a] \in Running
    \/ /\ status[a] # "absent" /\ status'[a] = "UNKNOWN"
       /\ admission'[Home[a]] = "UNKNOWN" \/ boot'[Home[a]] > boot[Home[a]]
    \/ /\ status[a] = "UNSAVED" /\ status'[a] = "absent"
       /\ boot'[Home[a]] > boot[Home[a]]
    \/ /\ status[a] = "absent" /\ status'[a] = "RUNNING"
       /\ \E m \in Submits : m.action = a /\ Admitted(m)
ActiveMoves ==
  \A n \in Nodes :
    \/ active'[n] \in {active[n], None}
    \/ \E m \in Submits : Home[m.action] = n /\ Admitted(m)

\* A node that has lost track stays so until it restarts; a robot closes with a new
\* epoch; and so does who has closed it.
GateMoves ==
  \A n \in Nodes :
    /\ boot'[n] = boot[n] /\ admission[n] = "UNKNOWN" => admission'[n] = "UNKNOWN"
    /\ n \in Robots /\ boot'[n] = boot[n] /\ epoch'[n] = epoch[n]
         /\ admission[n] \in {"OPEN", "UNKNOWN"} => admission'[n] \in {"OPEN", "UNKNOWN"}
    /\ closedBy'[n] # closedBy[n] =>
         boot'[n] > boot[n] \/ (boot'[n] = boot[n] /\ epoch'[n] > epoch[n])

ClosedByOK == closedBy \in [Nodes -> {"nobody", "task", "other"}]
NodeMoves ==
  /\ GateTypeOK' /\ ClosedByOK' /\ Owners'
  /\ Forward /\ StatusMoves /\ ActiveMoves /\ GateMoves

LEMMA NodesStay ==
  ASSUME TypeOK, Owners, UNCHANGED env
  PROVE  NodeMoves
<1>1. GateTypeOK' /\ ClosedByOK'
  BY DEF env, nodes, TypeOK, GateTypeOK, ClosedByOK
<1>2. Owners'
  BY DEF env, nodes, Owners
<1>3. Forward /\ StatusMoves /\ ActiveMoves /\ GateMoves
  BY DEF env, nodes, TypeOK, GateTypeOK, Forward, StatusMoves, ActiveMoves, GateMoves
<1> QED
  BY <1>1, <1>2, <1>3 DEF NodeMoves

LEMMA AdmitMoves ==
  ASSUME TypeOK, Owners, NEW m \in Submits, m.action \in Actions, Admitted(m),
         Admit(m.action), UNCHANGED closedBy
  PROVE  NodeMoves
<1> DEFINE a == m.action
           n == Home[a]
<1>1. /\ a \in Actions /\ n \in Nodes /\ active[n] = None /\ status[a] = "absent"
      /\ status' = [status EXCEPT ![a] = "RUNNING"]
      /\ active' = [active EXCEPT ![n] = a]
      /\ stopConfirmed' = [stopConfirmed EXCEPT ![n] = FALSE]
      /\ UNCHANGED <<boot, epoch, admission>>
  BY Homes DEF Admit, Admitted, MayAdmit
<1>2. GateTypeOK' /\ ClosedByOK'
  BY <1>1 DEF TypeOK, GateTypeOK, ClosedByOK
<1>3. Owners'
  BY <1>1, RecordAssumption DEF TypeOK, GateTypeOK, Owners, Running
<1>4. Forward /\ GateMoves
  BY <1>1 DEF TypeOK, GateTypeOK, Forward, GateMoves
<1>5. StatusMoves
  BY <1>1 DEF TypeOK, GateTypeOK, StatusMoves
<1>6. ActiveMoves
  BY <1>1 DEF TypeOK, GateTypeOK, ActiveMoves
<1> QED
  BY <1>2, <1>3, <1>4, <1>5, <1>6 DEF NodeMoves

LEMMA FencedMoves ==
  ASSUME TypeOK, Owners, NEW n \in Nodes, Fenced(n), NEW who \in {"nobody", "task", "other"},
         closedBy' = [closedBy EXCEPT ![n] = who] \/ UNCHANGED closedBy
  PROVE  NodeMoves
<1> DEFINE idle == active[n] = None
<1>1. /\ epoch' = [epoch EXCEPT ![n] = @ + 1]
      /\ stopConfirmed' = [stopConfirmed EXCEPT ![n] = idle /\ admission[n] # "UNKNOWN"]
      /\ admission' = [admission EXCEPT ![n] =
                         IF @ = "UNKNOWN" THEN @ ELSE HeldUntilStopped(n, idle)]
      /\ status' = IF idle THEN status ELSE [status EXCEPT ![active[n]] = "CANCELLING"]
      /\ UNCHANGED <<boot, active>>
  BY DEF Fenced
<1>2. HeldUntilStopped(n, idle) \in {"OPEN", "HELD"}
  BY DEF HeldUntilStopped
<1>3. ~idle => active[n] \in Actions /\ status[active[n]] \in Running /\ Home[active[n]] = n
  BY DEF TypeOK, GateTypeOK, Owners
<1>4. status' \in [Actions -> {"absent", "RUNNING", "CANCELLING"} \cup Terminal]
  BY <1>1, <1>3 DEF TypeOK, GateTypeOK
<1>5. GateTypeOK' /\ ClosedByOK'
  <2>1. ClosedByOK'
    BY DEF TypeOK, ClosedByOK
  <2> HIDE DEF idle
  <2>2. GateTypeOK'
    BY <1>1, <1>2, <1>4 DEF TypeOK, GateTypeOK
  <2> QED
    BY <2>1, <2>2
<1>6. \A a \in Actions : status'[a] = status[a] \/ (status[a] \in Running /\ status'[a] \in Running)
  BY <1>1, <1>3 DEF TypeOK, GateTypeOK, Running
<1>7. Owners'
  <2>1. \A k \in Nodes : active[k] = None \/ active[k] \in Actions
    BY DEF TypeOK, GateTypeOK
  <2> QED
    BY <1>1, <1>6, <2>1 DEF Owners
<1>8. Forward /\ ActiveMoves
  BY <1>1 DEF TypeOK, GateTypeOK, Forward, ActiveMoves
<1>9. StatusMoves
  BY <1>6 DEF StatusMoves
<1>10. GateMoves
  BY <1>1 DEF TypeOK, GateTypeOK, GateMoves
<1> QED
  BY <1>5, <1>7, <1>8, <1>9, <1>10 DEF NodeMoves

LEMMA ReopenedMoves ==
  ASSUME TypeOK, Owners, NEW n \in Nodes, MayReopen(n), Reopened(n),
         closedBy' = [closedBy EXCEPT ![n] = "nobody"] \/ UNCHANGED closedBy
  PROVE  NodeMoves
<1>1. /\ epoch' = [epoch EXCEPT ![n] = @ + 1] /\ admission[n] = "HELD"
      /\ admission' = [admission EXCEPT ![n] = "OPEN"]
      /\ UNCHANGED <<boot, stopConfirmed, active, status>>
  BY DEF Reopened, MayReopen
<1>2. GateTypeOK' /\ ClosedByOK'
  BY <1>1 DEF TypeOK, GateTypeOK, ClosedByOK
<1>3. Owners'
  BY <1>1 DEF Owners
<1>4. Forward /\ GateMoves
  BY <1>1 DEF TypeOK, GateTypeOK, Forward, GateMoves
<1>5. StatusMoves /\ ActiveMoves
  BY <1>1 DEF StatusMoves, ActiveMoves
<1> QED
  BY <1>2, <1>3, <1>4, <1>5 DEF NodeMoves

LEMMA ActionEndsMoves ==
  ASSUME TypeOK, Owners, NEW n \in Nodes, ActionEnds(n), UNCHANGED closedBy
  PROVE  NodeMoves
<1> DEFINE a == active[n]
<1>1. PICK s \in Known :
        /\ status' = [status EXCEPT ![active[n]] = s]
        /\ admission' = [admission EXCEPT ![n] =
             IF @ = "HELD" /\ s = "CANCELLED" THEN HeldUntilStopped(n, TRUE) ELSE @]
  BY DEF ActionEnds
<1>2. /\ a \in Actions /\ a # None /\ Home[a] = n /\ status[a] \in Running
      /\ stopConfirmed' = [stopConfirmed EXCEPT ![n] = admission[n] # "UNKNOWN"]
      /\ active' = [active EXCEPT ![n] = None]
      /\ UNCHANGED <<boot, epoch>>
  BY DEF ActionEnds, TypeOK, GateTypeOK, Owners
<1>3. HeldUntilStopped(n, TRUE) \in {"OPEN", "HELD"} /\ s \in Terminal /\ s \notin Running
  BY DEF HeldUntilStopped, Terminal, Known, Running
<1>4. GateTypeOK' /\ ClosedByOK'
  BY <1>1, <1>2, <1>3 DEF TypeOK, GateTypeOK, ClosedByOK
<1>5. Owners'
  BY <1>1, <1>2, <1>3, Homes DEF TypeOK, GateTypeOK, Owners
<1>6. Forward /\ ActiveMoves
  BY <1>2 DEF TypeOK, GateTypeOK, Forward, ActiveMoves
<1>7. GateMoves
  BY <1>1, <1>2 DEF TypeOK, GateTypeOK, GateMoves
<1>8. StatusMoves
  BY <1>1, <1>2 DEF TypeOK, GateTypeOK, StatusMoves
<1> QED
  BY <1>4, <1>5, <1>6, <1>7, <1>8 DEF NodeMoves

LEMMA LosesTrackMoves ==
  ASSUME TypeOK, Owners, NEW a \in Actions, LosesTrack(a), UNCHANGED closedBy
  PROVE  NodeMoves
<1> DEFINE n == Home[a]
<1>1. /\ n \in Nodes
      /\ status[a] \in Known \/ active[n] = a
      /\ \E s \in Unknown : /\ status' = [status EXCEPT ![a] = s]
                            /\ status[a] \in Known => s = "UNKNOWN"
      /\ admission' = [admission EXCEPT ![n] = "UNKNOWN"]
      /\ stopConfirmed' = [stopConfirmed EXCEPT ![n] = FALSE]
      /\ active' = [active EXCEPT ![n] = IF @ = a THEN None ELSE @]
      /\ UNCHANGED <<boot, epoch>>
  BY Homes, RecordAssumption DEF LosesTrack, Unknown, Owners, Known, Running
<1>2. status[a] # "absent" /\ (status[a] \in Known \/ status[a] \in Running)
  BY <1>1, RecordAssumption DEF Owners, Known, Running
<1>3. GateTypeOK' /\ ClosedByOK'
  BY <1>1 DEF TypeOK, GateTypeOK, ClosedByOK, Terminal
<1>4. Owners'
  BY <1>1, Homes DEF TypeOK, GateTypeOK, Owners, Running, Unknown
<1>5. Forward /\ ActiveMoves /\ GateMoves
  BY <1>1 DEF TypeOK, GateTypeOK, Forward, ActiveMoves, GateMoves
<1>6. StatusMoves
  BY <1>1, <1>2, Homes DEF TypeOK, GateTypeOK, StatusMoves
<1> QED
  BY <1>3, <1>4, <1>5, <1>6 DEF NodeMoves

LEMMA RestartMoves ==
  ASSUME TypeOK, Owners, NEW n \in Nodes, Restarted(n),
         closedBy' = [closedBy EXCEPT ![n] = "other"]
  PROVE  NodeMoves
<1> DEFINE mine == {a \in Actions : Home[a] = n /\ status[a] # "absent"}
           of(s) == \E a \in mine : status'[a] \in s
           saved == {a \in mine : status[a] # "UNSAVED"}
<1>1. /\ boot' = [boot EXCEPT ![n] = @ + 1]
      /\ epoch' = [epoch EXCEPT ![n] = 0]
      /\ active' = [active EXCEPT ![n] = None]
      /\ admission' = [admission EXCEPT ![n] =
           IF of({"UNKNOWN"}) THEN "UNKNOWN"
           ELSE IF n \in Robots /\ of(Known) THEN "HELD" ELSE "OPEN"]
      /\ stopConfirmed' = [stopConfirmed EXCEPT ![n] = ~of({"UNKNOWN"})]
  BY DEF Restarted
<1>2. PICK lost \in SUBSET saved : status' = AfterRestart(n, lost)
  BY DEF Restarted
<1>3. \A a \in Actions :
        status'[a] = IF a \in lost THEN "UNKNOWN"
                     ELSE IF Home[a] = n /\ status[a] \in Running \cup {"UNSAVED"}
                          THEN "absent"
                     ELSE status[a]
  BY <1>2 DEF AfterRestart, Running, Unsettled
<1>4. status' \in [Actions -> {"absent", "RUNNING", "CANCELLING"} \cup Terminal]
  BY <1>2 DEF AfterRestart, TypeOK, GateTypeOK, Terminal, Unknown
<1> HIDE DEF of
<1>5. GateTypeOK' /\ ClosedByOK'
  BY <1>1, <1>4 DEF TypeOK, GateTypeOK, ClosedByOK
<1>6. Owners'
  BY <1>1, <1>3 DEF TypeOK, GateTypeOK, Owners, Running
<1>7. Forward /\ ActiveMoves /\ GateMoves
  BY <1>1 DEF TypeOK, GateTypeOK, Forward, ActiveMoves, GateMoves, ClosedByOK
<1>8. StatusMoves
  <2> SUFFICES ASSUME NEW a \in Actions, status'[a] # status[a], status[a] \notin Running
               PROVE  /\ boot'[Home[a]] > boot[Home[a]]
                      /\ \/ status[a] # "absent" /\ status'[a] = "UNKNOWN"
                         \/ status[a] = "UNSAVED" /\ status'[a] = "absent"
    BY DEF StatusMoves
  <2>1. Home[a] = n /\ status[a] # "absent"
    BY <1>3
  <2> QED
    BY <1>1, <1>3, <2>1 DEF TypeOK, GateTypeOK
<1> QED
  BY <1>5, <1>6, <1>7, <1>8 DEF NodeMoves

LEMMA EveryStepMoves ==
  ASSUME TypeOK, Owners, Submissions, [Next]_vars
  PROVE  NodeMoves
<1>1. CASE UNCHANGED env
  BY <1>1, NodesStay
<1>2. ASSUME NEW m \in wire, Deliver(m) PROVE NodeMoves
  <2>1. CASE DeliverSubmit(m)
    <3>1. m \in Submits /\ UNCHANGED closedBy
      BY <2>1 DEF DeliverSubmit, Submits
    <3>2. m.action \in Actions
      <4>1. m.from \in Steps /\ \E att \in Attempts : m.action = <<m.from, att>>
        BY <3>1 DEF Submissions
      <4> QED
        BY <4>1, Homes
    <3>3. CASE UNCHANGED nodes
      BY <1>1, <3>1, <3>3 DEF env
    <3>4. CASE /\ MayAdmit(m.action, m.boot, m.epoch)
               /\ Admit(m.action) /\ Reply(m, "accepted")
      BY <3>1, <3>2, <3>4, AdmitMoves DEF Admitted, Reply
    <3> QED
      BY <2>1, <3>3, <3>4 DEF DeliverSubmit
  <2>2. CASE DeliverHold(m)
    <3>1. m.node \in Nodes
      BY <1>2 DEF TypeOK, Message
    <3>2. CASE UNCHANGED <<nodes, closedBy>>
      BY <1>1, <3>2 DEF env
    <3>3. CASE Fenced(m.node) /\ closedBy' =
                 IF admission[m.node] # "OPEN" THEN closedBy
                 ELSE [closedBy EXCEPT ![m.node] =
                         IF authority[m.node] = Shown(m.node) THEN "task" ELSE "other"]
      BY <3>1, <3>3, FencedMoves
    <3> QED
      BY <2>2, <3>2, <3>3 DEF DeliverHold
  <2>3. CASE DeliverAllow(m)
    <3>1. m.node \in Nodes /\ UNCHANGED closedBy
      BY <1>2, <2>3 DEF TypeOK, Message, DeliverAllow
    <3>2. CASE UNCHANGED nodes
      BY <1>1, <3>1, <3>2 DEF env
    <3>3. CASE MayReopen(m.node) /\ Reopened(m.node)
      BY <3>1, <3>3, ReopenedMoves
    <3> QED
      BY <2>3, <3>2, <3>3 DEF DeliverAllow
  <2> QED
    BY <1>2, <2>1, <2>2, <2>3 DEF Deliver
<1>3. ASSUME NEW n \in Nodes, NodeRuns(n) PROVE NodeMoves
  BY <1>3, ActionEndsMoves DEF NodeRuns
<1>4. CASE NodeFault
  BY <1>4, LosesTrackMoves, RestartMoves DEF NodeFault
<1>5. CASE OtherClient
  BY <1>5, FencedMoves, ReopenedMoves DEF OtherClient
<1>6. ExecuteStep \/ Cancel \/ FinishStep => UNCHANGED env
  BY DEF ExecuteStep, Capture, PreflightEnds, ExecuteEnds, Cancel, FinishStep, AllFenced,
         StatusesRead, CancelEnds, CancelFails
<1>7. (\E s \in Steps : JobStep(s)) => UNCHANGED env
  BY DEF JobStep, StepBlocked, StepStarts, AttemptStarts, SubmitAnswered, SubmitUncertain,
         Poll, Recover, Again, JobFences, JobFenced
<1>8. (\E n \in Nodes : CancelStep(n)) => UNCHANGED env
  BY DEF CancelStep, CancelFences, CancelFenced, NodeStopped, Release, ReleaseAnswered
<1>9. UNCHANGED vars => UNCHANGED env
  BY DEF vars
<1> QED
  BY <1>1, <1>2, <1>3, <1>4, <1>5, <1>6, <1>7, <1>8, <1>9 DEF Next

-------------------------------------------------------------------------------
(* Types, part by part.                                                    *)

Pcs == {"waiting", "context", "submit", "poll", "recover", "again", "fence", "hold", "done"}
SidePcs == {"fence", "hold", "fenced", "failed", "stopped", "allow", "done"}
JobOK == job \in [Steps -> [pc : Pcs, attempt : Attempts, tries : 0 .. MaxTries]]
SideOK ==
  side \in [Nodes -> [pc : SidePcs, tries : 0 .. MaxTries, receipt : Nat, world : Nat,
                      held : BOOLEAN]]
TaskOK ==
  /\ state \in {"RUNNING", "CANCELLING", "UNKNOWN"} \cup Settled
  /\ plan \in Plans
  /\ executing \in {"preflight", "steps", "done"}
  /\ authority \in [Nodes -> Authority \cup {None}]
CancelOK ==
  /\ finish \in {"none", "fence", "wait", "release"}
  /\ SideOK /\ tally \in [Steps -> Outcomes] /\ cancels \in 0 .. MaxCancels
BookOK ==
  /\ outcome \in [Steps -> Outcomes] /\ results \in [Steps -> Outcomes]
  /\ actions \subseteq Actions /\ recovered \in BOOLEAN
  /\ released \in [Nodes -> Nat \cup {None}]
NetOK ==
  /\ wire \subseteq Message
  /\ call \in [Steps \cup Nodes -> {None} \cup CallRecord]
FaultOK == faults \in 0 .. MaxFaults

LEMMA TypeParts ==
  TypeOK <=> /\ GateTypeOK /\ ClosedByOK
             /\ TaskOK /\ CancelOK /\ BookOK /\ JobOK /\ NetOK /\ FaultOK
BY DEF TypeOK, ClosedByOK, TaskOK, CancelOK, SideOK, BookOK, JobOK, NetOK, FaultOK, Pcs, SidePcs

\* The pieces the actions are made of.
LEMMA FaultTypes ==
  ASSUME FaultOK, Fault \/ NoFault
  PROVE  FaultOK'
BY BoundAssumption DEF FaultOK, Fault, NoFault

LEMMA Sends ==
  ASSUME NetOK, CancelOK, NEW kind \in {"submit", "hold", "allow"}, NEW x \in Steps \cup Nodes,
         NEW a \in Actions \cup {None}, NEW n \in Nodes, NEW e \in Authority,
         (admission[n] = "OPEN") \in BOOLEAN, Send(kind, x, a, n, e)
  PROVE  LET m == [kind |-> kind, from |-> x, action |-> a, node |-> n, boot |-> e.boot,
                   epoch |-> e.epoch, no |-> cancels]
         IN /\ m \in Message /\ NetOK' /\ wire' = wire \cup {m}
            /\ call'[x] = [msg |-> m, open |-> admission[n] = "OPEN", answer |-> "none"]
            /\ call'[x] \in CallRecord /\ call'[x] # None
            /\ \A y \in Steps \cup Nodes : y # x => call'[y] = call[y]
<1> DEFINE m == [kind |-> kind, from |-> x, action |-> a, node |-> n, boot |-> e.boot,
                 epoch |-> e.epoch, no |-> cancels]
           c == [msg |-> m, open |-> admission[n] = "OPEN", answer |-> "none"]
<1>1. m \in Message
  BY DEF Message, CancelOK, Authority
<1>2. wire' = wire \cup {m} /\ call' = [call EXCEPT ![x] = c]
  BY DEF Send
<1> HIDE DEF m
<1>3. c \in CallRecord
  BY <1>1 DEF CallRecord
<1>4. c # None
  BY <1>3, RecordAssumption
<1> HIDE DEF c
<1>5. /\ wire' \subseteq Message
      /\ call' \in [Steps \cup Nodes -> {None} \cup CallRecord]
      /\ call'[x] = c
      /\ \A y \in Steps \cup Nodes : y # x => call'[y] = call[y]
  BY <1>1, <1>2, <1>3 DEF NetOK
<1> QED
  BY <1>1, <1>2, <1>3, <1>4, <1>5 DEF NetOK, m, c

LEMMA HangsUp ==
  ASSUME NetOK, NEW x \in Steps \cup Nodes, HangUp(x)
  PROVE  /\ NetOK' /\ wire' = wire /\ call'[x] = None
         /\ \A y \in Steps \cup Nodes : y # x => call'[y] = call[y]
BY DEF NetOK, HangUp

\* An answer changes nothing but the answer of the call that waits for it.
LEMMA Replies ==
  ASSUME NetOK, NEW m \in wire, NEW answer \in {"accepted", "unknown", "refused"},
         Reply(m, answer)
  PROVE  /\ NetOK' /\ wire' = wire \ {m}
         /\ \A x \in Steps \cup Nodes :
              \/ call'[x] = call[x]
              \/ /\ x = m.from /\ call[x] # None /\ call[x].msg = m /\ call'[x] # None
                 /\ call'[x].msg = m /\ call'[x].open = call[x].open
                 /\ call'[x].answer = answer
         /\ \A x \in Steps \cup Nodes :
              call[x] # None /\ call[x].msg = m /\ x = m.from => call'[x].answer = answer
<1> DEFINE x == m.from
           new == IF call[x] # None /\ call[x].msg = m THEN [call[x] EXCEPT !.answer = answer]
                  ELSE call[x]
<1>1. x \in Steps \cup Nodes /\ m \in Message
  BY DEF NetOK, Message
<1>2. wire' = wire \ {m} /\ call' = [call EXCEPT ![x] = new]
  BY DEF Reply
<1>3. CASE call[x] # None /\ call[x].msg = m
  <2>1. call[x] \in CallRecord
    BY <1>1, <1>3 DEF NetOK
  <2>2. new = [call[x] EXCEPT !.answer = answer]
    BY <1>3
  <2>3. /\ new \in CallRecord /\ new.msg = m /\ new.open = call[x].open
        /\ new.answer = answer
    BY <1>3, <2>1, <2>2 DEF CallRecord
  <2>4. new # None
    BY <2>3, RecordAssumption
  <2> HIDE DEF new
  <2> QED
    BY <1>1, <1>2, <1>3, <2>3, <2>4 DEF NetOK
<1>4. CASE ~(call[x] # None /\ call[x].msg = m)
  <2>1. new = call[x]
    BY <1>4
  <2> HIDE DEF new
  <2> QED
    BY <1>1, <1>2, <1>4, <2>1 DEF NetOK
<1> QED
  BY <1>3, <1>4

LEMMA Goes ==
  ASSUME JobOK, NEW s \in Steps, NEW pc \in Pcs, Goto(s, pc)
  PROVE  /\ JobOK' /\ job'[s].pc = pc /\ job'[s].attempt = job[s].attempt
         /\ job'[s].tries = job[s].tries
         /\ \A r \in Steps : r # s => job'[r] = job[r]
BY DEF JobOK, Goto

LEMMA Ends ==
  ASSUME JobOK, BookOK, NEW s \in Steps, NEW o \in Outcomes, Finishes(s, o)
  PROVE  /\ JobOK' /\ job'[s].pc = "done" /\ job'[s].attempt = job[s].attempt
         /\ \A r \in Steps : r # s => job'[r] = job[r]
         /\ outcome' \in [Steps -> Outcomes] /\ outcome'[s] = o
         /\ \A r \in Steps : r # s => outcome'[r] = outcome[r]
         /\ results' = IF Active THEN outcome' ELSE results
         /\ results' \in [Steps -> Outcomes]
<1>1. Goto(s, "done") /\ outcome' = [outcome EXCEPT ![s] = o]
  BY DEF Finishes
<1>2. /\ JobOK' /\ job'[s].pc = "done" /\ job'[s].attempt = job[s].attempt
      /\ \A r \in Steps : r # s => job'[r] = job[r]
  BY <1>1, Goes DEF Pcs
<1>3. /\ outcome' \in [Steps -> Outcomes] /\ outcome'[s] = o
      /\ \A r \in Steps : r # s => outcome'[r] = outcome[r]
  BY <1>1 DEF BookOK
<1> QED
  BY <1>2, <1>3 DEF Finishes, BookOK

LEMMA Records ==
  ASSUME JobOK, BookOK, NEW s \in Steps
  PROVE  Id(s) \in Actions /\ Recorded(s) \subseteq Actions /\ Id(s) \in Recorded(s)
BY DEF JobOK, BookOK, Id, Recorded, Actions

LEMMA NodeRecordsOf ==
  ASSUME GateTypeOK, NEW n \in Nodes
  PROVE  Shown(n) \in Authority /\ Shown(n).boot = boot[n] /\ Shown(n).epoch = epoch[n]
         /\ (admission[n] = "OPEN") \in BOOLEAN /\ Shown(n) # None
BY RecordAssumption DEF GateTypeOK, Shown, Authority

-------------------------------------------------------------------------------
(* Type correctness.                                                       *)

\* A job's step leaves the rest of the types; these are about what it writes.
JobTypes == BookOK' /\ JobOK' /\ NetOK' /\ FaultOK'

LEMMA JobStepTypes ==
  ASSUME TypeOK, NEW s \in Steps, JobStep(s)
  PROVE  JobTypes
<1> DEFINE n == NodeOf[s]
<1>1. /\ GateTypeOK /\ TaskOK /\ CancelOK /\ BookOK /\ JobOK /\ NetOK /\ FaultOK
      /\ n \in Nodes /\ s \in Steps \cup Nodes
  BY TypeParts, Homes
<1> USE DEF JobTypes
<1>2. ASSUME NEW o \in Outcomes, StepEnds(s, o) PROVE BookOK' /\ JobOK'
  BY <1>1, <1>2, Ends DEF StepEnds, BookOK
<1>3. ASSUME NEW pc \in Pcs, Goto(s, pc), UNCHANGED book PROVE BookOK' /\ JobOK'
  BY <1>1, <1>3, Goes DEF book, BookOK
<1>4. UNCHANGED net => NetOK'
  BY <1>1 DEF net, NetOK
<1>5. {"FAILED", "BLOCKED", "STALE", "UNKNOWN"} \subseteq Outcomes /\ Known \subseteq Outcomes
  BY DEF Outcomes, Known
<1>6. CASE StepBlocked(s)
  BY <1>1, <1>2, <1>4, <1>5, <1>6, FaultTypes DEF StepBlocked, NoFault
<1>7. CASE StepStarts(s)
  BY <1>1, <1>2, <1>3, <1>4, <1>5, <1>7, FaultTypes DEF StepStarts, NoFault, Pcs
<1>8. CASE AttemptStarts(s)
  <2>1. FaultOK'
    BY <1>1, <1>8, FaultTypes DEF AttemptStarts
  <2>2. CASE UNCHANGED net /\ \E o \in {"FAILED", "STALE", "BLOCKED"} : StepEnds(s, o)
    BY <1>2, <1>4, <1>5, <2>1, <2>2
  <2>3. CASE Send("submit", s, Id(s), n, Shown(n)) /\ Goto(s, "submit") /\ UNCHANGED book
    <3>1. NetOK'
      BY <1>1, <2>3, Sends, Records, NodeRecordsOf
    <3> QED
      BY <1>3, <2>1, <2>3, <3>1 DEF Pcs
  <2> QED
    BY <1>8, <2>2, <2>3 DEF AttemptStarts
<1>9. ASSUME SubmitKnown(s) PROVE BookOK' /\ JobOK'
  <2>1. actions' \subseteq Actions /\ UNCHANGED <<recovered, released>>
    BY <1>1, <1>9, Records DEF SubmitKnown
  <2>2. CASE Goto(s, "poll") /\ UNCHANGED <<outcome, results>>
    BY <1>1, <2>1, <2>2, Goes DEF BookOK, Pcs
  <2>3. CASE Finishes(s, "STALE")
    BY <1>1, <1>5, <2>1, <2>3, Ends DEF BookOK
  <2> QED
    BY <1>9, <2>2, <2>3 DEF SubmitKnown
<1>10. ASSUME OutcomeUnknown(s) PROVE BookOK' /\ JobOK'
  <2>1. actions' \subseteq Actions /\ UNCHANGED <<recovered, released>>
    BY <1>1, <1>10, Records DEF OutcomeUnknown
  <2>2. CASE /\ job' = [job EXCEPT ![s].pc = "fence"]
             /\ outcome' = [outcome EXCEPT ![s] = "UNKNOWN"] /\ UNCHANGED results
    <3>1. JobOK'
      BY <1>1, <2>2, Goes DEF Goto, Pcs
    <3>2. outcome' \in [Steps -> Outcomes]
      BY <1>1, <1>5, <2>2 DEF BookOK
    <3> QED
      BY <1>1, <2>1, <2>2, <3>1, <3>2 DEF BookOK
  <2>3. CASE Finishes(s, "UNKNOWN")
    BY <1>1, <1>5, <2>1, <2>3, Ends DEF BookOK
  <2> QED
    BY <1>10, <2>2, <2>3 DEF OutcomeUnknown
<1>11. CASE SubmitAnswered(s)
  <2>1. NetOK' /\ FaultOK'
    BY <1>1, <1>11, HangsUp, FaultTypes DEF SubmitAnswered, NoFault
  <2> QED
    BY <1>2, <1>5, <1>9, <1>11, <2>1 DEF SubmitAnswered
<1>12. CASE SubmitUncertain(s)
  <2>1. NetOK' /\ FaultOK'
    BY <1>1, <1>12, HangsUp, FaultTypes DEF SubmitUncertain
  <2> QED
    BY <1>9, <1>10, <1>12, <2>1 DEF SubmitUncertain
<1>13. CASE Poll(s)
  <2>1. NetOK' /\ FaultOK'
    BY <1>1, <1>4, <1>13, FaultTypes DEF Poll
  <2>2. ASSUME NEW r \in Known, AttemptEnds(s, r) PROVE BookOK' /\ JobOK'
    BY <1>2, <1>3, <1>5, <2>2 DEF AttemptEnds, Pcs
  <2> QED
    BY <1>2, <1>5, <1>10, <1>13, <2>1, <2>2 DEF Poll
<1>14. ASSUME NEW pc \in Pcs, NEW att \in Attempts,
              job' = [job EXCEPT ![s].pc = pc, ![s].attempt = att]
       PROVE  JobOK'
  BY <1>1, <1>14 DEF JobOK
<1>15. CASE Recover(s)
  <2>1. NetOK' /\ FaultOK'
    BY <1>1, <1>4, <1>15, FaultTypes DEF Recover, NoFault
  <2>2. CASE /\ recovered' = TRUE
             /\ job' = [job EXCEPT ![s].pc = "context", ![s].attempt = "observe"]
             /\ UNCHANGED <<outcome, results, actions, released>>
    BY <1>1, <1>14, <2>1, <2>2 DEF BookOK, Pcs, Attempts
  <2> QED
    BY <1>2, <1>5, <1>15, <2>1, <2>2 DEF Recover
<1>16. CASE Again(s)
  <2>1. NetOK' /\ FaultOK'
    BY <1>1, <1>4, <1>16, FaultTypes DEF Again, NoFault
  <2>2. CASE job' = [job EXCEPT ![s].pc = "context", ![s].attempt = "retry"] /\ UNCHANGED book
    BY <1>1, <1>14, <2>1, <2>2 DEF BookOK, Pcs, Attempts, book
  <2> QED
    BY <1>2, <1>5, <1>16, <2>1, <2>2 DEF Again
<1>17. ASSUME JobFenceEnds(s), released' \in [Nodes -> Nat \cup {None}] PROVE BookOK' /\ JobOK'
  BY <1>1, <1>17, Goes DEF JobFenceEnds, BookOK, Pcs
<1>18. CASE JobFences(s)
  <2>1. FaultOK'
    BY <1>1, <1>18, FaultTypes DEF JobFences
  <2>2. CASE JobFenceEnds(s) /\ UNCHANGED <<released, net>>
    BY <1>1, <1>4, <1>17, <2>1, <2>2 DEF BookOK
  <2>3. CASE /\ TriesLeft(job[s].tries) /\ Send("hold", s, None, n, Shown(n))
             /\ job' = [job EXCEPT ![s].pc = "hold", ![s].tries = @ + 1]
             /\ UNCHANGED book
    <3>1. NetOK'
      BY <1>1, <2>3, Sends, NodeRecordsOf
    <3>2. JobOK'
      BY <1>1, <2>3, BoundAssumption DEF JobOK, TriesLeft, Pcs
    <3> QED
      BY <1>1, <2>1, <2>3, <3>1, <3>2 DEF BookOK, book
  <2> QED
    BY <1>18, <2>2, <2>3 DEF JobFences
<1>19. CASE JobFenced(s)
  <2>1. NetOK' /\ FaultOK'
    BY <1>1, <1>19, HangsUp, FaultTypes DEF JobFenced
  <2>2. ASSUME Answered(s, {"accepted", "unknown"})
        PROVE  Released(call[s]) \in [Nodes -> Nat \cup {None}]
    <3>1. call[s] \in CallRecord
      BY <1>1, <2>2 DEF Answered, NetOK
    <3> QED
      BY <1>1, <3>1 DEF Released, CallRecord, Message, BookOK
  <2>3. CASE Goto(s, "fence") /\ UNCHANGED book
    BY <1>3, <2>1, <2>3 DEF Pcs
  <2>4. CASE JobFenceEnds(s) /\ UNCHANGED released
    BY <1>1, <1>17, <2>1, <2>4 DEF BookOK
  <2>5. CASE Answered(s, {"accepted", "unknown"}) /\ JobFenceEnds(s) /\ released' = Released(call[s])
    BY <1>17, <2>1, <2>2, <2>5
  <2> QED
    BY <1>19, <2>3, <2>4, <2>5 DEF JobFenced
<1> QED
  BY <1>6, <1>7, <1>8, <1>11, <1>12, <1>13, <1>15, <1>16, <1>18, <1>19 DEF JobStep

-------------------------------------------------------------------------------
(* What a step does to the calls that are under way.                       *)

\* What it means that the call m is answered.
Meaning(m, answer) ==
  LET n == m.node IN
  /\ m.kind = "submit" /\ answer = "refused" => UNCHANGED nodes
  /\ m.kind = "hold" /\ answer \in {"accepted", "unknown"} =>
       /\ SameAuthority(n, m.boot, m.epoch)
       /\ boot'[n] = boot[n] /\ epoch'[n] = epoch[n] + 1
       /\ admission[n] = "OPEN" /\ authority[n] = Shown(n) => closedBy'[n] = "task"

Heard(x) ==
  /\ call[x] # None /\ call'[x] # None
  /\ call[x].msg \in wire \ wire' /\ call[x].msg.from = x
  /\ call'[x].msg = call[x].msg /\ call'[x].open = call[x].open
  /\ Meaning(call[x].msg, call'[x].answer)

\* The nodes and their other clients move: calls are lost or answered, and that is all
\* the task hears.
EnvMoves ==
  /\ UNCHANGED <<agent, job>>
  /\ NodeMoves /\ NetOK' /\ FaultOK'
  /\ wire' \subseteq wire
  /\ \A x \in Steps \cup Nodes : call'[x] = call[x] \/ Heard(x)

Answers == {"accepted", "unknown", "refused"}

LEMMA AnswersAreHeard ==
  ASSUME NetOK, NEW m \in wire, NEW answer \in Answers, Reply(m, answer), Meaning(m, answer)
  PROVE  /\ NetOK' /\ wire' \subseteq wire
         /\ \A x \in Steps \cup Nodes : call'[x] = call[x] \/ Heard(x)
<1>1. /\ NetOK' /\ wire' = wire \ {m}
      /\ \A x \in Steps \cup Nodes :
           \/ call'[x] = call[x]
           \/ /\ x = m.from /\ call[x] # None /\ call[x].msg = m /\ call'[x] # None
              /\ call'[x].msg = m /\ call'[x].open = call[x].open
              /\ call'[x].answer = answer
  BY Replies DEF Answers
<1> QED
  BY <1>1 DEF Heard

LEMMA DeliverMoves ==
  ASSUME NetOK, GateTypeOK, ClosedByOK, FaultOK, NEW m \in wire, Deliver(m)
  PROVE  /\ UNCHANGED <<agent, job>> /\ NetOK' /\ FaultOK'
         /\ wire' \subseteq wire
         /\ \A x \in Steps \cup Nodes : call'[x] = call[x] \/ Heard(x)
<1>1. UNCHANGED <<agent, job, faults>>
  BY DEF Deliver, DeliverSubmit, DeliverHold, DeliverAllow
<1>2. \E answer \in Answers : Reply(m, answer) /\ Meaning(m, answer)
  <2>1. CASE DeliverSubmit(m)
    BY <2>1 DEF DeliverSubmit, Answers, Meaning
  <2>2. CASE DeliverAllow(m)
    BY <2>2 DEF DeliverAllow, Answers, Meaning
  <2>3. CASE DeliverHold(m)
    <3> DEFINE n == m.node
               answer == IF active[n] = None /\ admission[n] = "UNKNOWN" THEN "unknown"
                         ELSE "accepted"
    <3>1. CASE ~SameAuthority(n, m.boot, m.epoch) /\ Reply(m, "refused")
      BY <2>3, <3>1 DEF DeliverHold, Answers, Meaning
    <3>2. CASE /\ SameAuthority(n, m.boot, m.epoch) /\ Fenced(n) /\ Reply(m, answer)
               /\ closedBy' = IF admission[n] # "OPEN" THEN closedBy
                              ELSE [closedBy EXCEPT ![n] =
                                      IF authority[n] = Shown(n) THEN "task" ELSE "other"]
      <4>1. n \in Nodes
        BY DEF NetOK, Message
      <4>2. boot'[n] = boot[n] /\ epoch'[n] = epoch[n] + 1
        BY <3>2, <4>1 DEF Fenced, GateTypeOK
      <4>3. m.kind = "hold"
        BY <2>3 DEF DeliverHold
      <4>4. Reply(m, answer) /\ answer \in Answers
        BY <3>2 DEF Answers
      <4> HIDE DEF answer
      <4>5. admission[n] = "OPEN" /\ authority[n] = Shown(n) => closedBy'[n] = "task"
        BY <3>2, <4>1 DEF ClosedByOK
      <4> QED
        BY <3>2, <4>2, <4>3, <4>4, <4>5 DEF Meaning
    <3> QED
      BY <2>3, <3>1, <3>2 DEF DeliverHold
  <2> QED
    BY <2>1, <2>2, <2>3 DEF Deliver
<1> QED
  BY <1>1, <1>2, AnswersAreHeard, FaultTypes DEF NoFault

EnvStep ==
  \/ \E m \in wire : Deliver(m)
  \/ \E n \in Nodes : NodeRuns(n)
  \/ NodeFault
  \/ OtherClient

LEMMA EnvStepMoves ==
  ASSUME TypeOK, Owners, Submissions, EnvStep
  PROVE  EnvMoves
<1>1. NetOK /\ GateTypeOK /\ ClosedByOK /\ FaultOK
  BY TypeParts
<1>2. NodeMoves
  BY EveryStepMoves DEF EnvStep, Next
<1>3. CASE \E m \in wire : Deliver(m)
  BY <1>1, <1>2, <1>3, DeliverMoves DEF EnvMoves
<1>4. CASE ~ \E m \in wire : Deliver(m)
  <2>1. UNCHANGED <<agent, job, net>> /\ FaultOK'
    BY <1>1, <1>4, FaultTypes DEF EnvStep, NodeRuns, NodeFault, OtherClient, NoFault
  <2> QED
    BY <1>1, <1>2, <2>1 DEF EnvMoves, net, NetOK
<1> QED
  BY <1>3, <1>4

-------------------------------------------------------------------------------
(* Type correctness, the rest.                                             *)

LEMMA AgentLeavesNodes ==
  ASSUME ExecuteStep \/ Cancel \/ FinishStep \/ (\E s \in Steps : JobStep(s))
           \/ (\E n \in Nodes : CancelStep(n))
  PROVE  UNCHANGED env
<1>1. ExecuteStep \/ Cancel \/ FinishStep => UNCHANGED env
  BY DEF ExecuteStep, Capture, PreflightEnds, ExecuteEnds, Cancel, FinishStep, AllFenced,
         StatusesRead, CancelEnds, CancelFails
<1>2. (\E s \in Steps : JobStep(s)) => UNCHANGED env
  BY DEF JobStep, StepBlocked, StepStarts, AttemptStarts, SubmitAnswered, SubmitUncertain,
         Poll, Recover, Again, JobFences, JobFenced
<1>3. (\E n \in Nodes : CancelStep(n)) => UNCHANGED env
  BY DEF CancelStep, CancelFences, CancelFenced, NodeStopped, Release, ReleaseAnswered
<1> QED
  BY <1>1, <1>2, <1>3

LEMMA ExecuteTypes ==
  ASSUME TypeOK, ExecuteStep
  PROVE  TaskOK' /\ CancelOK' /\ BookOK' /\ JobOK' /\ NetOK' /\ FaultOK'
<1>1. /\ GateTypeOK /\ TaskOK /\ CancelOK /\ BookOK /\ JobOK /\ NetOK /\ FaultOK
  BY TypeParts
<1>2. UNCHANGED <<cancelling, book, job, net, faults>>
  BY DEF ExecuteStep, Capture, PreflightEnds, ExecuteEnds
<1>3. CancelOK' /\ BookOK' /\ JobOK' /\ NetOK' /\ FaultOK'
  BY <1>1, <1>2 DEF CancelOK, SideOK, BookOK, JobOK, NetOK, FaultOK, cancelling, book, net
<1>4. ASSUME NEW n \in Nodes, Capture(n) PROVE TaskOK'
  BY <1>1, <1>4, NodeRecordsOf DEF Capture, TaskOK
<1>5. CASE PreflightEnds
  <2>1. /\ UNCHANGED <<plan, authority>> /\ executing' = "done"
        /\ state' = state \/ state' = "FAILED"
    BY <1>5 DEF PreflightEnds
  <2> QED
    BY <1>1, <1>3, <2>1 DEF TaskOK, Settled
<1>6. CASE ExecuteEnds
  <2>1. Verdict \in {"UNKNOWN"} \cup Settled
    BY DEF Verdict, Settled
  <2>2. /\ UNCHANGED <<plan, authority>> /\ executing' = "done"
        /\ state' = state \/ state' = Verdict
    BY <1>6 DEF ExecuteEnds
  <2> QED
    BY <1>1, <1>3, <2>1, <2>2 DEF TaskOK, Settled
<1> QED
  BY <1>3, <1>4, <1>5, <1>6 DEF ExecuteStep

LEMMA NewSideTypes == NewSide \in [pc : SidePcs, tries : 0 .. MaxTries, receipt : Nat,
                                   world : Nat, held : BOOLEAN]
BY BoundAssumption DEF NewSide, SidePcs

LEMMA Paces ==
  ASSUME SideOK, NEW n \in Nodes, NEW pc \in SidePcs, Step(n, pc)
  PROVE  /\ SideOK' /\ side'[n] = [side[n] EXCEPT !.pc = pc] /\ side'[n].pc = pc
         /\ \A k \in Nodes : k # n => side'[k] = side[k]
BY DEF SideOK, Step

LEMMA CancelStepTypes ==
  ASSUME TypeOK, Cancelled, NEW n \in Nodes, CancelStep(n)
  PROVE  TaskOK' /\ CancelOK' /\ BookOK' /\ JobOK' /\ NetOK' /\ FaultOK'
<1>1. /\ GateTypeOK /\ TaskOK /\ CancelOK /\ BookOK /\ JobOK /\ NetOK /\ FaultOK
      /\ SideOK /\ n \in Steps \cup Nodes
  BY TypeParts DEF CancelOK
<1>2. UNCHANGED <<state, plan, executing, finish, tally, cancels, outcome, results, actions,
                  recovered, job>>
  BY DEF CancelStep, CancelFences, CancelFenced, NodeStopped, Release, ReleaseAnswered, book, task
<1>3. JobOK' /\ FaultOK'
  <2>1. FaultOK'
    BY <1>1, FaultTypes DEF CancelStep, CancelFences, CancelFenced, NodeStopped, Release,
       ReleaseAnswered, NoFault
  <2> QED
    BY <1>1, <1>2, <2>1 DEF JobOK
<1>4. SideOK' => CancelOK'
  BY <1>1, <1>2 DEF CancelOK
<1>5. authority' \in [Nodes -> Authority \cup {None}] => TaskOK'
  BY <1>1, <1>2 DEF TaskOK
<1>6. released' \in [Nodes -> Nat \cup {None}] => BookOK'
  BY <1>1, <1>2 DEF BookOK
<1>7. UNCHANGED task => TaskOK'
  BY <1>1, <1>5 DEF task, TaskOK
<1>8. UNCHANGED released => BookOK'
  BY <1>1, <1>6 DEF BookOK
<1>9. UNCHANGED book => BookOK'
  BY <1>8 DEF book
<1>10. UNCHANGED net => NetOK'
  BY <1>1 DEF net, NetOK
<1>11. {"failed", "fence", "fenced", "allow", "done", "hold", "stopped"} \subseteq SidePcs
  BY DEF SidePcs
<1>12. CASE CancelFences(n)
  <2>1. BookOK'
    BY <1>9, <1>12 DEF CancelFences
  <2>2. CASE Step(n, "failed") /\ UNCHANGED <<authority, net>>
    BY <1>1, <1>3, <1>4, <1>5, <1>10, <1>11, <2>1, <2>2, Paces DEF TaskOK
  <2>3. CASE /\ TriesLeft(side[n].tries)
             /\ authority' = [authority EXCEPT ![n] = IF @ = None THEN Shown(n) ELSE @]
             /\ Send("hold", n, None, n, Shown(n))
             /\ side' = [side EXCEPT ![n].pc = "hold", ![n].tries = @ + 1]
    <3>1. authority' \in [Nodes -> Authority \cup {None}]
      BY <1>1, <2>3, NodeRecordsOf DEF TaskOK
    <3>2. SideOK'
      BY <1>1, <1>11, <2>3, BoundAssumption DEF SideOK, TriesLeft
    <3>3. NetOK'
      BY <1>1, <2>3, Sends, NodeRecordsOf
    <3> QED
      BY <1>3, <1>4, <1>5, <2>1, <3>1, <3>2, <3>3
  <2> QED
    BY <1>12, <2>2, <2>3 DEF CancelFences
<1>13. CASE CancelFenced(n)
  <2>1. NetOK' /\ TaskOK'
    BY <1>1, <1>7, <1>13, HangsUp DEF CancelFenced
  <2>2. ASSUME Answered(n, {"accepted", "unknown"})
        PROVE  call[n].msg.epoch \in Nat /\ Released(call[n]) \in [Nodes -> Nat \cup {None}]
    <3>1. call[n] \in CallRecord
      BY <1>1, <2>2 DEF Answered, NetOK
    <3> QED
      BY <1>1, <3>1 DEF Released, CallRecord, Message, BookOK
  <2>3. CASE /\ Answered(n, {"accepted"})
             /\ side' = [side EXCEPT ![n].pc = "fenced", ![n].receipt = call[n].msg.epoch + 1]
             /\ released' = Released(call[n])
    <3>1. call[n].msg.epoch \in Nat /\ released' \in [Nodes -> Nat \cup {None}]
      BY <2>2, <2>3 DEF Answered
    <3>2. call[n].msg.epoch + 1 \in Nat
      BY <3>1
    <3> DEFINE new == [[side[n] EXCEPT !.pc = "fenced"] EXCEPT !.receipt = call[n].msg.epoch + 1]
    <3>3. new \in [pc : SidePcs, tries : 0 .. MaxTries, receipt : Nat, world : Nat,
                   held : BOOLEAN]
      BY <1>1, <1>11, <3>2 DEF SideOK
    <3>4. side' = [side EXCEPT ![n] = new]
      BY <1>1, <2>3 DEF SideOK
    <3> HIDE DEF new
    <3>5. SideOK'
      BY <1>1, <3>3, <3>4 DEF SideOK
    <3> QED
      BY <1>3, <1>4, <1>6, <2>1, <3>1, <3>5
  <2>4. CASE Answered(n, {"unknown"}) /\ Step(n, "failed") /\ released' = Released(call[n])
    <3>1. released' \in [Nodes -> Nat \cup {None}]
      BY <2>2, <2>4 DEF Answered
    <3> QED
      BY <1>1, <1>3, <1>4, <1>6, <1>11, <2>1, <2>4, <3>1, Paces
  <2>5. CASE (Step(n, "fence") \/ Step(n, "failed")) /\ UNCHANGED released
    BY <1>1, <1>3, <1>4, <1>8, <1>11, <2>1, <2>5, Paces
  <2> QED
    BY <1>13, <2>3, <2>4, <2>5 DEF CancelFenced
<1>14. CASE NodeStopped(n)
  <2>1. SideOK'
    <3>1. /\ epoch[n] \in Nat /\ (admission[n] = "HELD") \in BOOLEAN
          /\ side' = [side EXCEPT ![n].pc = "stopped", ![n].world = epoch[n],
                                  ![n].held = admission[n] = "HELD"]
      BY <1>1, <1>14 DEF NodeStopped, GateTypeOK
    <3> QED
      BY <1>1, <1>11, <3>1 DEF SideOK
  <2> QED
    BY <1>3, <1>4, <1>7, <1>9, <1>10, <1>14, <2>1 DEF NodeStopped
<1>15. CASE Release(n)
  <2>1. TaskOK' /\ BookOK'
    BY <1>7, <1>9, <1>15 DEF Release
  <2>2. CASE Step(n, "done") /\ UNCHANGED net
    BY <1>1, <1>3, <1>4, <1>10, <1>11, <2>1, <2>2, Paces
  <2>3. CASE /\ Reopens(n) /\ Step(n, "allow")
             /\ Send("allow", n, None, n, [boot |-> authority[n].boot, epoch |-> side[n].world])
    <3>1. SideOK'
      BY <1>1, <1>11, <2>3, Paces
    <3>2. authority[n] # None
      BY <1>15 DEF Release, Cancelled
    <3>3. [boot |-> authority[n].boot, epoch |-> side[n].world] \in Authority
      BY <1>1, <3>2 DEF Authority, SideOK, TaskOK
    <3>4. NetOK'
      BY <1>1, <2>3, <3>3, NodeRecordsOf, Sends
    <3> QED
      BY <1>3, <1>4, <2>1, <3>1, <3>4
  <2> QED
    BY <1>15, <2>2, <2>3 DEF Release
<1>16. CASE ReleaseAnswered(n)
  BY <1>1, <1>3, <1>4, <1>7, <1>9, <1>11, <1>16, Paces, HangsUp DEF ReleaseAnswered
<1> QED
  BY <1>12, <1>13, <1>14, <1>15, <1>16 DEF CancelStep

LEMMA FinishTypes ==
  ASSUME TypeOK, Cancel \/ FinishStep
  PROVE  TaskOK' /\ CancelOK' /\ BookOK' /\ JobOK' /\ NetOK' /\ FaultOK'
<1>1. /\ GateTypeOK /\ TaskOK /\ CancelOK /\ BookOK /\ JobOK /\ NetOK /\ FaultOK
  BY TypeParts
<1>2. UNCHANGED <<plan, authority, outcome, actions, recovered, released, job, faults, wire>>
  BY DEF Cancel, FinishStep, AllFenced, StatusesRead, CancelEnds, CancelFails, task, book, net
<1>3. JobOK' /\ FaultOK'
  BY <1>1, <1>2 DEF JobOK, FaultOK
<1>4. CASE Cancel
  <2>1. /\ state' = "CANCELLING" /\ finish' = "fence" /\ side' = [n \in Nodes |-> NewSide]
        /\ cancels < MaxCancels /\ cancels' = cancels + 1
        /\ UNCHANGED <<executing, tally, results, call>>
    BY <1>4 DEF Cancel, book, net
  <2>2. SideOK' /\ cancels' \in 0 .. MaxCancels
    BY <1>1, <2>1, NewSideTypes, BoundAssumption DEF SideOK, CancelOK
  <2>3. TaskOK' /\ CancelOK'
    BY <1>1, <1>2, <2>1, <2>2 DEF TaskOK, CancelOK
  <2>4. BookOK' /\ NetOK'
    BY <1>1, <1>2, <2>1 DEF BookOK, NetOK
  <2> QED
    BY <1>3, <2>3, <2>4
<1>5. CASE AllFenced
  BY <1>1, <1>3, <1>5 DEF AllFenced, TaskOK, CancelOK, SideOK, BookOK, NetOK, task, book, net
<1>6. CASE StatusesRead
  <2>1. tally' \in [Steps -> Outcomes]
    <3>1. \A a \in actions : status[a] \in Outcomes
      BY <1>6 DEF StatusesRead, Outcomes
    <3>2. \A s \in Steps : results[s] \in Outcomes /\ "CANCELLED" \in Outcomes
      BY <1>1 DEF BookOK, Outcomes, Known
    <3> QED
      BY <1>6, <3>1, <3>2 DEF StatusesRead, Tally
  <2> QED
    BY <1>1, <1>3, <1>6, <2>1
    DEF StatusesRead, TaskOK, CancelOK, SideOK, BookOK, NetOK, task, book, net
<1>7. CASE CancelEnds
  <2>1. /\ state' = "CANCELLED" /\ results' = tally /\ finish' = "none"
        /\ UNCHANGED <<executing, side, tally, cancels, call>>
    BY <1>7 DEF CancelEnds, net
  <2>2. TaskOK' /\ CancelOK'
    BY <1>1, <1>2, <2>1 DEF TaskOK, CancelOK, SideOK, Settled
  <2>3. BookOK' /\ NetOK'
    BY <1>1, <1>2, <2>1 DEF BookOK, NetOK, CancelOK
  <2> QED
    BY <1>3, <2>2, <2>3
<1>8. CASE CancelFails
  <2>1. /\ state' = "UNKNOWN" /\ finish' = "none" /\ side' = [n \in Nodes |-> NewSide]
        /\ call' = [x \in Steps \cup Nodes |-> IF x \in Nodes THEN None ELSE call[x]]
        /\ UNCHANGED <<executing, tally, cancels, results>>
    BY <1>8 DEF CancelFails, book
  <2>2. SideOK'
    BY <2>1, NewSideTypes DEF SideOK
  <2>3. TaskOK' /\ CancelOK'
    BY <1>1, <1>2, <2>1, <2>2 DEF TaskOK, CancelOK
  <2>4. BookOK' /\ NetOK'
    BY <1>1, <1>2, <2>1 DEF BookOK, NetOK
  <2> QED
    BY <1>3, <2>3, <2>4
<1> QED
  BY <1>4, <1>5, <1>6, <1>7, <1>8 DEF FinishStep

LEMMA TypesStay ==
  ASSUME TypeOK, Owners, Submissions, Cancelled, [Next]_vars
  PROVE  TypeOK'
<1>1. /\ GateTypeOK /\ ClosedByOK
      /\ TaskOK /\ CancelOK /\ BookOK /\ JobOK /\ NetOK /\ FaultOK
  BY TypeParts
<1>2. GateTypeOK' /\ ClosedByOK'
  BY EveryStepMoves DEF NodeMoves
<1> DEFINE Rest == TaskOK /\ CancelOK /\ BookOK /\ JobOK /\ NetOK /\ FaultOK
<1>3. ASSUME EnvStep PROVE Rest'
  <2>1. NetOK' /\ FaultOK' /\ UNCHANGED <<agent, job>>
    BY <1>3, EnvStepMoves DEF EnvMoves
  <2> QED
    BY <1>1, <2>1 DEF TaskOK, CancelOK, SideOK, BookOK, JobOK, agent, task, cancelling, book
<1>4. ASSUME NEW s \in Steps, JobStep(s) PROVE Rest'
  <2>1. UNCHANGED <<task, cancelling>>
    BY <1>4 DEF JobStep, StepBlocked, StepStarts, AttemptStarts, SubmitAnswered,
       SubmitUncertain, Poll, Recover, Again, JobFences, JobFenced
  <2>2. TaskOK' /\ CancelOK'
    BY <1>1, <2>1 DEF TaskOK, CancelOK, SideOK, task, cancelling
  <2> QED
    BY <1>4, <2>2, JobStepTypes DEF JobTypes
<1>5. ASSUME UNCHANGED vars PROVE Rest'
  BY <1>1, <1>5 DEF vars, agent, net, TaskOK, CancelOK, SideOK, BookOK, JobOK, NetOK, FaultOK,
     task, cancelling, book
<1>6. Rest'
  BY <1>3, <1>4, <1>5, ExecuteTypes, CancelStepTypes, FinishTypes DEF Next, EnvStep
<1>7. (GateTypeOK /\ ClosedByOK /\ Rest)' => TypeOK'
  BY TypeParts, PTL
<1> QED
  BY <1>2, <1>6, <1>7

-------------------------------------------------------------------------------
(* What the step of a job does, point by point.                            *)

JobFrame(s) ==
  /\ UNCHANGED <<env, task, cancelling>>
  /\ \A r \in Steps : r # s => job'[r] = job[r] /\ outcome'[r] = outcome[r]
  /\ \A x \in Steps \cup Nodes : x # s => call'[x] = call[x]
  /\ \A r \in Steps, att \in Attempts :
       r # s => (<<r, att>> \in actions' <=> <<r, att>> \in actions)

\* Nothing is under way to a node.
Quiet(s) == wire' = wire /\ call'[s] = None

\* The attempt of s is in task.actions.
Noted(s) ==
  /\ Id(s) \in actions'
  /\ \A att \in Attempts :
       <<s, att>> \in actions' => <<s, att>> \in actions \/ att = job[s].attempt
  /\ \A att \in Attempts :
       <<s, att>> \in actions =>
         <<s, att>> \in actions' \/ (att = "first" /\ <<s, "retry">> \in actions')
  /\ UNCHANGED <<recovered, released>>

\* The job of s goes on, or ends.
Becomes(s, pc, o) ==
  job'[s].pc = pc /\ job'[s].attempt = job[s].attempt /\ outcome'[s] = o
Over(s, o) == Becomes(s, "done", o) /\ results' = IF Active THEN outcome' ELSE results

\* A step ends without another action.
EndsEarly(s) ==
  /\ job[s].pc \in {"waiting", "context", "recover", "again"}
  /\ job[s].pc = "waiting" => executing = "steps"
  /\ \E o \in {"FAILED", "BLOCKED", "STALE"} : Over(s, o)
  /\ Quiet(s) /\ UNCHANGED <<actions, recovered, released>>

Refused(s) ==
  /\ job[s].pc = "submit" /\ call[s].answer = "refused"
  /\ Over(s, "FAILED")
  /\ Quiet(s) /\ UNCHANGED <<actions, recovered, released>>

Ended(s) ==
  /\ job[s].pc = "poll"
  /\ \/ Over(s, "STALE") /\ ~Active
     \/ /\ status[Id(s)] \in Known /\ Over(s, status[Id(s)])
        /\ ~(job[s].attempt = "observe" /\ status[Id(s)] = "SUCCEEDED")
  /\ Quiet(s) /\ UNCHANGED <<actions, recovered, released>>

Started(s) ==
  /\ job[s].pc = "waiting" /\ executing = "steps" /\ Ready(s) /\ LockFree(s)
  /\ Becomes(s, "context", outcome[s])
  /\ Quiet(s) /\ UNCHANGED book

Submission(s) ==
  [kind |-> "submit", from |-> s, action |-> Id(s), node |-> NodeOf[s],
   boot |-> boot[NodeOf[s]], epoch |-> epoch[NodeOf[s]], no |-> cancels]

Submitted(s) ==
  /\ job[s].pc = "context" /\ Active /\ Bound(NodeOf[s])
  /\ Becomes(s, "submit", outcome[s])
  /\ wire' = wire \cup {Submission(s)}
  /\ call'[s] # None /\ call'[s].msg = Submission(s) /\ call'[s].answer = "none"
  /\ UNCHANGED book

\* The action of s is there.
Accepted(s) ==
  /\ job[s].pc = "submit"
  /\ status[Id(s)] # "absent" \/ call[s].answer = "accepted"
  /\ \/ Active /\ Becomes(s, "poll", outcome[s]) /\ UNCHANGED results
     \/ ~Active /\ Over(s, "STALE")
  /\ Quiet(s) /\ Noted(s)

Lost(s) ==
  /\ job[s].pc \in {"submit", "poll"}
  /\ \/ Active /\ Becomes(s, "fence", "UNKNOWN") /\ UNCHANGED results
     \/ ~Active /\ Over(s, "UNKNOWN")
  /\ Quiet(s) /\ Noted(s)

\* The recovery of s: its first action has failed, the arm observes, it may repeat.
Fails(s) ==
  /\ job[s].pc = "poll" /\ status[Id(s)] = "FAILED" /\ RecoveryLeft(s)
  /\ Becomes(s, "recover", outcome[s])
  /\ Quiet(s) /\ UNCHANGED book
Observed(s) ==
  /\ job[s].pc = "poll" /\ status[Id(s)] = "SUCCEEDED" /\ job[s].attempt = "observe"
  /\ Becomes(s, "again", outcome[s])
  /\ Quiet(s) /\ UNCHANGED book
TriesAgain(s) ==
  /\ \/ job[s].pc = "recover" /\ job'[s].attempt = "observe" /\ recovered' = TRUE
     \/ job[s].pc = "again" /\ job'[s].attempt = "retry" /\ UNCHANGED recovered
  /\ job'[s].pc = "context"
  /\ Quiet(s) /\ UNCHANGED <<outcome, results, actions, released>>

\* The fence of s.
AsksHold(s) ==
  /\ job[s].pc = "fence" /\ boot[NodeOf[s]] = authority[NodeOf[s]].boot
  /\ Becomes(s, "hold", outcome[s])
  /\ \E m \in Message :
       /\ m.kind = "hold" /\ m.from = s /\ m.node = NodeOf[s]
       /\ m.boot = boot[m.node] /\ m.epoch = epoch[m.node]
       /\ wire' = wire \cup {m}
       /\ call'[s] # None /\ call'[s].msg = m /\ call'[s].answer = "none"
       /\ call'[s].open = (admission[m.node] = "OPEN")
  /\ UNCHANGED book
Fencing(s) ==
  /\ job[s].pc \in {"fence", "hold"}
  /\ \/ Becomes(s, "done", outcome[s]) /\ results' = (IF Active THEN outcome ELSE results)
     \/ Becomes(s, "fence", outcome[s]) /\ UNCHANGED results
  /\ \/ UNCHANGED released
     \/ /\ job[s].pc = "hold" /\ call[s] # None /\ call[s].answer \in {"accepted", "unknown"}
        /\ released' = Released(call[s])
  /\ Quiet(s) /\ UNCHANGED <<outcome, actions, recovered>>

JobMove(s) ==
  \/ EndsEarly(s) \/ Refused(s) \/ Ended(s) \/ Started(s) \/ Submitted(s) \/ Accepted(s)
  \/ Lost(s) \/ Fails(s) \/ Observed(s) \/ TriesAgain(s) \/ AsksHold(s) \/ Fencing(s)

LEMMA JobStepMoves ==
  ASSUME TypeOK, Calls, NEW s \in Steps, JobStep(s)
  PROVE  JobFrame(s) /\ JobMove(s)
<1> DEFINE n == NodeOf[s]
<1>1. /\ GateTypeOK /\ TaskOK /\ CancelOK /\ BookOK /\ JobOK /\ NetOK /\ FaultOK
      /\ n \in Nodes /\ s \in Steps \cup Nodes
  BY TypeParts, Homes
<1>2. UNCHANGED <<env, task, cancelling>>
  BY DEF JobStep, StepBlocked, StepStarts, AttemptStarts, SubmitAnswered, SubmitUncertain,
     Poll, Recover, Again, JobFences, JobFenced
<1>3. job[s].pc \notin {"submit", "hold"} => call[s] = None
  BY DEF Calls
<1>4. ASSUME UNCHANGED net
      PROVE  wire' = wire /\ \A x \in Steps \cup Nodes : call'[x] = call[x]
  BY <1>4 DEF net
<1>5. ASSUME UNCHANGED book
      PROVE  UNCHANGED <<outcome, results, actions, recovered, released>>
  BY <1>5 DEF book
<1>6. ASSUME NEW pc \in Pcs, Goto(s, pc)
      PROVE  /\ job'[s].pc = pc /\ job'[s].attempt = job[s].attempt
             /\ \A r \in Steps : r # s => job'[r] = job[r]
  BY <1>1, <1>6, Goes
<1>7. ASSUME NEW o \in Outcomes, Finishes(s, o)
      PROVE  /\ Over(s, o)
             /\ \A r \in Steps : r # s => job'[r] = job[r] /\ outcome'[r] = outcome[r]
  BY <1>1, <1>7, Ends DEF Over, Becomes
<1>8. ASSUME actions' = Recorded(s), UNCHANGED <<recovered, released>>
      PROVE  /\ Noted(s)
             /\ \A r \in Steps, att \in Attempts :
                  r # s => (<<r, att>> \in actions' <=> <<r, att>> \in actions)
  BY <1>8 DEF Noted, Recorded, Id
<1>9. {"FAILED", "BLOCKED", "STALE", "UNKNOWN"} \subseteq Outcomes /\ Known \subseteq Outcomes
  BY DEF Outcomes, Known
<1>10. ASSUME HangUp(s)
       PROVE  Quiet(s) /\ \A x \in Steps \cup Nodes : x # s => call'[x] = call[x]
  BY <1>1, <1>10, HangsUp DEF Quiet
<1>11. ASSUME job[s].pc \in {"waiting", "context", "recover", "again"},
              job[s].pc = "waiting" => executing = "steps", UNCHANGED net,
              NEW o \in {"FAILED", "BLOCKED", "STALE"}, StepEnds(s, o)
       PROVE  JobFrame(s) /\ EndsEarly(s)
  BY <1>1, <1>2, <1>3, <1>4, <1>7, <1>9, <1>11 DEF StepEnds, EndsEarly, JobFrame, Quiet
<1>12. CASE StepBlocked(s)
  BY <1>11, <1>12 DEF StepBlocked, JobMove
<1>13. CASE StepStarts(s)
  <2>1. CASE StepEnds(s, "STALE") \/ StepEnds(s, "FAILED")
    BY <1>11, <1>13, <2>1 DEF StepStarts, JobMove
  <2>2. CASE Goto(s, "context") /\ UNCHANGED book
    <3>1. Becomes(s, "context", outcome[s]) /\ \A r \in Steps : r # s => job'[r] = job[r]
      BY <1>5, <1>6, <2>2 DEF Pcs, Becomes
    <3>2. Quiet(s) /\ \A x \in Steps \cup Nodes : call'[x] = call[x]
      BY <1>1, <1>3, <1>4, <1>13 DEF StepStarts, Quiet
    <3> QED
      BY <1>2, <1>5, <1>13, <2>2, <3>1, <3>2 DEF StepStarts, Started, JobFrame, JobMove
  <2> QED
    BY <1>13, <2>1, <2>2 DEF StepStarts
<1>14. CASE AttemptStarts(s)
  <2>1. CASE UNCHANGED net /\ \E o \in {"FAILED", "BLOCKED", "STALE"} : StepEnds(s, o)
    BY <1>11, <1>14, <2>1 DEF AttemptStarts, JobMove
  <2>2. CASE /\ Active /\ Bound(n)
             /\ Send("submit", s, Id(s), n, Shown(n)) /\ Goto(s, "submit") /\ UNCHANGED book
    <3>1. Becomes(s, "submit", outcome[s]) /\ \A r \in Steps : r # s => job'[r] = job[r]
      BY <1>5, <1>6, <2>2 DEF Pcs, Becomes
    <3>2. /\ wire' = wire \cup {Submission(s)}
          /\ call'[s] # None /\ call'[s].msg = Submission(s) /\ call'[s].answer = "none"
          /\ \A x \in Steps \cup Nodes : x # s => call'[x] = call[x]
      <4>1. Id(s) \in Actions \cup {None} /\ Shown(n) \in Authority
            /\ (admission[n] = "OPEN") \in BOOLEAN
        BY <1>1, Records, NodeRecordsOf
      <4> DEFINE m == [kind |-> "submit", from |-> s, action |-> Id(s), node |-> n,
                       boot |-> Shown(n).boot, epoch |-> Shown(n).epoch, no |-> cancels]
      <4>2. /\ m \in Message /\ wire' = wire \cup {m}
            /\ call'[s] = [msg |-> m, open |-> admission[n] = "OPEN", answer |-> "none"]
            /\ call'[s] # None
            /\ \A x \in Steps \cup Nodes : x # s => call'[x] = call[x]
        BY <1>1, <2>2, <4>1, Sends
      <4>3. m = Submission(s)
        BY DEF Submission, Shown
      <4> HIDE DEF m
      <4> QED
        BY <4>2, <4>3
    <3> QED
      BY <1>2, <1>5, <1>14, <2>2, <3>1, <3>2 DEF AttemptStarts, Submitted, JobFrame, JobMove
  <2> QED
    BY <1>14, <2>1, <2>2 DEF AttemptStarts
<1>15. ASSUME SubmitKnown(s), HangUp(s), job[s].pc = "submit",
              status[Id(s)] # "absent" \/ call[s].answer = "accepted"
       PROVE  JobFrame(s) /\ Accepted(s)
  <2>1. /\ Noted(s)
        /\ \A r \in Steps, att \in Attempts :
             r # s => (<<r, att>> \in actions' <=> <<r, att>> \in actions)
    BY <1>8, <1>15 DEF SubmitKnown
  <2>2. CASE Active /\ Goto(s, "poll") /\ UNCHANGED <<outcome, results>>
    <3>1. Becomes(s, "poll", outcome[s]) /\ \A r \in Steps : r # s => job'[r] = job[r]
      BY <1>6, <2>2 DEF Pcs, Becomes
    <3> QED
      BY <1>2, <1>10, <1>15, <2>1, <2>2, <3>1 DEF Accepted, JobFrame
  <2>3. CASE ~Active /\ Finishes(s, "STALE")
    BY <1>2, <1>7, <1>9, <1>10, <1>15, <2>1, <2>3 DEF Accepted, JobFrame
  <2> QED
    BY <1>15, <2>2, <2>3 DEF SubmitKnown
<1>16. ASSUME OutcomeUnknown(s), Quiet(s), job[s].pc \in {"submit", "poll"},
              \A x \in Steps \cup Nodes : x # s => call'[x] = call[x]
       PROVE  JobFrame(s) /\ Lost(s)
  <2>1. /\ Noted(s)
        /\ \A r \in Steps, att \in Attempts :
             r # s => (<<r, att>> \in actions' <=> <<r, att>> \in actions)
    BY <1>8, <1>16 DEF OutcomeUnknown
  <2>2. CASE /\ Active /\ job' = [job EXCEPT ![s].pc = "fence"]
             /\ outcome' = [outcome EXCEPT ![s] = "UNKNOWN"] /\ UNCHANGED results
    <3>1. /\ job'[s].pc = "fence" /\ job'[s].attempt = job[s].attempt
          /\ \A r \in Steps : r # s => job'[r] = job[r]
      BY <1>6, <2>2 DEF Goto, Pcs
    <3>2. outcome'[s] = "UNKNOWN" /\ \A r \in Steps : r # s => outcome'[r] = outcome[r]
      BY <1>1, <2>2 DEF BookOK
    <3> QED
      BY <1>2, <1>16, <2>1, <2>2, <3>1, <3>2 DEF Lost, JobFrame, Becomes
  <2>3. CASE ~Active /\ Finishes(s, "UNKNOWN")
    BY <1>2, <1>7, <1>9, <1>16, <2>1, <2>3 DEF Lost, JobFrame
  <2> QED
    BY <1>16, <2>2, <2>3 DEF OutcomeUnknown
<1>17. CASE SubmitAnswered(s)
  <2>1. CASE Answered(s, {"accepted"}) /\ SubmitKnown(s)
    BY <1>15, <1>17, <2>1 DEF SubmitAnswered, Answered, JobMove
  <2>2. CASE Answered(s, {"refused"}) /\ StepEnds(s, "FAILED")
    BY <1>2, <1>7, <1>9, <1>10, <1>17, <2>2
    DEF SubmitAnswered, Answered, StepEnds, Refused, JobFrame, JobMove
  <2> QED
    BY <1>17, <2>1, <2>2 DEF SubmitAnswered
<1>18. CASE SubmitUncertain(s)
  BY <1>10, <1>15, <1>16, <1>18 DEF SubmitUncertain, JobMove
<1>19. CASE Poll(s)
  <2>1. Quiet(s) /\ \A x \in Steps \cup Nodes : call'[x] = call[x]
    BY <1>1, <1>3, <1>4, <1>19 DEF Poll, Quiet
  <2>2. CASE ~Active /\ StepEnds(s, "STALE")
    BY <1>2, <1>7, <1>9, <1>19, <2>1, <2>2 DEF Poll, StepEnds, Ended, JobFrame, JobMove
  <2>3. CASE status[Id(s)] \in Known /\ AttemptEnds(s, status[Id(s)])
    <3>1. CASE /\ StepEnds(s, status[Id(s)])
               /\ ~(job[s].attempt = "observe" /\ status[Id(s)] = "SUCCEEDED")
      BY <1>2, <1>7, <1>9, <1>19, <2>1, <2>3, <3>1
      DEF Poll, StepEnds, Ended, JobFrame, JobMove
    <3>2. CASE /\ Repeatable(status[Id(s)]) /\ RecoveryLeft(s)
               /\ Goto(s, "recover") /\ UNCHANGED book
      <4>1. Becomes(s, "recover", outcome[s]) /\ \A r \in Steps : r # s => job'[r] = job[r]
        BY <1>5, <1>6, <3>2 DEF Pcs, Becomes
      <4> QED
        BY <1>2, <1>5, <1>19, <2>1, <3>2, <4>1
        DEF Poll, Repeatable, Fails, JobFrame, JobMove
    <3>3. CASE /\ job[s].attempt = "observe" /\ status[Id(s)] = "SUCCEEDED"
               /\ Goto(s, "again") /\ UNCHANGED book
      <4>1. Becomes(s, "again", outcome[s]) /\ \A r \in Steps : r # s => job'[r] = job[r]
        BY <1>5, <1>6, <3>3 DEF Pcs, Becomes
      <4> QED
        BY <1>2, <1>5, <1>19, <2>1, <3>3, <4>1 DEF Poll, Observed, JobFrame, JobMove
    <3> QED
      BY <2>3, <3>1, <3>2, <3>3 DEF AttemptEnds
  <2>4. CASE OutcomeUnknown(s)
    BY <1>16, <1>19, <2>1, <2>4 DEF Poll, JobMove
  <2> QED
    BY <1>19, <2>2, <2>3, <2>4 DEF Poll
<1>20. ASSUME NEW pc \in Pcs, NEW att \in Attempts,
              job' = [job EXCEPT ![s].pc = pc, ![s].attempt = att]
       PROVE  /\ job'[s].pc = pc /\ job'[s].attempt = att
              /\ \A r \in Steps : r # s => job'[r] = job[r]
  BY <1>1, <1>20 DEF JobOK
<1>21. CASE Recover(s)
  <2>1. CASE StepEnds(s, "FAILED") \/ StepEnds(s, "STALE")
    BY <1>11, <1>21, <2>1 DEF Recover, JobMove
  <2>2. CASE /\ recovered' = TRUE
             /\ job' = [job EXCEPT ![s].pc = "context", ![s].attempt = "observe"]
             /\ UNCHANGED <<outcome, results, actions, released>>
    <3>1. Quiet(s) /\ \A x \in Steps \cup Nodes : call'[x] = call[x]
      BY <1>1, <1>3, <1>4, <1>21 DEF Recover, Quiet
    <3> QED
      BY <1>2, <1>20, <1>21, <2>2, <3>1
      DEF Recover, TriesAgain, JobFrame, JobMove, Pcs, Attempts
  <2> QED
    BY <1>21, <2>1, <2>2 DEF Recover
<1>22. CASE Again(s)
  <2>1. CASE StepEnds(s, "FAILED") \/ StepEnds(s, "BLOCKED")
    BY <1>11, <1>22, <2>1 DEF Again, JobMove
  <2>2. CASE job' = [job EXCEPT ![s].pc = "context", ![s].attempt = "retry"] /\ UNCHANGED book
    <3>1. Quiet(s) /\ \A x \in Steps \cup Nodes : call'[x] = call[x]
      BY <1>1, <1>3, <1>4, <1>22 DEF Again, Quiet
    <3> QED
      BY <1>2, <1>5, <1>20, <1>22, <2>2, <3>1
      DEF Again, TriesAgain, JobFrame, JobMove, Pcs, Attempts
  <2> QED
    BY <1>22, <2>1, <2>2 DEF Again
<1>23. ASSUME JobFenceEnds(s)
       PROVE  /\ Becomes(s, "done", outcome[s]) /\ results' = IF Active THEN outcome ELSE results
              /\ UNCHANGED <<outcome, actions, recovered>>
              /\ \A r \in Steps : r # s => job'[r] = job[r]
  BY <1>6, <1>23 DEF JobFenceEnds, Becomes, Pcs
<1>24. CASE JobFences(s)
  <2>1. CASE JobFenceEnds(s) /\ UNCHANGED <<released, net>>
    <3>1. Quiet(s) /\ \A x \in Steps \cup Nodes : call'[x] = call[x]
      BY <1>1, <1>3, <1>4, <1>24, <2>1 DEF JobFences, Quiet
    <3> QED
      BY <1>2, <1>23, <1>24, <2>1, <3>1 DEF JobFences, Fencing, JobFrame, JobMove
  <2>2. CASE /\ boot[n] = authority[n].boot
             /\ Send("hold", s, None, n, Shown(n))
             /\ job' = [job EXCEPT ![s].pc = "hold", ![s].tries = @ + 1]
             /\ UNCHANGED book
    <3>1. /\ job'[s].pc = "hold" /\ job'[s].attempt = job[s].attempt
          /\ \A r \in Steps : r # s => job'[r] = job[r]
      BY <1>1, <2>2 DEF JobOK
    <3> DEFINE m == [kind |-> "hold", from |-> s, action |-> None, node |-> n,
                     boot |-> Shown(n).boot, epoch |-> Shown(n).epoch, no |-> cancels]
    <3>2. /\ m \in Message /\ wire' = wire \cup {m}
          /\ call'[s] = [msg |-> m, open |-> admission[n] = "OPEN", answer |-> "none"]
          /\ call'[s] # None
          /\ \A x \in Steps \cup Nodes : x # s => call'[x] = call[x]
      BY <1>1, <2>2, NodeRecordsOf, Sends
    <3>3. /\ m.kind = "hold" /\ m.from = s /\ m.node = n
          /\ m.boot = boot[n] /\ m.epoch = epoch[n]
      BY DEF Shown
    <3>4. UNCHANGED <<outcome, results, actions, recovered, released>>
      BY <1>5, <2>2
    <3> HIDE DEF m
    <3>5. AsksHold(s)
      BY <1>24, <2>2, <3>1, <3>2, <3>3, <3>4 DEF JobFences, AsksHold, Becomes
    <3> QED
      BY <1>2, <3>1, <3>2, <3>4, <3>5 DEF JobFrame, JobMove
  <2> QED
    BY <1>24, <2>1, <2>2 DEF JobFences
<1>25. CASE JobFenced(s)
  <2>1. Quiet(s) /\ \A x \in Steps \cup Nodes : x # s => call'[x] = call[x]
    BY <1>10, <1>25 DEF JobFenced
  <2>2. CASE Goto(s, "fence") /\ UNCHANGED book
    <3>1. Becomes(s, "fence", outcome[s]) /\ \A r \in Steps : r # s => job'[r] = job[r]
      BY <1>5, <1>6, <2>2 DEF Pcs, Becomes
    <3> QED
      BY <1>2, <1>5, <1>25, <2>1, <2>2, <3>1 DEF JobFenced, Fencing, JobFrame, JobMove
  <2>3. CASE JobFenceEnds(s) /\ UNCHANGED released
    BY <1>2, <1>23, <1>25, <2>1, <2>3 DEF JobFenced, Fencing, JobFrame, JobMove
  <2>4. CASE /\ Answered(s, {"accepted", "unknown"}) /\ JobFenceEnds(s)
             /\ released' = Released(call[s])
    BY <1>2, <1>23, <1>25, <2>1, <2>4 DEF JobFenced, Answered, Fencing, JobFrame, JobMove
  <2> QED
    BY <1>25, <2>2, <2>3, <2>4 DEF JobFenced
<1> QED
  BY <1>12, <1>13, <1>14, <1>17, <1>18, <1>19, <1>21, <1>22, <1>24, <1>25 DEF JobStep

-------------------------------------------------------------------------------
(* What a step of _finish_cancel on a node does, point by point.           *)

CancelFrame(n) ==
  /\ UNCHANGED <<env, state, plan, executing, finish, tally, cancels, outcome, results, actions,
                 recovered, job>>
  /\ \A k \in Nodes : k # n => side'[k] = side[k]
  /\ \A x \in Steps \cup Nodes : x # n => call'[x] = call[x]

SideQuiet(n) == wire' = wire /\ call'[n] = None

AsksFence(n) ==
  /\ finish = "fence" /\ side[n].pc = "fence" /\ side'[n].pc = "hold"
  /\ authority' \in [Nodes -> Authority \cup {None}]
  /\ authority'[n] = IF authority[n] = None THEN Shown(n) ELSE authority[n]
  /\ \A k \in Nodes : k # n => authority'[k] = authority[k]
  /\ \E m \in Message :
       /\ m.kind = "hold" /\ m.from = n /\ m.node = n
       /\ m.boot = boot[n] /\ m.epoch = epoch[n]
       /\ wire' = wire \cup {m}
       /\ call'[n] # None /\ call'[n].msg = m /\ call'[n].answer = "none"
       /\ call'[n].open = (admission[n] = "OPEN")
  /\ UNCHANGED released
FenceFails(n) ==
  /\ \/ finish = "fence" /\ side[n].pc = "fence" /\ side'[n].pc = "failed"
     \/ side[n].pc = "hold" /\ side'[n].pc \in {"fence", "failed"}
  /\ \/ UNCHANGED released
     \/ /\ side[n].pc = "hold" /\ call[n] # None /\ call[n].answer \in {"accepted", "unknown"}
        /\ released' = Released(call[n])
  /\ SideQuiet(n) /\ UNCHANGED authority
FenceStands(n) ==
  /\ side[n].pc = "hold" /\ side'[n].pc = "fenced"
  /\ call[n] # None /\ call[n].answer = "accepted" /\ released' = Released(call[n])
  /\ SideQuiet(n) /\ UNCHANGED authority
Stops(n) ==
  /\ finish = "wait" /\ side[n].pc = "fenced" /\ side'[n].pc = "stopped"
  /\ active[n] = None
  /\ SideQuiet(n) /\ UNCHANGED <<authority, released>>
Allows(n) ==
  /\ finish = "release" /\ side[n].pc = "stopped" /\ side'[n].pc = "allow"
  /\ \E m \in Message :
       /\ m.kind = "allow" /\ m.from = n /\ m.node = n
       /\ m.boot = authority[n].boot /\ m.epoch = released[n]
       /\ wire' = wire \cup {m}
       /\ call'[n] # None /\ call'[n].msg = m /\ call'[n].answer = "none"
  /\ UNCHANGED <<authority, released>>
Closes(n) ==
  /\ (finish = "release" /\ side[n].pc = "stopped") \/ side[n].pc = "allow"
  /\ side'[n].pc = "done"
  /\ SideQuiet(n) /\ UNCHANGED <<authority, released>>

CancelMove(n) ==
  AsksFence(n) \/ FenceFails(n) \/ FenceStands(n) \/ Stops(n) \/ Allows(n) \/ Closes(n)

LEMMA CancelStepMoves ==
  ASSUME TypeOK, Calls, Cancelled, NEW n \in Nodes, CancelStep(n)
  PROVE  CancelFrame(n) /\ CancelMove(n)
<1>1. /\ GateTypeOK /\ TaskOK /\ CancelOK /\ BookOK /\ JobOK /\ NetOK /\ FaultOK
      /\ SideOK /\ n \in Steps \cup Nodes
  BY TypeParts DEF CancelOK
<1>2. UNCHANGED <<env, state, plan, executing, finish, tally, cancels, outcome, results, actions,
                  recovered, job>>
  BY DEF CancelStep, CancelFences, CancelFenced, NodeStopped, Release, ReleaseAnswered, book, task
<1>3. side[n].pc \notin {"hold", "allow"} => call[n] = None
  BY DEF Calls
<1>4. ASSUME UNCHANGED net
      PROVE  wire' = wire /\ \A x \in Steps \cup Nodes : call'[x] = call[x]
  BY <1>4 DEF net
<1>5. ASSUME HangUp(n)
      PROVE  SideQuiet(n) /\ \A x \in Steps \cup Nodes : x # n => call'[x] = call[x]
  BY <1>1, <1>5, HangsUp DEF SideQuiet
<1>6. ASSUME NEW pc \in SidePcs, Step(n, pc)
      PROVE  side'[n].pc = pc /\ \A k \in Nodes : k # n => side'[k] = side[k]
  BY <1>1, <1>6, Paces
<1>7. {"failed", "fence", "fenced", "allow", "done", "hold", "stopped"} \subseteq SidePcs
  BY DEF SidePcs
<1>8. UNCHANGED task => UNCHANGED authority
  BY DEF task
<1>9. UNCHANGED book => UNCHANGED released
  BY DEF book
<1>10. CASE CancelFences(n)
  <2>1. finish = "fence" /\ side[n].pc = "fence" /\ UNCHANGED released
    BY <1>9, <1>10 DEF CancelFences
  <2>2. CASE Step(n, "failed") /\ UNCHANGED <<authority, net>>
    <3>1. side'[n].pc = "failed" /\ \A k \in Nodes : k # n => side'[k] = side[k]
      BY <1>6, <1>7, <2>2
    <3>2. SideQuiet(n) /\ \A x \in Steps \cup Nodes : call'[x] = call[x]
      BY <1>1, <1>3, <1>4, <2>1, <2>2 DEF SideQuiet
    <3> QED
      BY <1>2, <2>1, <2>2, <3>1, <3>2 DEF FenceFails, CancelFrame, CancelMove
  <2>3. CASE /\ authority' = [authority EXCEPT ![n] = IF @ = None THEN Shown(n) ELSE @]
             /\ Send("hold", n, None, n, Shown(n))
             /\ side' = [side EXCEPT ![n].pc = "hold", ![n].tries = @ + 1]
    <3>1. side'[n].pc = "hold" /\ \A k \in Nodes : k # n => side'[k] = side[k]
      BY <1>1, <2>3 DEF SideOK
    <3>2. /\ authority' \in [Nodes -> Authority \cup {None}]
          /\ authority'[n] = IF authority[n] = None THEN Shown(n) ELSE authority[n]
          /\ \A k \in Nodes : k # n => authority'[k] = authority[k]
      BY <1>1, <2>3, NodeRecordsOf DEF TaskOK
    <3> DEFINE m == [kind |-> "hold", from |-> n, action |-> None, node |-> n,
                     boot |-> Shown(n).boot, epoch |-> Shown(n).epoch, no |-> cancels]
    <3>3. /\ m \in Message /\ wire' = wire \cup {m}
          /\ call'[n] = [msg |-> m, open |-> admission[n] = "OPEN", answer |-> "none"]
          /\ call'[n] # None
          /\ \A x \in Steps \cup Nodes : x # n => call'[x] = call[x]
      BY <1>1, <2>3, NodeRecordsOf, Sends
    <3>4. /\ m.kind = "hold" /\ m.from = n /\ m.node = n
          /\ m.boot = boot[n] /\ m.epoch = epoch[n]
      BY DEF Shown
    <3> HIDE DEF m
    <3>5. AsksFence(n)
      BY <2>1, <3>1, <3>2, <3>3, <3>4 DEF AsksFence
    <3> QED
      BY <1>2, <3>1, <3>3, <3>5 DEF CancelFrame, CancelMove
  <2> QED
    BY <1>10, <2>2, <2>3 DEF CancelFences
<1>11. CASE CancelFenced(n)
  <2>1. /\ SideQuiet(n) /\ UNCHANGED authority /\ side[n].pc = "hold"
        /\ \A x \in Steps \cup Nodes : x # n => call'[x] = call[x]
    BY <1>5, <1>8, <1>11 DEF CancelFenced
  <2>2. CASE /\ Answered(n, {"accepted"})
             /\ side' = [side EXCEPT ![n].pc = "fenced", ![n].receipt = call[n].msg.epoch + 1]
             /\ released' = Released(call[n])
    <3>1. side'[n].pc = "fenced" /\ \A k \in Nodes : k # n => side'[k] = side[k]
      BY <1>1, <2>2 DEF SideOK
    <3> QED
      BY <1>2, <2>1, <2>2, <3>1 DEF Answered, FenceStands, CancelFrame, CancelMove
  <2>3. CASE Answered(n, {"unknown"}) /\ Step(n, "failed") /\ released' = Released(call[n])
    <3>1. side'[n].pc = "failed" /\ \A k \in Nodes : k # n => side'[k] = side[k]
      BY <1>6, <1>7, <2>3
    <3> QED
      BY <1>2, <2>1, <2>3, <3>1 DEF Answered, FenceFails, CancelFrame, CancelMove
  <2>4. CASE (Step(n, "fence") \/ Step(n, "failed")) /\ UNCHANGED released
    <3>1. side'[n].pc \in {"fence", "failed"} /\ \A k \in Nodes : k # n => side'[k] = side[k]
      BY <1>6, <1>7, <2>4
    <3> QED
      BY <1>2, <2>1, <2>4, <3>1 DEF FenceFails, CancelFrame, CancelMove
  <2> QED
    BY <1>11, <2>2, <2>3, <2>4 DEF CancelFenced
<1>12. CASE NodeStopped(n)
  <2>1. side'[n].pc = "stopped" /\ \A k \in Nodes : k # n => side'[k] = side[k]
    BY <1>1, <1>12 DEF NodeStopped, SideOK
  <2>2. SideQuiet(n) /\ \A x \in Steps \cup Nodes : call'[x] = call[x]
    BY <1>1, <1>3, <1>4, <1>12 DEF NodeStopped, SideQuiet
  <2> QED
    BY <1>2, <1>8, <1>9, <1>12, <2>1, <2>2
    DEF NodeStopped, Halted, Stops, CancelFrame, CancelMove
<1>13. CASE Release(n)
  <2>1. /\ finish = "release" /\ side[n].pc = "stopped" /\ UNCHANGED <<authority, released>>
    BY <1>8, <1>9, <1>13 DEF Release
  <2>2. CASE Step(n, "done") /\ UNCHANGED net
    <3>1. side'[n].pc = "done" /\ \A k \in Nodes : k # n => side'[k] = side[k]
      BY <1>6, <1>7, <2>2
    <3>2. SideQuiet(n) /\ \A x \in Steps \cup Nodes : call'[x] = call[x]
      BY <1>1, <1>3, <1>4, <2>1, <2>2 DEF SideQuiet
    <3> QED
      BY <1>2, <2>1, <3>1, <3>2 DEF Closes, CancelFrame, CancelMove
  <2>3. CASE /\ Reopens(n) /\ Step(n, "allow")
             /\ Send("allow", n, None, n, [boot |-> authority[n].boot, epoch |-> side[n].world])
    <3>1. side'[n].pc = "allow" /\ \A k \in Nodes : k # n => side'[k] = side[k]
      BY <1>6, <1>7, <2>3
    <3>2. authority[n] # None
      BY <2>1 DEF Cancelled
    <3> DEFINE e == [boot |-> authority[n].boot, epoch |-> side[n].world]
               m == [kind |-> "allow", from |-> n, action |-> None, node |-> n,
                     boot |-> e.boot, epoch |-> e.epoch, no |-> cancels]
    <3>3. e \in Authority
      BY <1>1, <3>2 DEF Authority, SideOK, TaskOK
    <3>4. e.boot = authority[n].boot /\ e.epoch = released[n]
      BY <2>3 DEF Reopens
    <3>5. Send("allow", n, None, n, e)
      BY <2>3
    <3> HIDE DEF e
    <3>6. /\ m \in Message /\ wire' = wire \cup {m}
          /\ call'[n] = [msg |-> m, open |-> admission[n] = "OPEN", answer |-> "none"]
          /\ call'[n] # None
          /\ \A x \in Steps \cup Nodes : x # n => call'[x] = call[x]
      BY <1>1, <3>3, <3>5, NodeRecordsOf, Sends
    <3>7. /\ m.kind = "allow" /\ m.from = n /\ m.node = n
          /\ m.boot = authority[n].boot /\ m.epoch = released[n]
      BY <3>4
    <3> HIDE DEF m
    <3>8. Allows(n)
      BY <2>1, <3>1, <3>6, <3>7 DEF Allows
    <3> QED
      BY <1>2, <3>1, <3>6, <3>8 DEF CancelFrame, CancelMove
  <2> QED
    BY <1>13, <2>2, <2>3 DEF Release
<1>14. CASE ReleaseAnswered(n)
  <2>1. side'[n].pc = "done" /\ \A k \in Nodes : k # n => side'[k] = side[k]
    BY <1>6, <1>7, <1>14 DEF ReleaseAnswered
  <2> QED
    BY <1>2, <1>5, <1>8, <1>9, <1>14, <2>1
    DEF ReleaseAnswered, Closes, CancelFrame, CancelMove
<1> QED
  BY <1>10, <1>11, <1>12, <1>13, <1>14 DEF CancelStep

-------------------------------------------------------------------------------
(* What the steps of the task itself leave as it is.                       *)

\* _execute begins and ends; a cancel begins, goes on and ends.
TaskStep == ExecuteStep \/ Cancel \/ FinishStep
TaskFrame ==
  /\ UNCHANGED <<env, plan, outcome, actions, recovered, released, job, wire>>
  /\ \A s \in Steps : call'[s] = call[s]
  /\ \A n \in Nodes : call'[n] \in {call[n], None}
  /\ \A n \in Nodes : authority[n] # None => authority'[n] = authority[n]

LEMMA TaskStepFrame ==
  ASSUME TypeOK, TaskStep
  PROVE  TaskFrame
<1>1. /\ UNCHANGED <<env, plan, outcome, actions, recovered, released, job, wire>>
      /\ UNCHANGED call \/ CancelFails
      /\ UNCHANGED authority \/ \E n \in Nodes : Capture(n)
  BY DEF TaskStep, ExecuteStep, Capture, PreflightEnds, ExecuteEnds, Cancel, FinishStep,
     AllFenced, StatusesRead, CancelEnds, CancelFails, task, book, net
<1>2. /\ \A s \in Steps : call'[s] = call[s]
      /\ \A n \in Nodes : call'[n] \in {call[n], None}
  BY <1>1, CallerAssumption DEF CancelFails
<1>3. \A n \in Nodes : authority[n] # None => authority'[n] = authority[n]
  BY <1>1 DEF Capture, TypeOK
<1> QED
  BY <1>1, <1>2, <1>3 DEF TaskFrame

\* The authority of a node is set once.
AuthorityMoves ==
  \A n \in Nodes : \/ authority'[n] = authority[n]
                   \/ authority[n] = None /\ authority'[n] = Shown(n) /\ UNCHANGED env
LEMMA AuthorityStands ==
  ASSUME TypeOK, Owners, Submissions, Calls, Cancelled, [Next]_vars
  PROVE  AuthorityMoves
<1>1. CASE EnvStep
  BY <1>1, EnvStepMoves DEF EnvMoves, agent, task, AuthorityMoves
<1>2. ASSUME NEW s \in Steps, JobStep(s) PROVE AuthorityMoves
  BY <1>2, JobStepMoves DEF JobFrame, task, AuthorityMoves
<1>3. ASSUME NEW n \in Nodes, CancelStep(n) PROVE AuthorityMoves
  BY <1>3, CancelStepMoves
  DEF CancelFrame, CancelMove, AsksFence, FenceFails, FenceStands, Stops, Allows, Closes,
      AuthorityMoves
<1>4. CASE TaskStep
  <2>1. UNCHANGED authority \/ \E n \in Nodes : Capture(n)
    BY <1>4 DEF TaskStep, ExecuteStep, PreflightEnds, ExecuteEnds, Cancel, FinishStep,
       AllFenced, StatusesRead, CancelEnds, CancelFails, task
  <2> QED
    BY <2>1 DEF Capture, TypeOK, AuthorityMoves
<1>5. CASE UNCHANGED vars
  BY <1>5 DEF vars, agent, task, AuthorityMoves
<1> QED
  BY <1>1, <1>2, <1>3, <1>4, <1>5 DEF Next, EnvStep, TaskStep

-------------------------------------------------------------------------------
(* The parts of the invariant, one after the other.                        *)

LEMMA StepKinds ==
  ASSUME [Next]_vars
  PROVE  \/ EnvStep
         \/ \E s \in Steps : JobStep(s)
         \/ \E n \in Nodes : CancelStep(n)
         \/ TaskStep
         \/ UNCHANGED vars
BY DEF Next, EnvStep, TaskStep

\* The nodes only go on, whoever takes the step.
LEMMA NodesGoOn ==
  ASSUME TypeOK, Owners, Submissions, [Next]_vars
  PROVE  /\ GateTypeOK /\ GateTypeOK' /\ Forward
         /\ \A n \in Nodes : /\ boot[n] \in Nat /\ epoch[n] \in Nat
                             /\ boot'[n] \in Nat /\ epoch'[n] \in Nat
BY EveryStepMoves DEF NodeMoves, TypeOK, GateTypeOK

LEMMA CapturedStays ==
  ASSUME TypeOK, Owners, Submissions, Calls, Cancelled, Captured, [Next]_vars
  PROVE  Captured'
<1>1. AuthorityMoves
  BY AuthorityStands
<1>2. \A n \in Nodes : authority'[n] # None => Reached(n, authority[n])' 
  <2> SUFFICES ASSUME NEW n \in Nodes, authority'[n] # None PROVE Reached(n, authority[n])'
    OBVIOUS
  <2>1. CASE authority'[n] = authority[n]
    <3>1. Reached(n, authority[n]) /\ authority[n] \in Authority
      BY <2>1 DEF Captured, TypeOK
    <3> QED
      BY <2>1, <3>1, NodesGoOn DEF Forward, Reached, Past, SameAuthority, Authority
  <2>2. CASE authority'[n] = Shown(n) /\ UNCHANGED env
    BY <2>2 DEF Reached, SameAuthority, Shown, env, nodes
  <2> QED
    BY <1>1, <2>1, <2>2 DEF AuthorityMoves
<1>3. \A n \in Nodes : authority[n] # None => authority'[n] # None
  BY <1>1 DEF AuthorityMoves
<1>4. ASSUME UNCHANGED <<executing, job>> PROVE Captured'
  BY <1>2, <1>3, <1>4 DEF Captured
<1>5. CASE EnvStep
  BY <1>4, <1>5, EnvStepMoves DEF EnvMoves, agent, task
<1>6. ASSUME NEW s \in Steps, JobStep(s) PROVE Captured'
  <2>1. /\ UNCHANGED executing /\ \A r \in Steps : r # s => job'[r] = job[r]
        /\ job[s].pc = "waiting" => executing = "steps"
    BY <1>6, JobStepMoves
    DEF JobFrame, task, JobMove, EndsEarly, Refused, Ended, Started, Submitted, Accepted, Lost,
        Fails, Observed, TriesAgain, AsksHold, Fencing
  <2> QED
    BY <1>2, <1>3, <2>1 DEF Captured
<1>7. ASSUME NEW n \in Nodes, CancelStep(n) PROVE Captured'
  BY <1>4, <1>7, CancelStepMoves DEF CancelFrame
<1>8. CASE TaskStep
  <2>1. UNCHANGED job
    BY <1>8, TaskStepFrame DEF TaskFrame
  <2>2. CASE UNCHANGED executing
    BY <1>4, <2>1, <2>2
  <2>3. CASE executing' = "done"
    BY <1>2, <1>3, <2>1, <2>3 DEF Captured
  <2>4. ASSUME NEW n \in Nodes, Capture(n), executing' # executing PROVE Captured'
    <3>1. \A k \in Nodes : authority'[k] # None
      BY <2>4, NodeRecordsOf DEF Capture, TypeOK
    <3> QED
      BY <1>2, <2>1, <2>4, <3>1 DEF Capture, Captured
  <2> QED
    BY <1>8, <2>2, <2>3, <2>4
    DEF TaskStep, ExecuteStep, PreflightEnds, ExecuteEnds, Cancel, FinishStep, AllFenced,
        StatusesRead, CancelEnds, CancelFails, task
<1>9. CASE UNCHANGED vars
  BY <1>4, <1>9 DEF vars, agent, task
<1> QED
  BY <1>5, <1>6, <1>7, <1>8, <1>9, StepKinds

\* What has been tried stays tried, and what a step waited for stays done.
LEMMA StepsGoOn ==
  ASSUME TypeOK, Owners, Submissions, Calls, Cancelled, Jobs, [Next]_vars
  PROVE  /\ \A r \in Steps : DependsOn(r) => DependsOn(r)'
         /\ \A r \in Steps, att \in Attempts : Tried(r, att) => Tried(r, att)'
<1> DEFINE Goal == /\ \A r \in Steps : DependsOn(r) => DependsOn(r)'
                   /\ \A r \in Steps, att \in Attempts : Tried(r, att) => Tried(r, att)'
<1>1. ASSUME UNCHANGED <<job, outcome, plan>> PROVE Goal
  BY <1>1 DEF DependsOn, Succeeded, Tried
<1>2. CASE EnvStep
  BY <1>1, <1>2, EnvStepMoves DEF EnvMoves, agent, task, book
<1>3. ASSUME NEW s \in Steps, JobStep(s) PROVE Goal
  <2>1. JobFrame(s) /\ JobMove(s) /\ UNCHANGED plan
    BY <1>3, JobStepMoves DEF JobFrame, task
  <2>2. \A r \in Steps : plan[r] \in Seq(Steps)
    BY PlanAssumption DEF TypeOK
  <2>3. \A r \in Steps : Succeeded(r) => Succeeded(r)'
    <3>1. ~Succeeded(s)
      BY <2>1 DEF Succeeded, JobMove, EndsEarly, Refused, Ended, Started, Submitted, Accepted,
         Lost, Fails, Observed, TriesAgain, AsksHold, Fencing
    <3> QED
      BY <2>1, <3>1 DEF Succeeded, JobFrame
  <2>4. \A r \in Steps : DependsOn(r) => DependsOn(r)'
    BY <2>1, <2>2, <2>3 DEF DependsOn
  <2>5. \A att \in Attempts : Tried(s, att) => Tried(s, att)'
    <3>1. CASE job'[s].attempt = job[s].attempt
      <4>1. job[s].pc \notin {"waiting", "context"} => job'[s].pc \notin {"waiting", "context"}
        BY <2>1, <3>1 DEF Jobs, JobMove, EndsEarly, Refused, Ended, Started, Submitted, Accepted,
           Lost, Fails, Observed, TriesAgain, AsksHold, Fencing, Over, Becomes
      <4> QED
        BY <3>1, <4>1 DEF Tried
    <3>2. CASE TriesAgain(s)
      BY <3>2 DEF TriesAgain, Jobs, Tried
    <3> QED
      BY <2>1, <3>1, <3>2 DEF JobMove, EndsEarly, Refused, Ended, Started, Submitted, Accepted,
         Lost, Fails, Observed, AsksHold, Fencing, Over, Becomes
  <2>6. \A r \in Steps, att \in Attempts : r # s => (Tried(r, att) => Tried(r, att)')
    BY <2>1 DEF JobFrame, Tried
  <2> QED
    BY <2>4, <2>5, <2>6
<1>4. ASSUME NEW n \in Nodes, CancelStep(n) PROVE Goal
  BY <1>1, <1>4, CancelStepMoves DEF CancelFrame
<1>5. CASE TaskStep
  BY <1>1, <1>5, TaskStepFrame DEF TaskFrame
<1>6. CASE UNCHANGED vars
  BY <1>1, <1>6 DEF vars, agent, task, book
<1> QED
  BY <1>2, <1>3, <1>4, <1>5, <1>6, StepKinds

LEMMA JobsStay ==
  ASSUME TypeOK, Owners, Submissions, Calls, Cancelled, Jobs, [Next]_vars
  PROVE  Jobs'
<1>1. ASSUME UNCHANGED <<job, outcome, plan>> PROVE Jobs'
  BY <1>1 DEF Jobs, DependsOn, Succeeded
<1>2. CASE EnvStep
  BY <1>1, <1>2, EnvStepMoves DEF EnvMoves, agent, task, book
<1>3. ASSUME NEW s \in Steps, JobStep(s) PROVE Jobs'
  <2>1. JobFrame(s) /\ JobMove(s) /\ UNCHANGED plan
    BY <1>3, JobStepMoves DEF JobFrame, task
  <2>2. \A r \in Steps : DependsOn(r) => DependsOn(r)'
    BY StepsGoOn
  <2>3. job[s].pc = "waiting" => DependsOn(s) \/ job'[s].pc = "done"
    BY <2>1 DEF DependsOn, Ready, JobMove, EndsEarly, Refused, Ended, Started, Submitted,
       Accepted, Lost, Fails, Observed, TriesAgain, AsksHold, Fencing, Over, Becomes
  <2>4. /\ outcome'[s] # "none" <=> job'[s].pc \in {"fence", "hold", "done"}
        /\ job'[s].pc \in {"fence", "hold"} => outcome'[s] = "UNKNOWN"
        /\ job'[s].pc \in {"waiting", "recover"} => job'[s].attempt = "first"
        /\ job'[s].pc = "again" => job'[s].attempt = "observe"
    <3>1. /\ outcome[s] # "none" <=> job[s].pc \in {"fence", "hold", "done"}
          /\ job[s].pc \in {"fence", "hold"} => outcome[s] = "UNKNOWN"
      BY DEF Jobs
    <3>2. CASE EndsEarly(s)
      BY <3>1, <3>2 DEF EndsEarly, Over, Becomes
    <3>3. CASE Refused(s)
      BY <3>1, <3>3 DEF Refused, Over, Becomes
    <3>4. CASE Ended(s)
      BY <3>1, <3>4 DEF Ended, Over, Becomes, Known
    <3>5. CASE Started(s) \/ Submitted(s)
      BY <3>1, <3>5 DEF Started, Submitted, Becomes
    <3>6. CASE Accepted(s) \/ Lost(s)
      BY <3>1, <3>6 DEF Accepted, Lost, Over, Becomes
    <3>7. CASE Fails(s) \/ Observed(s) \/ TriesAgain(s)
      BY <3>1, <3>7 DEF Fails, Observed, TriesAgain, Becomes, RecoveryLeft
    <3>8. CASE AsksHold(s) \/ Fencing(s)
      BY <3>1, <3>8 DEF AsksHold, Fencing, Becomes
    <3> QED
      BY <2>1, <3>2, <3>3, <3>4, <3>5, <3>6, <3>7, <3>8 DEF JobMove
  <2>5. \A r \in Steps : r # s => job'[r] = job[r] /\ outcome'[r] = outcome[r]
    BY <2>1 DEF JobFrame
  <2>6. job[s].pc # "done"
    BY <2>1 DEF JobMove, EndsEarly, Refused, Ended, Started, Submitted, Accepted,
       Lost, Fails, Observed, TriesAgain, AsksHold, Fencing
  <2> QED
    BY <2>2, <2>3, <2>4, <2>5, <2>6 DEF Jobs
<1>4. ASSUME NEW n \in Nodes, CancelStep(n) PROVE Jobs'
  BY <1>1, <1>4, CancelStepMoves DEF CancelFrame
<1>5. CASE TaskStep
  BY <1>1, <1>5, TaskStepFrame DEF TaskFrame
<1>6. CASE UNCHANGED vars
  BY <1>1, <1>6 DEF vars, agent, task, book
<1> QED
  BY <1>2, <1>3, <1>4, <1>5, <1>6, StepKinds

LEMMA CallsStay ==
  ASSUME TypeOK, Owners, Submissions, Cancelled, Calls, [Next]_vars
  PROVE  Calls'
<1>1. \A s \in Steps : s \in Steps \cup Nodes /\ s \notin Nodes
  BY CallerAssumption
<1>2. CASE EnvStep
  <2>1. EnvMoves
    BY <1>2, EnvStepMoves
  <2>2. UNCHANGED <<job, side>>
    BY <2>1 DEF EnvMoves, agent, cancelling
  <2>3. \A x \in Steps \cup Nodes :
          /\ call'[x] # None <=> call[x] # None
          /\ call[x] # None => call'[x].msg = call[x].msg
          /\ call'[x] # None /\ call'[x].answer # "none" => call'[x].msg \notin wire'
    BY <2>1 DEF EnvMoves, Heard, Calls
  <2> QED
    BY <2>2, <2>3 DEF Calls, Id
<1>3. ASSUME NEW s \in Steps, JobStep(s) PROVE Calls'
  <2>1. JobFrame(s) /\ JobMove(s) /\ UNCHANGED side
    BY <1>3, JobStepMoves DEF JobFrame, cancelling
  <2>2. \A x \in Steps \cup Nodes : call[x] # None => call[x].msg.from = x
    BY DEF Calls
  <2>3. CASE Quiet(s) /\ job'[s].pc \notin {"submit", "hold"}
    <3>1. \A x \in Steps \cup Nodes : x # s => call'[x] = call[x]
      BY <2>1 DEF JobFrame
    <3>2. \A r \in Steps : r # s => job'[r] = job[r] /\ Id(r)' = Id(r)
      BY <2>1 DEF JobFrame, Id
    <3> QED
      BY <1>1, <2>1, <2>3, <3>1, <3>2 DEF Quiet, Calls
  <2>4. CASE Submitted(s)
    <3>1. /\ job'[s].pc = "submit" /\ job'[s].attempt = job[s].attempt
          /\ wire' = wire \cup {Submission(s)}
          /\ call'[s] # None /\ call'[s].msg = Submission(s) /\ call'[s].answer = "none"
      BY <2>4 DEF Submitted, Becomes
    <3>2. /\ Submission(s).from = s /\ Submission(s).node = NodeOf[s]
          /\ Submission(s).kind = "submit" /\ Submission(s).action = Id(s)
      BY DEF Submission
    <3>3. Id(s)' = Id(s)
      BY <3>1 DEF Id
    <3>4. \A x \in Steps \cup Nodes : x # s => call'[x] = call[x]
      BY <2>1 DEF JobFrame
    <3>5. \A r \in Steps : r # s => job'[r] = job[r] /\ Id(r)' = Id(r)
      BY <2>1 DEF JobFrame, Id
    <3>6. \A x \in Steps \cup Nodes : call'[x] # None /\ call'[x].answer # "none" =>
            call'[x].msg \notin wire'
      <4> SUFFICES ASSUME NEW x \in Steps \cup Nodes, call'[x] # None, call'[x].answer # "none"
                   PROVE  call'[x].msg \notin wire'
        OBVIOUS
      <4>1. x # s
        BY <3>1
      <4>2. call'[x].msg \notin wire /\ call'[x].msg.from = x
        BY <2>2, <3>4, <4>1 DEF Calls
      <4> QED
        BY <3>1, <3>2, <4>1, <4>2
    <3> QED
      BY <2>1, <3>1, <3>2, <3>3, <3>4, <3>5, <3>6, <1>1 DEF Calls
  <2>5. CASE AsksHold(s)
    <3>1. PICK m \in Message :
            /\ m.kind = "hold" /\ m.from = s /\ m.node = NodeOf[s]
            /\ wire' = wire \cup {m}
            /\ call'[s] # None /\ call'[s].msg = m /\ call'[s].answer = "none"
      BY <2>5 DEF AsksHold
    <3>2. job'[s].pc = "hold"
      BY <2>5 DEF AsksHold, Becomes
    <3>3. \A x \in Steps \cup Nodes : x # s => call'[x] = call[x]
      BY <2>1 DEF JobFrame
    <3>4. \A r \in Steps : r # s => job'[r] = job[r] /\ Id(r)' = Id(r)
      BY <2>1 DEF JobFrame, Id
    <3>5. \A x \in Steps \cup Nodes : call'[x] # None /\ call'[x].answer # "none" =>
            call'[x].msg \notin wire'
      <4> SUFFICES ASSUME NEW x \in Steps \cup Nodes, call'[x] # None, call'[x].answer # "none"
                   PROVE  call'[x].msg \notin wire'
        OBVIOUS
      <4>1. x # s
        BY <3>1
      <4>2. call'[x].msg \notin wire /\ call'[x].msg.from = x
        BY <2>2, <3>3, <4>1 DEF Calls
      <4> QED
        BY <3>1, <4>1, <4>2
    <3> QED
      BY <2>1, <3>1, <3>2, <3>3, <3>4, <3>5, <1>1 DEF Calls
  <2>6. (Quiet(s) /\ job'[s].pc \notin {"submit", "hold"}) \/ Submitted(s) \/ AsksHold(s)
    BY <2>1 DEF JobMove, EndsEarly, Refused, Ended, Started, Accepted, Lost, Fails, Observed,
       TriesAgain, Fencing, Over, Becomes
  <2> QED
    BY <2>3, <2>4, <2>5, <2>6
<1>4. ASSUME NEW n \in Nodes, CancelStep(n) PROVE Calls'
  <2>1. CancelFrame(n) /\ CancelMove(n) /\ UNCHANGED job
    BY <1>4, CancelStepMoves DEF CancelFrame
  <2>2. /\ \A x \in Steps \cup Nodes : x # n => call'[x] = call[x]
        /\ \A k \in Nodes : k # n => side'[k] = side[k]
        /\ \A s \in Steps : s # n /\ call'[s] = call[s] /\ Id(s)' = Id(s)
    BY <1>1, <2>1 DEF CancelFrame, Id
  <2>3. CASE SideQuiet(n) /\ side'[n].pc \notin {"hold", "allow"}
    BY <2>1, <2>2, <2>3 DEF SideQuiet, Calls
  <2>4. CASE AsksFence(n) \/ Allows(n)
    <3>1. PICK m \in Message :
            /\ m.kind = side'[n].pc /\ m.from = n /\ m.node = n
            /\ wire' = wire \cup {m}
            /\ call'[n] # None /\ call'[n].msg = m /\ call'[n].answer = "none"
      BY <2>4 DEF AsksFence, Allows
    <3>2. side'[n].pc \in {"hold", "allow"}
      BY <2>4 DEF AsksFence, Allows
    <3>3. \A x \in Steps \cup Nodes : call[x] # None => call[x].msg.from = x
      BY DEF Calls
    <3>4. \A x \in Steps \cup Nodes : call'[x] # None /\ call'[x].answer # "none" =>
            call'[x].msg \notin wire'
      <4> SUFFICES ASSUME NEW x \in Steps \cup Nodes, call'[x] # None, call'[x].answer # "none"
                   PROVE  call'[x].msg \notin wire'
        OBVIOUS
      <4>1. x # n
        BY <3>1
      <4>2. call'[x].msg \notin wire /\ call'[x].msg.from = x
        BY <2>2, <3>3, <4>1 DEF Calls
      <4> QED
        BY <3>1, <4>1, <4>2
    <3> QED
      BY <2>1, <2>2, <3>1, <3>2, <3>4 DEF Calls
  <2>5. (SideQuiet(n) /\ side'[n].pc \notin {"hold", "allow"}) \/ AsksFence(n) \/ Allows(n)
    BY <2>1 DEF CancelMove, FenceFails, FenceStands, Stops, Closes
  <2> QED
    BY <2>3, <2>4, <2>5
<1>5. CASE TaskStep
  <2>1. UNCHANGED <<job, wire>> /\ \A s \in Steps : call'[s] = call[s] /\ Id(s)' = Id(s)
    BY <1>5, TaskStepFrame DEF TaskFrame, Id
  <2>2. CASE UNCHANGED <<call, side>>
    BY <2>1, <2>2 DEF Calls
  <2>3. CASE (\A n \in Nodes : call'[n] = None) /\ side' = [n \in Nodes |-> NewSide]
    BY <2>1, <2>3 DEF Calls, NewSide
  <2>4. CASE Cancel
    <3>1. \A n \in Nodes : side[n].pc \in {"fence", "done"}
      BY <2>4 DEF Cancel, Cancelled, AllAt
    <3>2. \A n \in Nodes : call'[n] = None
      BY <2>4, <3>1 DEF Cancel, net, Calls
    <3> QED
      BY <2>3, <2>4, <3>2 DEF Cancel
  <2>5. CASE CancelFails
    BY <2>3, <2>5 DEF CancelFails
  <2> QED
    BY <1>5, <2>2, <2>4, <2>5
    DEF TaskStep, ExecuteStep, Capture, PreflightEnds, ExecuteEnds, FinishStep, AllFenced,
        StatusesRead, CancelEnds, cancelling, net
<1>6. CASE UNCHANGED vars
  BY <1>6 DEF vars, agent, cancelling, net, Calls, Id
<1> QED
  BY <1>2, <1>3, <1>4, <1>5, <1>6, StepKinds

\* A submission is of one step and one attempt.
LEMMA Owned ==
  ASSUME Submissions, NEW m \in Submits, NEW s \in Steps, NEW att \in Attempts,
         m.action = <<s, att>>
  PROVE  m.from = s /\ m.node = NodeOf[s] /\ Tried(s, att) /\ DependsOn(s)
<1>1. PICK a \in Attempts : m.action = <<m.from, a>> /\ Tried(m.from, a)
  BY DEF Submissions
<1>2. m.from = s /\ a = att
  BY <1>1
<1> QED
  BY <1>1, <1>2 DEF Submissions

LEMMA SubmissionsStay ==
  ASSUME TypeOK, Owners, Calls, Cancelled, Captured, Jobs, Submissions, [Next]_vars
  PROVE  Submissions'
<1>1. AuthorityMoves
  BY AuthorityStands
<1>2. \A m \in Submits : authority'[m.node] = authority[m.node]
  <2> SUFFICES ASSUME NEW m \in Submits PROVE authority'[m.node] = authority[m.node]
    OBVIOUS
  <2>1. m.node \in Nodes /\ m.boot \in Nat /\ m.epoch \in Nat
    BY DEF Submits, TypeOK, Message
  <2>2. authority[m.node] = [boot |-> m.boot, epoch |-> m.epoch]
    BY DEF Submissions
  <2>3. authority[m.node] # None
    BY <2>1, <2>2, RecordAssumption DEF Authority
  <2> QED
    BY <1>1, <2>1, <2>3 DEF AuthorityMoves
<1>3. /\ \A r \in Steps : DependsOn(r) => DependsOn(r)'
      /\ \A r \in Steps, att \in Attempts : Tried(r, att) => Tried(r, att)'
  BY StepsGoOn
<1>4. \A s \in Steps, att \in Attempts : <<s, att>> \in Actions
  BY Homes
<1>5. CASE EnvStep
  <2>1. EnvMoves
    BY <1>5, EnvStepMoves
  <2>2. Submits' \subseteq Submits /\ StatusMoves /\ UNCHANGED job
    BY <2>1 DEF EnvMoves, Submits, NodeMoves
  <2>3. ASSUME NEW a \in Actions, status[a] = "absent", status'[a] # "absent"
        PROVE  /\ \E m \in Submits : m.action = a
               /\ \A m \in Submits' : m.action # a
    BY <2>2, <2>3 DEF StatusMoves, Running, Admitted, Submissions, Submits
  <2>4. \A m \in Submits' :
          /\ m.from \in Steps /\ m.node = NodeOf[m.from]
          /\ \E att \in Attempts : m.action = <<m.from, att>> /\ Tried(m.from, att)'
          /\ authority'[m.node] = [boot |-> m.boot, epoch |-> m.epoch]
          /\ DependsOn(m.from)'
          /\ status'[m.action] = "absent"
    <3> SUFFICES ASSUME NEW m \in Submits'
                 PROVE  /\ m.from \in Steps /\ m.node = NodeOf[m.from]
                        /\ \E att \in Attempts : m.action = <<m.from, att>> /\ Tried(m.from, att)'
                        /\ authority'[m.node] = [boot |-> m.boot, epoch |-> m.epoch]
                        /\ DependsOn(m.from)'
                        /\ status'[m.action] = "absent"
      OBVIOUS
    <3>1. m \in Submits
      BY <2>2
    <3>2. m.from \in Steps /\ m.node = NodeOf[m.from] /\ status[m.action] = "absent"
      BY <3>1 DEF Submissions
    <3>3. /\ \E att \in Attempts : m.action = <<m.from, att>> /\ Tried(m.from, att)'
          /\ authority'[m.node] = [boot |-> m.boot, epoch |-> m.epoch]
          /\ DependsOn(m.from)'
      BY <1>2, <1>3, <3>1, <3>2 DEF Submissions
    <3>4. m.action \in Actions
      BY <1>4, <3>2, <3>3
    <3> QED
      BY <2>3, <3>2, <3>3, <3>4
  <2>5. \A m, k \in Submits' : m.action = k.action => m = k
    BY <2>2 DEF Submissions
  <2>6. \A s \in Steps, att \in Attempts : status'[<<s, att>>] # "absent" => Tried(s, att)'
    <3> SUFFICES ASSUME NEW s \in Steps, NEW att \in Attempts, status'[<<s, att>>] # "absent"
                 PROVE  Tried(s, att)
      BY <1>3
    <3>1. CASE status[<<s, att>>] # "absent"
      BY <3>1 DEF Submissions
    <3>2. CASE status[<<s, att>>] = "absent"
      <4>1. PICK m \in Submits : m.action = <<s, att>>
        BY <1>4, <2>3, <3>2
      <4> QED
        BY <4>1, Owned
    <3> QED
      BY <3>1, <3>2
  <2>7. \A s \in Steps : job'[s].pc = "submit" /\ call'[s].answer # "none" =>
          /\ \A m \in Submits' : m.action # Id(s)'
          /\ call'[s].answer = "refused" => status'[Id(s)'] = "absent"
    <3> SUFFICES ASSUME NEW s \in Steps, job[s].pc = "submit", call'[s].answer # "none"
                 PROVE  /\ \A m \in Submits' : m.action # Id(s)
                        /\ call'[s].answer = "refused" => status'[Id(s)] = "absent"
      BY <2>2 DEF Id
    <3>1. Id(s) \in Actions /\ s \in Steps \cup Nodes
      BY Records, TypeParts
    <3>2. CASE call'[s] = call[s]
      <4>1. /\ \A m \in Submits : m.action # Id(s)
            /\ call[s].answer = "refused" => status[Id(s)] = "absent"
        BY <3>2 DEF Submissions
      <4> QED
        BY <2>2, <2>3, <3>1, <3>2, <4>1
    <3>3. CASE Heard(s)
      <4> DEFINE m == call[s].msg
      <4>1. /\ m \in Submits /\ m \notin Submits' /\ m.action = Id(s)
            /\ Meaning(m, call'[s].answer) /\ m.kind = "submit"
        BY <3>1, <3>3 DEF Heard, Calls, Submits
      <4>2. \A k \in Submits' : k.action # Id(s)
        BY <2>2, <4>1 DEF Submissions
      <4>3. call'[s].answer = "refused" => status'[Id(s)] = status[m.action]
        BY <4>1 DEF Meaning, nodes
      <4> QED
        BY <4>1, <4>2, <4>3 DEF Submissions
    <3> QED
      BY <2>1, <3>1, <3>2, <3>3 DEF EnvMoves
  <2> QED
    BY <2>4, <2>5, <2>6, <2>7 DEF Submissions
<1>6. ASSUME UNCHANGED status, Submits' = Submits,
             \A r \in Steps : job'[r].pc = "submit" =>
               job'[r] = job[r] /\ call'[r] = call[r]
      PROVE  Submissions'
  <2>1. \A r \in Steps : job'[r].pc = "submit" => Id(r)' = Id(r)
    BY <1>6 DEF Id
  <2>2. \A m \in Submits' :
          /\ m.from \in Steps /\ m.node = NodeOf[m.from]
          /\ \E att \in Attempts : m.action = <<m.from, att>> /\ Tried(m.from, att)'
          /\ authority'[m.node] = [boot |-> m.boot, epoch |-> m.epoch]
          /\ DependsOn(m.from)'
          /\ status'[m.action] = "absent"
    BY <1>2, <1>3, <1>6 DEF Submissions
  <2> QED
    BY <1>3, <1>6, <2>1, <2>2 DEF Submissions
<1>7. ASSUME NEW s \in Steps, JobStep(s) PROVE Submissions'
  <2>1. JobFrame(s) /\ JobMove(s)
    BY <1>7, JobStepMoves
  <2>2. /\ UNCHANGED status
        /\ \A r \in Steps : r # s => job'[r] = job[r] /\ call'[r] = call[r] /\ Id(r)' = Id(r)
    BY <2>1 DEF JobFrame, env, nodes, Id
  <2>3. CASE wire' = wire /\ job'[s].pc # "submit"
    BY <1>6, <2>2, <2>3 DEF Submits
  <2>4. CASE AsksHold(s)
    <3>1. Submits' = Submits /\ job'[s].pc # "submit"
      BY <2>4 DEF AsksHold, Submits, Becomes
    <3> QED
      BY <1>6, <2>2, <3>1
  <2>5. CASE Submitted(s)
    <3> PICK att0 \in Attempts : att0 = job[s].attempt
      BY DEF TypeOK
    <3> PICK k : k = Submission(s)
      OBVIOUS
    <3>1. /\ k.from = s /\ k.node = NodeOf[s] /\ k.action = <<s, att0>> /\ k.kind = "submit"
          /\ k.boot = boot[NodeOf[s]] /\ k.epoch = epoch[NodeOf[s]]
          /\ att0 \in Attempts
      BY DEF Submission, Id, TypeOK
    <3>2. /\ job[s].pc = "context" /\ Bound(NodeOf[s])
          /\ job'[s].pc = "submit" /\ job'[s].attempt = att0
          /\ wire' = wire \cup {k} /\ call'[s].answer = "none"
      BY <2>5 DEF Submitted, Becomes
    <3>3. ~Tried(s, att0)
      BY <3>2 DEF Tried
    <3>4. status[<<s, att0>>] = "absent" /\ \A m \in Submits : m.action # <<s, att0>>
      BY <3>1, <3>3, Owned DEF Submissions
    <3>5. Tried(s, att0)'
      BY <3>2 DEF Tried
    <3>6. DependsOn(s)'
      BY <1>3, <3>2 DEF Jobs
    <3>7. /\ authority[k.node] = [boot |-> k.boot, epoch |-> k.epoch]
          /\ authority' = authority
      BY <2>1, <3>1, <3>2 DEF Bound, Shown, JobFrame, task
    <3>8. Submits' = Submits \cup {k}
      BY <3>1, <3>2 DEF Submits
    <3>9. \A m \in Submits' :
            /\ m.from \in Steps /\ m.node = NodeOf[m.from]
            /\ \E att \in Attempts : m.action = <<m.from, att>> /\ Tried(m.from, att)'
            /\ authority'[m.node] = [boot |-> m.boot, epoch |-> m.epoch]
            /\ DependsOn(m.from)'
            /\ status'[m.action] = "absent"
      <4>1. ASSUME NEW m \in Submits
            PROVE  /\ m.from \in Steps /\ m.node = NodeOf[m.from]
                   /\ \E att \in Attempts : m.action = <<m.from, att>> /\ Tried(m.from, att)'
                   /\ authority'[m.node] = [boot |-> m.boot, epoch |-> m.epoch]
                   /\ DependsOn(m.from)'
                   /\ status'[m.action] = "absent"
        BY <1>2, <1>3, <2>2 DEF Submissions
      <4>2. /\ k.from \in Steps /\ k.node = NodeOf[k.from]
            /\ \E att \in Attempts : k.action = <<k.from, att>> /\ Tried(k.from, att)'
            /\ authority'[k.node] = [boot |-> k.boot, epoch |-> k.epoch]
            /\ DependsOn(k.from)'
            /\ status'[k.action] = "absent"
        BY <2>2, <3>1, <3>4, <3>5, <3>6, <3>7
      <4> SUFFICES ASSUME NEW m \in Submits'
                   PROVE  /\ m.from \in Steps /\ m.node = NodeOf[m.from]
                          /\ \E att \in Attempts : m.action = <<m.from, att>> /\ Tried(m.from, att)'
                          /\ authority'[m.node] = [boot |-> m.boot, epoch |-> m.epoch]
                          /\ DependsOn(m.from)'
                          /\ status'[m.action] = "absent"
        OBVIOUS
      <4>3. CASE m = k
        BY <4>2, <4>3
      <4>4. CASE m # k
        BY <3>8, <4>1, <4>4
      <4> QED
        BY <4>3, <4>4
    <3>10. \A m, l \in Submits' : m.action = l.action => m = l
      BY <3>1, <3>4, <3>8 DEF Submissions
    <3>11. \A r \in Steps, att \in Attempts : status'[<<r, att>>] # "absent" => Tried(r, att)'
      BY <1>3, <2>2 DEF Submissions
    <3>12. \A r \in Steps : job'[r].pc = "submit" /\ call'[r].answer # "none" =>
            /\ \A m \in Submits' : m.action # Id(r)'
            /\ call'[r].answer = "refused" => status'[Id(r)'] = "absent"
      <4> SUFFICES ASSUME NEW r \in Steps, job'[r].pc = "submit", call'[r].answer # "none"
                   PROVE  /\ \A m \in Submits' : m.action # Id(r)'
                          /\ call'[r].answer = "refused" => status'[Id(r)'] = "absent"
        OBVIOUS
      <4>1. r # s
        BY <3>2
      <4>2. /\ \A m \in Submits : m.action # Id(r)
            /\ call[r].answer = "refused" => status[Id(r)] = "absent"
        BY <2>2, <4>1 DEF Submissions
      <4>3. k.action # Id(r)
        BY <3>1, <4>1 DEF Id
      <4> QED
        BY <2>2, <3>8, <4>1, <4>2, <4>3
    <3> QED
      BY <3>9, <3>10, <3>11, <3>12 DEF Submissions
  <2> QED
    BY <2>1, <2>3, <2>4, <2>5
    DEF JobMove, EndsEarly, Refused, Ended, Started, Accepted, Lost, Fails, Observed,
        TriesAgain, Fencing, Over, Becomes, Quiet
<1>8. ASSUME NEW n \in Nodes, CancelStep(n) PROVE Submissions'
  <2>1. CancelFrame(n) /\ CancelMove(n)
    BY <1>8, CancelStepMoves
  <2>2. UNCHANGED <<status, job>> /\ \A s \in Steps : call'[s] = call[s]
    BY <2>1, CallerAssumption DEF CancelFrame, env, nodes
  <2>3. Submits' = Submits
    BY <2>1 DEF CancelMove, AsksFence, FenceFails, FenceStands, Stops, Allows, Closes, SideQuiet,
       Submits
  <2> QED
    BY <1>6, <2>2, <2>3
<1>9. CASE TaskStep
  BY <1>6, <1>9, TaskStepFrame DEF TaskFrame, env, nodes, Submits
<1>10. CASE UNCHANGED vars
  BY <1>6, <1>10 DEF vars, env, nodes, net, Submits
<1> QED
  BY <1>5, <1>7, <1>8, <1>9, <1>10, StepKinds

\* What holds of an authority the task has holds on.
LEMMA AuthoritiesHold ==
  ASSUME TypeOK, Owners, Submissions, Calls, Cancelled, [Next]_vars
  PROVE  \A n \in Nodes : authority[n] # None =>
           authority'[n] = authority[n] /\ authority[n] \in Authority
BY AuthorityStands DEF AuthorityMoves, TypeOK

LEMMA PastStays ==
  ASSUME TypeOK, Owners, Submissions, [Next]_vars, NEW n \in Nodes, NEW e,
         e.boot \in Nat, e.epoch \in Nat
  PROVE  (Past(n, e) => Past(n, e)') /\ (Reached(n, e) => Reached(n, e)')
BY NodesGoOn DEF Forward, Past, Reached, SameAuthority

\* A call for a hold is behind what its node has reached.
HoldOK(x) ==
  call[x] # None /\ call[x].msg.kind = "hold" =>
    /\ authority[call[x].msg.node] # None
    /\ NotBefore(call[x].msg, authority[call[x].msg.node])
    /\ Reached(call[x].msg.node, call[x].msg)
    /\ call[x].answer \in {"accepted", "unknown"} => Past(call[x].msg.node, call[x].msg)

LEMMA FencesStay ==
  ASSUME TypeOK, Owners, Submissions, Calls, Cancelled, Captured, Releasing, Fences, [Next]_vars
  PROVE  Fences'
<1>1. \A n \in Nodes : authority[n] # None =>
        authority'[n] = authority[n] /\ authority'[n] # None
  BY AuthoritiesHold
<1>2. /\ wire \subseteq Message
      /\ \A x \in Steps \cup Nodes : call[x] # None => call[x].msg \in Message
      /\ \A m \in Message : m.node \in Nodes /\ m.boot \in Nat /\ m.epoch \in Nat
  BY DEF TypeOK, CallRecord, Message
<1>3. \A m \in wire : m.kind # "submit" =>
        authority'[m.node] # None /\ NotBefore(m, authority'[m.node])
  BY <1>1, <1>2 DEF Fences
<1>4. \A x \in Steps \cup Nodes : HoldOK(x)
  BY DEF Fences, HoldOK
<1>5. ASSUME NEW x \in Steps \cup Nodes,
             \/ call'[x] \in {call[x], None}
             \/ call[x] # None /\ call'[x].msg = call[x].msg /\ Meaning(call[x].msg, call'[x].answer)
      PROVE  HoldOK(x)'
  <2> SUFFICES ASSUME call'[x] # None, call'[x].msg.kind = "hold"
               PROVE  HoldOK(x)'
    BY DEF HoldOK
  <2>1. call[x] # None /\ call'[x].msg = call[x].msg
    BY <1>5
  <2> PICK m \in Message : m = call[x].msg
    BY <1>2, <2>1
  <2>2. /\ authority[m.node] # None /\ NotBefore(m, authority[m.node]) /\ Reached(m.node, m)
        /\ call[x].answer \in {"accepted", "unknown"} => Past(m.node, m)
    BY <1>4, <2>1 DEF HoldOK
  <2>3. m.node \in Nodes /\ m.boot \in Nat /\ m.epoch \in Nat
    BY <1>2
  <2>4. authority'[m.node] # None /\ NotBefore(m, authority'[m.node])
    BY <1>1, <2>2, <2>3
  <2>5. Reached(m.node, m)' /\ (Past(m.node, m) => Past(m.node, m)')
    BY <2>2, <2>3, PastStays
  <2>6. call'[x].answer \in {"accepted", "unknown"} => Past(m.node, m)'
    <3>1. CASE call'[x] = call[x]
      BY <2>2, <2>5, <3>1
    <3>2. CASE Meaning(m, call'[x].answer)
      BY <2>1, <2>3, <3>2, NodesGoOn DEF Meaning, SameAuthority, Past
    <3> QED
      BY <1>5, <2>1, <3>1, <3>2
  <2> QED
    BY <2>1, <2>4, <2>5, <2>6 DEF HoldOK
<1>6. ASSUME NEW x \in Steps \cup Nodes, call'[x] # None, call'[x].msg.kind # "hold"
      PROVE  HoldOK(x)'
  BY <1>6 DEF HoldOK
\* A hold that is sent.
<1>7. ASSUME NEW x \in Steps \cup Nodes, NEW n \in Nodes, NEW m \in Message, UNCHANGED env,
             m.node = n, m.boot = boot[n], m.epoch = epoch[n],
             call'[x].msg = m, call'[x].answer = "none",
             authority'[n] \in {authority[n], Shown(n)}, authority'[n] # None
      PROVE  /\ authority'[m.node] # None /\ NotBefore(m, authority'[m.node])
             /\ HoldOK(x)'
  <2>1. GateTypeOK /\ UNCHANGED <<boot, epoch>>
    BY <1>7 DEF TypeOK, env, nodes
  <2>2. NotBefore(m, authority'[n])
    <3>1. CASE authority'[n] = Shown(n)
      BY <1>7, <2>1, <3>1 DEF NotBefore, Shown, GateTypeOK
    <3>2. CASE authority'[n] = authority[n]
      <4>1. authority[n] \in Authority /\ Reached(n, authority[n])
        BY <1>7, <3>2 DEF Captured, TypeOK
      <4> QED
        BY <1>7, <2>1, <3>2, <4>1
        DEF NotBefore, Reached, Past, SameAuthority, GateTypeOK, Authority
    <3> QED
      BY <1>7, <3>1, <3>2
  <2>3. Reached(n, m)'
    BY <1>7, <2>1 DEF Reached, SameAuthority
  <2> QED
    BY <1>7, <2>2, <2>3 DEF HoldOK
<1>8. ASSUME \A m \in wire' \ wire : m.kind # "submit" =>
               authority'[m.node] # None /\ NotBefore(m, authority'[m.node]),
             \A x \in Steps \cup Nodes : HoldOK(x)'
      PROVE  Fences'
  <2>1. \A m \in wire' : m.kind # "submit" =>
          authority'[m.node] # None /\ NotBefore(m, authority'[m.node])
    BY <1>3, <1>8
  <2> QED
    BY <1>8, <2>1 DEF Fences, HoldOK
<1>9. CASE EnvStep
  BY <1>5, <1>8, <1>9, EnvStepMoves DEF EnvMoves, Heard
<1>10. ASSUME NEW s \in Steps, JobStep(s) PROVE Fences'
  <2>1. JobFrame(s) /\ JobMove(s) /\ UNCHANGED env /\ UNCHANGED authority
    BY <1>10, JobStepMoves DEF JobFrame, task
  <2>2. \A x \in Steps \cup Nodes : x # s => HoldOK(x)'
    BY <1>5, <2>1 DEF JobFrame
  <2>3. CASE Quiet(s)
    BY <1>5, <1>8, <2>2, <2>3 DEF Quiet
  <2>4. CASE Submitted(s)
    <3>1. HoldOK(s)' /\ \A m \in wire' \ wire : m.kind = "submit"
      BY <1>6, <2>4 DEF Submitted, Submission
    <3> QED
      BY <1>8, <2>2, <3>1
  <2>5. CASE AsksHold(s)
    <3>1. PICK m \in Message :
            /\ m.node = NodeOf[s] /\ m.boot = boot[m.node] /\ m.epoch = epoch[m.node]
            /\ wire' = wire \cup {m} /\ call'[s].msg = m /\ call'[s].answer = "none"
      BY <2>5 DEF AsksHold
    <3>2. NodeOf[s] \in Nodes /\ authority[NodeOf[s]] # None
      BY <2>5, Homes DEF AsksHold, Captured
    <3>3. /\ authority'[m.node] # None /\ NotBefore(m, authority'[m.node]) /\ HoldOK(s)'
      BY <1>7, <2>1, <3>1, <3>2
    <3> QED
      BY <1>8, <2>2, <3>1, <3>3
  <2> QED
    BY <2>1, <2>3, <2>4, <2>5
    DEF JobMove, EndsEarly, Refused, Ended, Started, Accepted, Lost, Fails, Observed,
        TriesAgain, Fencing
<1>11. ASSUME NEW n \in Nodes, CancelStep(n) PROVE Fences'
  <2>1. CancelFrame(n) /\ CancelMove(n) /\ UNCHANGED env
    BY <1>11, CancelStepMoves DEF CancelFrame
  <2>2. \A x \in Steps \cup Nodes : x # n => HoldOK(x)'
    BY <1>5, <2>1 DEF CancelFrame
  <2>3. CASE SideQuiet(n)
    BY <1>5, <1>8, <2>2, <2>3 DEF SideQuiet
  <2>4. CASE AsksFence(n)
    <3>1. PICK m \in Message :
            /\ m.node = n /\ m.boot = boot[n] /\ m.epoch = epoch[n]
            /\ wire' = wire \cup {m} /\ call'[n].msg = m /\ call'[n].answer = "none"
      BY <2>4 DEF AsksFence
    <3>2. Shown(n) # None
      BY NodeRecordsOf DEF TypeOK
    <3>3. authority'[n] \in {authority[n], Shown(n)} /\ authority'[n] # None
      BY <2>4, <3>2 DEF AsksFence
    <3>4. authority'[m.node] # None /\ NotBefore(m, authority'[m.node]) /\ HoldOK(n)'
      BY <1>7, <2>1, <3>1, <3>3
    <3> QED
      BY <1>8, <2>2, <3>1, <3>4
  <2>5. CASE Allows(n)
    <3>1. PICK m \in Message :
            /\ m.kind = "allow" /\ m.node = n /\ m.boot = authority[n].boot /\ m.epoch = released[n]
            /\ wire' = wire \cup {m} /\ call'[n] # None /\ call'[n].msg = m
      BY <2>5 DEF Allows
    <3>2. released[n] \in Nat /\ released[n] # None
      BY <1>2, <3>1, RecordAssumption
    <3>3. authority[n] # None /\ released[n] = authority[n].epoch + 1
      BY <3>2 DEF Releasing, OwnFence
    <3>4. authority'[n] = authority[n] /\ authority[n] \in Authority /\ authority'[n] # None
      BY <3>3, AuthoritiesHold
    <3>5. NotBefore(m, authority'[n])
      BY <3>1, <3>3, <3>4 DEF NotBefore, Authority
    <3>6. HoldOK(n)'
      BY <1>6, <3>1
    <3> QED
      BY <1>8, <2>2, <3>1, <3>4, <3>5, <3>6
  <2> QED
    BY <2>1, <2>3, <2>4, <2>5 DEF CancelMove, FenceFails, FenceStands, Stops, Closes
<1>12. CASE TaskStep
  BY <1>5, <1>8, <1>12, TaskStepFrame DEF TaskFrame
<1>13. CASE UNCHANGED vars
  BY <1>5, <1>8, <1>13 DEF vars, net
<1> QED
  BY <1>9, <1>10, <1>11, <1>12, <1>13, StepKinds

LEMMA AccountedStays ==
  ASSUME TypeOK, Owners, Calls, Cancelled, Jobs, Submissions, Accounted, [Next]_vars
  PROVE  Accounted'
<1> DEFINE SentBy(s) == \A m \in Submits : m.from = s =>
                          \/ job[s].pc = "submit" /\ call[s].msg = m
                          \/ outcome[s] = "UNKNOWN"
           RunsFor(s) == \A att \in Attempts : status[<<s, att>>] \in Running =>
                          \/ att = job[s].attempt /\ job[s].pc \in {"submit", "poll"}
                          \/ outcome[s] = "UNKNOWN"
<1>1. /\ \A m \in Submits : m.from \in Steps
      /\ Accounted <=> (Active => \A s \in Steps : SentBy(s) /\ RunsFor(s))
  <2>1. \A m \in Submits : m.from \in Steps
    BY DEF Submissions
  <2> QED
    BY <2>1 DEF Accounted, Active
<1>2. ASSUME \A m \in Submits' : m.from \in Steps,
             Active' => Active,
             Active /\ (\A s \in Steps : SentBy(s) /\ RunsFor(s)) =>
               \A s \in Steps : SentBy(s)' /\ RunsFor(s)'
      PROVE  Accounted'
  BY <1>1, <1>2 DEF Accounted
<1>3. ASSUME Active', EnvStep PROVE Accounted'
  <2>1. EnvMoves
    BY <1>3, EnvStepMoves
  <2>2. /\ Submits' \subseteq Submits /\ StatusMoves /\ UNCHANGED <<job, outcome, state>>
    BY <2>1 DEF EnvMoves, Submits, NodeMoves, agent, task, book
  <2>3. \A s \in Steps : call[s] # None => call'[s].msg = call[s].msg
    BY <2>1 DEF EnvMoves, Heard
  <2>4. ASSUME NEW s \in Steps, SentBy(s), RunsFor(s) PROVE SentBy(s)' /\ RunsFor(s)'
    <3>1. SentBy(s)'
      <4>1. job[s].pc = "submit" => call[s] # None
        BY DEF Calls
      <4> QED
        BY <2>2, <2>3, <2>4, <4>1
    <3>2. ASSUME NEW att \in Attempts, status'[<<s, att>>] \in Running,
                 status[<<s, att>>] \notin Running
          PROVE  \/ att = job[s].attempt /\ job[s].pc \in {"submit", "poll"}
                 \/ outcome[s] = "UNKNOWN"
      <4>1. <<s, att>> \in Actions
        BY Homes
      <4>2. PICK m \in Submits : m.action = <<s, att>>
        BY <2>2, <3>2, <4>1 DEF StatusMoves, Running
      <4>3. m.from = s
        BY <4>2, Owned
      <4>4. CASE job[s].pc = "submit" /\ call[s].msg = m
        <5>1. m.action = <<s, job[s].attempt>>
          BY <4>4 DEF Calls, Id
        <5> QED
          BY <4>2, <4>4, <5>1
      <4> QED
        BY <2>4, <4>3, <4>4
    <3> QED
      BY <2>2, <2>4, <3>1, <3>2
  <2>5. (\A m \in Submits' : m.from \in Steps) /\ (Active' => Active)
    BY <1>1, <2>2 DEF Active
  <2> HIDE DEF SentBy, RunsFor
  <2> QED
    BY <1>2, <2>4, <2>5
<1>4. ASSUME NEW s \in Steps, JobStep(s) PROVE Accounted'
  <2>1. JobFrame(s) /\ JobMove(s)
    BY <1>4, JobStepMoves
  <2>2. /\ UNCHANGED <<state, status>>
        /\ \A r \in Steps : r # s => /\ job'[r] = job[r] /\ call'[r] = call[r]
                                     /\ outcome'[r] = outcome[r]
    BY <2>1 DEF JobFrame, task, env, nodes
  <2>3. \A m \in Submits' : m \in Submits \/ (Submitted(s) /\ m = Submission(s))
    BY <2>1 DEF Submits, JobMove, EndsEarly, Refused, Ended, Started, Submitted, Accepted, Lost,
       Fails, Observed, TriesAgain, AsksHold, Fencing, Quiet
  <2>4. Submission(s).from = s
    BY DEF Submission
  <2>5. ASSUME NEW r \in Steps, r # s, SentBy(r), RunsFor(r) PROVE SentBy(r)' /\ RunsFor(r)'
    BY <2>2, <2>3, <2>4, <2>5
  <2>6. ASSUME Active, SentBy(s), RunsFor(s) PROVE SentBy(s)' /\ RunsFor(s)'
    <3>1. CASE outcome[s] = "UNKNOWN"
      <4>1. AsksHold(s) \/ Fencing(s)
        BY <2>1, <3>1 DEF Jobs, JobMove, EndsEarly, Refused, Ended, Started, Submitted, Accepted,
           Lost, Fails, Observed, TriesAgain
      <4>2. outcome'[s] = "UNKNOWN"
        BY <3>1, <4>1 DEF AsksHold, Fencing, Becomes
      <4> QED
        BY <4>2
    <3>2. CASE Lost(s)
      BY <2>6, <3>2 DEF Lost, Over, Becomes
    \* Nothing is under way.
    <3>3. ASSUME job[s].pc \notin {"submit", "poll"}, outcome[s] # "UNKNOWN", ~Submitted(s)
          PROVE  SentBy(s)' /\ RunsFor(s)'
      BY <2>2, <2>3, <2>6, <3>3
    <3>4. ASSUME outcome[s] # "UNKNOWN", job[s].pc \in {"submit", "poll"},
                 \A m \in Submits : m.from # s, status[Id(s)] \notin Running, ~Submitted(s)
          PROVE  SentBy(s)' /\ RunsFor(s)'
      <4>1. \A att \in Attempts : status[<<s, att>>] \notin Running
        BY <2>6, <3>4 DEF Id
      <4> QED
        BY <2>2, <2>3, <3>4, <4>1
    <3>5. ASSUME outcome[s] # "UNKNOWN", NEW m \in Submits, m.from = s
          PROVE  job[s].pc = "submit" /\ m.action = Id(s)
      BY <2>6, <3>5 DEF Calls
    <3>6. CASE outcome[s] # "UNKNOWN" /\ Refused(s)
      <4>1. job[s].pc = "submit" /\ call[s].answer = "refused" /\ ~Submitted(s)
        BY <3>6 DEF Refused, Submitted
      <4>2. status[Id(s)] \notin Running /\ \A m \in Submits : m.from # s
        BY <3>5, <3>6, <4>1 DEF Submissions, Running
      <4> QED
        BY <3>4, <3>6, <4>1, <4>2
    <3>7. CASE outcome[s] # "UNKNOWN" /\ (Ended(s) \/ Fails(s) \/ Observed(s))
      <4>1. job[s].pc = "poll" /\ status[Id(s)] \notin Running /\ ~Submitted(s)
        BY <2>6, <3>7 DEF Ended, Fails, Observed, Submitted, Known, Running
      <4> QED
        BY <3>4, <3>5, <3>7, <4>1
    <3>8. CASE outcome[s] # "UNKNOWN" /\ Accepted(s)
      <4>1. /\ job[s].pc = "submit" /\ ~Submitted(s)
            /\ job'[s].pc = "poll" /\ job'[s].attempt = job[s].attempt
            /\ status[Id(s)] # "absent" \/ call[s].answer = "accepted"
        BY <2>6, <3>8 DEF Accepted, Submitted, Becomes
      <4>2. \A m \in Submits : m.from # s
        BY <3>5, <3>8, <4>1 DEF Submissions
      <4> QED
        BY <2>2, <2>3, <2>6, <3>8, <4>1, <4>2
    <3>9. CASE outcome[s] # "UNKNOWN" /\ Submitted(s)
      <4>1. /\ job[s].pc = "context" /\ job'[s].pc = "submit"
            /\ call'[s].msg = Submission(s)
        BY <3>9 DEF Submitted, Becomes
      <4>2. \A m \in Submits : m.from # s
        BY <3>5, <3>9, <4>1
      <4>3. \A att \in Attempts : status[<<s, att>>] \notin Running
        BY <2>6, <3>9, <4>1
      <4>4. SentBy(s)'
        BY <2>3, <4>1, <4>2
      <4> QED
        BY <2>2, <4>3, <4>4
    <3>10. CASE outcome[s] # "UNKNOWN" /\ (EndsEarly(s) \/ Started(s) \/ TriesAgain(s))
      <4>1. job[s].pc \notin {"submit", "poll"} /\ ~Submitted(s)
        BY <3>10 DEF EndsEarly, Started, TriesAgain, Submitted, Over, Becomes
      <4> QED
        BY <3>3, <3>10, <4>1
    <3>11. CASE AsksHold(s) \/ Fencing(s)
      BY <3>1, <3>11 DEF AsksHold, Fencing, Jobs
    <3> HIDE DEF SentBy, RunsFor
    <3> QED
      BY <2>1, <3>1, <3>2, <3>6, <3>7, <3>8, <3>9, <3>10, <3>11 DEF JobMove
  <2>7. (\A m \in Submits' : m.from \in Steps) /\ (Active' => Active)
    BY <1>1, <2>2, <2>3, <2>4 DEF Active
  <2> HIDE DEF SentBy, RunsFor
  <2> QED
    BY <1>2, <2>5, <2>6, <2>7
\* Whoever else moves, what is under way and who waits for it stay.
<1>5. ASSUME Active' => Active, Submits' = Submits,
             UNCHANGED <<status, job, outcome>>, \A s \in Steps : call'[s] = call[s]
      PROVE  Accounted'
  BY <1>1, <1>2, <1>5
<1>6. ASSUME NEW n \in Nodes, CancelStep(n) PROVE Accounted'
  <2>1. CancelFrame(n) /\ CancelMove(n)
    BY <1>6, CancelStepMoves
  <2>2. UNCHANGED <<state, status, job, outcome>> /\ \A s \in Steps : call'[s] = call[s]
    BY <2>1, CallerAssumption DEF CancelFrame, env, nodes
  <2>3. Submits' = Submits
    BY <2>1 DEF CancelMove, AsksFence, FenceFails, FenceStands, Stops, Allows, Closes, SideQuiet,
       Submits
  <2> QED
    BY <1>5, <2>2, <2>3 DEF Active
<1>7. CASE TaskStep
  <2>1. Active' => Active
    BY <1>7 DEF TaskStep, ExecuteStep, Capture, PreflightEnds, ExecuteEnds, Cancel, FinishStep,
       AllFenced, StatusesRead, CancelEnds, CancelFails, task, Active, Verdict
  <2> QED
    BY <1>5, <1>7, <2>1, TaskStepFrame DEF TaskFrame, env, nodes, Submits
<1>8. CASE UNCHANGED vars
  BY <1>5, <1>8 DEF vars, env, nodes, agent, task, book, net, Submits, Active
<1>9. ~Active' => Accounted'
  BY DEF Accounted
<1> HIDE DEF SentBy, RunsFor
<1> QED
  BY <1>3, <1>4, <1>6, <1>7, <1>8, <1>9, StepKinds

\* A submission that is admitted finds the authority of the preflight.
LEMMA AdmittedInTime ==
  ASSUME TypeOK, Submissions, NEW m \in Submits, Admitted(m)
  PROVE  /\ m.node \in Nodes /\ Home[m.action] = m.node
         /\ authority[m.node] = Shown(m.node) /\ admission[m.node] = "OPEN"
         /\ ~Past(m.node, authority[m.node]) /\ ~Past(m.node, m)
<1>1. /\ m.from \in Steps /\ m.node = NodeOf[m.from]
      /\ \E att \in Attempts : m.action = <<m.from, att>>
      /\ authority[m.node] = [boot |-> m.boot, epoch |-> m.epoch]
  BY DEF Submissions
<1>2. m.node \in Nodes /\ Home[m.action] = m.node
  BY <1>1, Homes
<1>3. boot[m.node] = m.boot /\ epoch[m.node] = m.epoch /\ admission[m.node] = "OPEN"
  BY <1>2 DEF Admitted, MayAdmit, SameAuthority
<1>4. boot[m.node] \in Nat /\ epoch[m.node] \in Nat
  BY <1>2 DEF TypeOK, GateTypeOK
<1> QED
  BY <1>1, <1>2, <1>3, <1>4 DEF Shown, Past

LEMMA CancelledStays ==
  ASSUME TypeOK, Owners, Calls, Submissions, Fences, Cancelled, [Next]_vars
  PROVE  Cancelled'
<1> DEFINE Behind(n) == authority[n] # None /\ Past(n, authority[n])
           Part1 == \A n \in Nodes :
                      /\ side[n].pc \in {"fenced", "stopped", "allow", "done"} => Behind(n)
                      /\ side[n].pc \in {"stopped", "allow", "done"} => active[n] = None
           Part2 == /\ finish # "none" => state = "CANCELLING"
                    /\ finish = "none" => AllAt({"fence", "done"})
                    /\ finish = "fence" => AllAt({"fence", "hold", "fenced", "failed"})
                    /\ finish = "wait" => AllAt({"fenced", "stopped"})
                    /\ finish = "release" => AllAt({"stopped", "allow", "done"})
                    /\ finish \in {"wait", "release"} => Submitting = {}
<1>1. (Cancelled <=> Part1 /\ Part2) /\ (Part1' /\ Part2' => Cancelled')
  BY DEF Cancelled
<1>2. \A n \in Nodes : Behind(n) => Behind(n)'
  <2> SUFFICES ASSUME NEW n \in Nodes, Behind(n) PROVE Behind(n)'
    OBVIOUS
  <2> PICK e \in Authority : e = authority[n]
    BY AuthoritiesHold
  <2>1. authority'[n] = e /\ authority'[n] # None
    BY AuthoritiesHold
  <2>2. Past(n, e)'
    BY PastStays DEF Authority
  <2> QED
    BY <2>1, <2>2
<1>3. ASSUME \A n \in Nodes : side'[n] = side[n] /\ (active'[n] = active[n] \/ active'[n] = None)
      PROVE  Part1'
  BY <1>1, <1>2, <1>3
<1>4. CASE EnvStep
  <2>1. EnvMoves
    BY <1>4, EnvStepMoves
  <2>2. ActiveMoves /\ UNCHANGED <<state, side, finish, job>>
    BY <2>1 DEF EnvMoves, NodeMoves, agent, cancelling, task
  <2>3. \A n \in Nodes : Behind(n) => active'[n] \in {active[n], None}
    BY <2>2, AdmittedInTime DEF ActiveMoves
  <2>4. Part1'
    BY <1>1, <1>2, <2>2, <2>3
  <2>5. Part2'
    BY <1>1, <2>2 DEF AllAt, Submitting
  <2> QED
    BY <1>1, <2>4, <2>5
<1>5. ASSUME NEW s \in Steps, JobStep(s) PROVE Cancelled'
  <2>1. JobFrame(s) /\ JobMove(s)
    BY <1>5, JobStepMoves
  <2>2. UNCHANGED <<state, side, finish, active>> /\ \A r \in Steps : r # s => job'[r] = job[r]
    BY <2>1 DEF JobFrame, task, cancelling, env, nodes
  <2>3. state # "RUNNING" => Submitting' \subseteq Submitting
    BY <2>1, <2>2 DEF Submitting, JobMove, EndsEarly, Refused, Ended, Started, Submitted, Accepted,
       Lost, Fails, Observed, TriesAgain, AsksHold, Fencing, Over, Becomes, Active
  <2>4. Part2'
    BY <1>1, <2>2, <2>3 DEF AllAt
  <2> QED
    BY <1>1, <1>3, <2>2, <2>4
<1>6. ASSUME NEW n \in Nodes, CancelStep(n) PROVE Cancelled'
  <2>1. CancelFrame(n) /\ CancelMove(n)
    BY <1>6, CancelStepMoves
  <2>2. /\ UNCHANGED <<state, finish, active, job, boot, epoch>>
        /\ \A k \in Nodes : k # n => side'[k] = side[k]
    BY <2>1 DEF CancelFrame, env, nodes
  <2>3. /\ side'[n].pc \in {"fenced", "stopped", "allow", "done"} => Behind(n)'
        /\ side'[n].pc \in {"stopped", "allow", "done"} => active[n] = None
    <3>1. CASE FenceStands(n)
      <4> PICK m \in Message : call[n].msg = m
        BY <3>1 DEF FenceStands, TypeOK, CallRecord
      <4>1. /\ m.kind = "hold" /\ m.node = n
        BY <3>1 DEF FenceStands, Calls
      <4>2. authority[n] # None /\ NotBefore(m, authority[n]) /\ Past(n, m)
        BY <3>1, <4>1 DEF FenceStands, Fences
      <4>3. authority[n] \in Authority /\ boot[n] \in Nat /\ epoch[n] \in Nat
        BY <4>2, AuthoritiesHold, NodesGoOn
      <4>4. Behind(n)
        BY <4>2, <4>3 DEF NotBefore, Past, Message, Authority
      <4> QED
        BY <1>2, <3>1, <4>4 DEF FenceStands
    <3>2. CASE ~FenceStands(n)
      <4>1. side'[n].pc \in {"fenced", "stopped", "allow", "done"} =>
              side[n].pc \in {"fenced", "stopped", "allow", "done"}
        BY <2>1, <3>2 DEF CancelMove, AsksFence, FenceFails, Stops, Allows, Closes
      <4>2. side'[n].pc \in {"stopped", "allow", "done"} => active[n] = None
        BY <1>1, <2>1, <3>2 DEF CancelMove, AsksFence, FenceFails, Stops, Allows, Closes
      <4> QED
        BY <1>1, <1>2, <4>1, <4>2
    <3> QED
      BY <3>1, <3>2
  <2>4. Part1'
    BY <1>1, <1>2, <2>2, <2>3
  <2>5. /\ finish # "none"
        /\ finish = "fence" => side'[n].pc \in {"fence", "hold", "fenced", "failed"}
        /\ finish = "wait" => side'[n].pc \in {"fenced", "stopped"}
        /\ finish = "release" => side'[n].pc \in {"stopped", "allow", "done"}
    BY <1>1, <2>1 DEF AllAt, CancelMove, AsksFence, FenceFails, FenceStands, Stops, Allows, Closes
  <2>6. Part2'
    BY <1>1, <2>2, <2>5 DEF AllAt, Submitting
  <2> QED
    BY <1>1, <2>4, <2>6
<1>7. CASE TaskStep
  <2>1. UNCHANGED <<active, job, boot, epoch>>
    BY <1>7, TaskStepFrame DEF TaskFrame, env, nodes
  <2>2. \A n \in Nodes : NewSide.pc = "fence"
    BY DEF NewSide
  <2>3. CASE ExecuteStep
    <3>1. UNCHANGED <<side, finish>> /\ (state' = state \/ Active)
      BY <2>3 DEF ExecuteStep, Capture, PreflightEnds, ExecuteEnds, cancelling
    <3>2. Active => finish = "none"
      BY <1>1 DEF Active
    <3>3. Part2'
      BY <1>1, <2>1, <3>1, <3>2 DEF AllAt, Submitting
    <3> QED
      BY <1>1, <1>3, <2>1, <3>1, <3>3
  <2>4. CASE Cancel
    <3>1. state' = "CANCELLING" /\ finish' = "fence" /\ \A n \in Nodes : side'[n].pc = "fence"
      BY <2>2, <2>4 DEF Cancel
    <3> QED
      BY <1>1, <3>1 DEF AllAt
  <2>5. CASE AllFenced
    <3>1. /\ finish = "fence" /\ finish' = "wait" /\ UNCHANGED <<side, state>>
          /\ AllAt({"fenced"}) /\ Submitting = {}
      BY <2>5 DEF AllFenced, task
    <3>2. Part2'
      BY <1>1, <2>1, <3>1 DEF AllAt, Submitting
    <3> QED
      BY <1>1, <1>3, <2>1, <3>1, <3>2
  <2>6. CASE StatusesRead
    <3>1. /\ finish = "wait" /\ finish' = "release" /\ UNCHANGED <<side, state>>
          /\ AllAt({"stopped"})
      BY <2>6 DEF StatusesRead, task
    <3>2. Part2'
      BY <1>1, <2>1, <3>1 DEF AllAt, Submitting
    <3> QED
      BY <1>1, <1>3, <2>1, <3>1, <3>2
  <2>7. CASE CancelEnds
    <3>1. finish' = "none" /\ UNCHANGED side /\ AllAt({"done"})
      BY <2>7 DEF CancelEnds
    <3>2. Part2'
      BY <3>1 DEF AllAt
    <3> QED
      BY <1>1, <1>3, <2>1, <3>1, <3>2
  <2>8. CASE CancelFails
    <3>1. finish' = "none" /\ \A n \in Nodes : side'[n].pc = "fence"
      BY <2>2, <2>8 DEF CancelFails
    <3> QED
      BY <1>1, <3>1 DEF AllAt
  <2> QED
    BY <1>7, <2>3, <2>4, <2>5, <2>6, <2>7, <2>8 DEF TaskStep, FinishStep
<1>8. CASE UNCHANGED vars
  <2>1. UNCHANGED <<active, side, finish, state, job>>
    BY <1>8 DEF vars, env, nodes, agent, task, cancelling
  <2>2. Part2'
    BY <1>1, <2>1 DEF AllAt, Submitting
  <2> QED
    BY <1>1, <1>3, <2>1, <2>2
<1> QED
  BY <1>4, <1>5, <1>6, <1>7, <1>8, StepKinds

LEMMA FailuresStay ==
  ASSUME TypeOK, Owners, Calls, Submissions, Cancelled, Jobs, Failures, [Next]_vars
  PROVE  Failures'
<1>1. \A s \in Steps : <<s, "first">> \in Actions
  BY Homes DEF Attempts
<1>2. ASSUME UNCHANGED <<job, status>> PROVE Failures'
  BY <1>2 DEF Failures
<1>3. CASE EnvStep
  <2>1. StatusMoves /\ UNCHANGED job
    BY <1>3, EnvStepMoves DEF EnvMoves, NodeMoves
  <2> QED
    BY <1>1, <2>1 DEF StatusMoves, Failures, Running
<1>4. ASSUME NEW s \in Steps, JobStep(s) PROVE Failures'
  <2>1. JobFrame(s) /\ JobMove(s)
    BY <1>4, JobStepMoves
  <2>2. UNCHANGED status /\ \A r \in Steps : r # s => job'[r] = job[r]
    BY <2>1 DEF JobFrame, env, nodes
  <2>3. job'[s].pc = "recover" \/ job'[s].attempt # "first" =>
          status[<<s, "first">>] \in {"FAILED", "UNKNOWN"}
    <3>1. CASE Fails(s)
      BY <3>1 DEF Fails, RecoveryLeft, Id
    <3>2. CASE TriesAgain(s)
      BY <3>2 DEF TriesAgain, Jobs, Failures
    <3>3. CASE job'[s].pc # "recover" /\ job'[s].attempt = job[s].attempt
      BY <3>3 DEF Failures
    <3> QED
      BY <2>1, <3>1, <3>2, <3>3 DEF JobMove, EndsEarly, Refused, Ended, Started, Submitted,
         Accepted, Lost, Observed, AsksHold, Fencing, Over, Becomes
  <2> QED
    BY <2>2, <2>3 DEF Failures
<1>5. ASSUME NEW n \in Nodes, CancelStep(n) PROVE Failures'
  BY <1>2, <1>5, CancelStepMoves DEF CancelFrame, env, nodes
<1>6. CASE TaskStep
  BY <1>2, <1>6, TaskStepFrame DEF TaskFrame, env, nodes
<1>7. CASE UNCHANGED vars
  BY <1>2, <1>7 DEF vars, env, nodes
<1> QED
  BY <1>3, <1>4, <1>5, <1>6, <1>7, StepKinds

\* What is known of the actions of one step.
Began(s, att) ==
  status[<<s, att>>] # "absent" \/ \E m \in Submits : m.action = <<s, att>>
Listed(s, att) == <<s, att>> \in actions \/ (att = "first" /\ <<s, "retry">> \in actions)
Counted(s) == <<s, "first">> \in actions \/ <<s, "retry">> \in actions
RecordOf(s) ==
  /\ \A att \in Attempts : <<s, att>> \in actions => Tried(s, att)
  /\ \A att \in Attempts :
       Began(s, att) => Listed(s, att) \/ (att = job[s].attempt /\ job[s].pc = "submit")
  /\ job[s].pc = "poll" => Id(s) \in actions
  /\ "SUCCEEDED" \in {outcome[s], results[s]} => Counted(s)

LEMMA RecordByStep ==
  Submissions => (Recording <=> \A s \in Steps : RecordOf(s))
<1> SUFFICES ASSUME Submissions PROVE Recording <=> \A s \in Steps : RecordOf(s)
  OBVIOUS
<1>1. ASSUME \A s \in Steps : RecordOf(s) PROVE Recording
  BY <1>1 DEF Recording, OnRecord, Submissions, RecordOf, Began, Listed, Counted
<1>2. ASSUME Recording, NEW s \in Steps PROVE RecordOf(s)
  <2>1. ASSUME NEW att \in Attempts, Began(s, att) PROVE OnRecord(s, att)
    BY <1>2, <2>1, Owned DEF Recording, Began
  <2> QED
    BY <1>2, <2>1 DEF Recording, OnRecord, RecordOf, Listed, Counted
<1> QED
  BY <1>1, <1>2

LEMMA RecordingStays ==
  ASSUME TypeOK, Owners, Calls, Submissions, Submissions', Cancelled, Jobs, Reports, Recording,
         [Next]_vars
  PROVE  Recording'
<1>1. \A s \in Steps : RecordOf(s)
  BY RecordByStep
<1>2. ASSUME \A s \in Steps : RecordOf(s)' PROVE Recording'
  <2>1. (Submissions => (Recording <=> \A s \in Steps : RecordOf(s)))'
    BY RecordByStep, PTL
  <2> QED
    BY <1>2, <2>1
<1>3. \A r \in Steps, att \in Attempts : Tried(r, att) => Tried(r, att)'
  BY StepsGoOn
\* A step that does not move.
<1>4. ASSUME NEW r \in Steps, job'[r] = job[r],
             \A att \in Attempts : <<r, att>> \in actions' <=> <<r, att>> \in actions,
             \A att \in Attempts : Began(r, att)' => Began(r, att),
             "SUCCEEDED" \in {outcome'[r], results'[r]} => Counted(r)
      PROVE  RecordOf(r)'
  <2>1. /\ \A att \in Attempts : Listed(r, att)' <=> Listed(r, att)
        /\ Counted(r)' <=> Counted(r)
    BY <1>4 DEF Listed, Counted, Attempts
  <2>2. Id(r)' = Id(r) /\ job[r].attempt \in Attempts
    BY <1>4 DEF Id, TypeOK
  <2> QED
    BY <1>1, <1>3, <1>4, <2>1, <2>2 DEF RecordOf, Id
<1>5. ASSUME UNCHANGED <<status, job, outcome, results, actions>>, Submits' \subseteq Submits
      PROVE  Recording'
  BY <1>1, <1>2, <1>4, <1>5 DEF Began, RecordOf
<1>6. CASE EnvStep
  <2>1. EnvMoves
    BY <1>6, EnvStepMoves
  <2>2. /\ Submits' \subseteq Submits /\ StatusMoves
        /\ UNCHANGED <<job, outcome, results, actions>>
    BY <2>1 DEF EnvMoves, Submits, NodeMoves, agent, book
  <2>3. ASSUME NEW s \in Steps, NEW att \in Attempts, Began(s, att)' PROVE Began(s, att)
    <3>1. <<s, att>> \in Actions
      BY Homes
    <3> QED
      BY <2>2, <2>3, <3>1 DEF Began, StatusMoves, Running
  <2> QED
    BY <1>1, <1>2, <1>4, <2>2, <2>3 DEF RecordOf
<1>7. ASSUME NEW s \in Steps, JobStep(s) PROVE Recording'
  <2>1. JobFrame(s) /\ JobMove(s)
    BY <1>7, JobStepMoves
  <2>2. /\ UNCHANGED status
        /\ \A r \in Steps : r # s => /\ job'[r] = job[r] /\ outcome'[r] = outcome[r]
                                     /\ \A att \in Attempts :
                                          <<r, att>> \in actions' <=> <<r, att>> \in actions
    BY <2>1 DEF JobFrame, env, nodes
  <2>3. \A m \in Submits' : m \in Submits \/ (Submitted(s) /\ m = Submission(s))
    BY <2>1 DEF Submits, JobMove, EndsEarly, Refused, Ended, Started, Submitted, Accepted, Lost,
       Fails, Observed, TriesAgain, AsksHold, Fencing, Quiet
  <2>4. Submission(s).action = Id(s)
    BY DEF Submission
  <2>5. results' = results \/ results' = outcome'
    BY <2>1 DEF JobMove, EndsEarly, Refused, Ended, Started, Submitted, Accepted, Lost,
       Fails, Observed, TriesAgain, AsksHold, Fencing, Over, book, Active
  <2>6. ASSUME NEW r \in Steps, r # s PROVE RecordOf(r)'
    <3>1. \A att \in Attempts : Began(r, att)' => Began(r, att)
      BY <2>2, <2>3, <2>4, <2>6 DEF Began, Id
    <3>2. "SUCCEEDED" \in {outcome'[r], results'[r]} => Counted(r)
      BY <1>1, <2>2, <2>5, <2>6 DEF RecordOf
    <3> QED
      BY <1>4, <2>2, <2>6, <3>1, <3>2
  \* The step that moves.
  <2> SUFFICES RecordOf(s)'
    BY <1>2, <2>6
  <2>7. /\ \A att \in Attempts : Began(s, att)' =>
             Began(s, att) \/ (Submitted(s) /\ att = job[s].attempt)
        /\ job[s].attempt \in Attempts
    BY <2>2, <2>3, <2>4 DEF Began, Id, TypeOK
  <2>8. ASSUME UNCHANGED actions, outcome'[s] = "SUCCEEDED" => outcome[s] = "SUCCEEDED",
               ~Submitted(s), job'[s].pc # "poll",
               job[s].pc = "submit" => ~Began(s, job[s].attempt)
        PROVE  RecordOf(s)'
    <3>1. "SUCCEEDED" \in {outcome'[s], results'[s]} => Counted(s)
      BY <1>1, <2>5, <2>8 DEF RecordOf
    <3> QED
      BY <1>1, <1>3, <2>7, <2>8, <3>1 DEF RecordOf, Listed, Counted
  <2>9. CASE EndsEarly(s)
    BY <2>8, <2>9 DEF EndsEarly, Over, Becomes, Submitted
  <2>10. CASE Refused(s)
    <3>1. ~Began(s, job[s].attempt)
      BY <2>10 DEF Refused, Submissions, Began, Id
    <3> QED
      BY <2>8, <2>10, <3>1 DEF Refused, Over, Becomes, Submitted
  <2>11. CASE Ended(s)
    <3>1. /\ job[s].pc = "poll" /\ job'[s].pc = "done" /\ UNCHANGED actions /\ ~Submitted(s)
          /\ outcome'[s] = "SUCCEEDED" => job[s].attempt # "observe"
      BY <2>11 DEF Ended, Over, Becomes, Submitted
    <3>2. outcome'[s] = "SUCCEEDED" => Counted(s)
      BY <1>1, <2>7, <3>1 DEF RecordOf, Id, Counted, Attempts
    <3>3. "SUCCEEDED" \in {outcome'[s], results'[s]} => Counted(s)
      BY <1>1, <2>5, <3>2 DEF RecordOf
    <3> QED
      BY <1>1, <1>3, <2>7, <3>1, <3>3 DEF RecordOf, Listed, Counted
  <2>12. CASE Started(s) \/ Fails(s) \/ Observed(s) \/ TriesAgain(s)
    BY <2>8, <2>12 DEF Started, Fails, Observed, TriesAgain, Becomes, Submitted, book
  <2>13. CASE Submitted(s)
    <3>1. /\ UNCHANGED <<actions, results>> /\ outcome'[s] = outcome[s]
          /\ job'[s].pc = "submit" /\ job'[s].attempt = job[s].attempt
          /\ job[s].pc = "context"
      BY <2>13 DEF Submitted, Becomes, book
    <3> QED
      BY <1>1, <1>3, <2>7, <3>1 DEF RecordOf, Listed, Counted
  <2>14. CASE AsksHold(s) \/ Fencing(s)
    BY <2>8, <2>14 DEF AsksHold, Fencing, Becomes, Submitted, book
  <2>15. CASE Accepted(s) \/ Lost(s)
    <3>1. /\ Noted(s) /\ job[s].pc \in {"submit", "poll"} /\ ~Submitted(s)
          /\ job'[s].pc \in {"poll", "fence", "done"} /\ job'[s].attempt = job[s].attempt
          /\ outcome'[s] = "SUCCEEDED" => outcome[s] = "SUCCEEDED"
      BY <2>15 DEF Accepted, Lost, Over, Becomes, Submitted
    <3>2. /\ \A att \in Attempts : Listed(s, att) => Listed(s, att)'
          /\ Counted(s) => Counted(s)'
          /\ Listed(s, job[s].attempt)'
      BY <2>7, <3>1 DEF Noted, Listed, Counted, Id, Attempts
    <3>3. \A att \in Attempts : <<s, att>> \in actions' => Tried(s, att)'
      <4>1. Tried(s, job[s].attempt)
        BY <3>1 DEF Tried
      <4> QED
        BY <1>1, <1>3, <2>7, <3>1, <4>1 DEF Noted, RecordOf
    <3>4. Id(s)' = Id(s) /\ Id(s) \in actions'
      BY <3>1 DEF Id, Noted
    <3>5. "SUCCEEDED" \in {outcome'[s], results'[s]} => Counted(s)'
      BY <1>1, <2>5, <3>1, <3>2 DEF RecordOf
    <3>6. \A att \in Attempts : Began(s, att)' => Listed(s, att)'
      BY <1>1, <2>7, <3>1, <3>2 DEF RecordOf
    <3> QED
      BY <3>3, <3>4, <3>5, <3>6 DEF RecordOf
  <2> QED
    BY <2>1, <2>9, <2>10, <2>11, <2>12, <2>13, <2>14, <2>15 DEF JobMove
<1>8. ASSUME NEW n \in Nodes, CancelStep(n) PROVE Recording'
  <2>1. CancelFrame(n) /\ CancelMove(n)
    BY <1>8, CancelStepMoves
  <2>2. Submits' = Submits
    BY <2>1 DEF CancelMove, AsksFence, FenceFails, FenceStands, Stops, Allows, Closes, SideQuiet,
       Submits
  <2> QED
    BY <1>5, <2>1, <2>2 DEF CancelFrame, env, nodes
<1>9. CASE TaskStep
  <2>1. UNCHANGED <<status, job, outcome, actions, wire>>
    BY <1>9, TaskStepFrame DEF TaskFrame, env, nodes
  <2>2. CASE UNCHANGED results
    BY <1>5, <2>1, <2>2 DEF Submits
  <2>3. CASE CancelEnds
    <3>1. finish = "release" /\ results' = tally
      BY <2>3 DEF CancelEnds
    <3>2. ASSUME NEW s \in Steps, tally[s] = "SUCCEEDED" PROVE Counted(s)
      <4>1. Last(s) # "absent"
        BY <3>1, <3>2 DEF Reports, BorneOut
      <4>2. Began(s, "retry") \/ Began(s, "first")
        BY <4>1 DEF Last, Began
      <4>3. job[s].pc # "submit"
        BY <3>1 DEF Cancelled, Submitting
      <4> QED
        BY <1>1, <4>2, <4>3 DEF RecordOf, Listed, Counted, Attempts
    <3>3. ASSUME NEW s \in Steps PROVE RecordOf(s)'
      <4>1. "SUCCEEDED" \in {outcome'[s], results'[s]} => Counted(s)
        BY <1>1, <2>1, <3>1, <3>2 DEF RecordOf
      <4> QED
        BY <1>4, <2>1, <4>1 DEF Began, Submits
    <3> QED
      BY <1>2, <3>3
  <2> QED
    BY <1>9, <2>2, <2>3
    DEF TaskStep, ExecuteStep, Capture, PreflightEnds, ExecuteEnds, Cancel, FinishStep, AllFenced,
        StatusesRead, CancelFails, book
<1>10. CASE UNCHANGED vars
  BY <1>5, <1>10 DEF vars, env, nodes, agent, book, net, Submits
<1> QED
  BY <1>6, <1>7, <1>8, <1>9, <1>10, StepKinds

\* What a step has come to stays borne out while nothing of it is under way.
LEMMA StaysBorneOut ==
  ASSUME StatusMoves, NEW s \in Steps, NEW r,
         \A att \in Attempts : status[<<s, att>>] \notin Running,
         \A att \in Attempts : \A m \in Submits : m.action = <<s, att>> => ~Admitted(m),
         status[<<s, "retry">>] # "absent" => status[<<s, "first">>] # "SUCCEEDED",
         BorneOut(s, r)
  PROVE  BorneOut(s, r)'
<1>1. \A att \in Attempts :
        \/ status'[<<s, att>>] = status[<<s, att>>]
        \/ status[<<s, att>>] # "absent" /\ status'[<<s, att>>] = "UNKNOWN"
        \/ status[<<s, att>>] = "UNSAVED" /\ status'[<<s, att>>] = "absent"
  <2> SUFFICES ASSUME NEW att \in Attempts
               PROVE  \/ status'[<<s, att>>] = status[<<s, att>>]
                      \/ status[<<s, att>>] # "absent" /\ status'[<<s, att>>] = "UNKNOWN"
                      \/ status[<<s, att>>] = "UNSAVED" /\ status'[<<s, att>>] = "absent"
    OBVIOUS
  <2>1. <<s, att>> \in Actions
    BY Homes
  <2> QED
    BY <2>1 DEF StatusMoves
<1>2. \/ Last(s)' = Last(s)
      \/ Last(s) # "absent" /\ Last(s)' = "UNKNOWN"
      \/ Last(s) = "UNSAVED" /\ Last(s)' # "SUCCEEDED"
  BY <1>1 DEF Last, Attempts
<1> QED
  BY <1>2 DEF BorneOut

LEMMA ReportsStay ==
  ASSUME TypeOK, Owners, Calls, Submissions, Submissions', Cancelled, Captured, Jobs, Accounted,
         Recording, Failures, Reports, [Next]_vars
  PROVE  Reports'
<1> DEFINE Part1 == Active => \A s \in Steps : job[s].pc = "done" =>
                       /\ results[s] = outcome[s]
                       /\ outcome[s] # "UNKNOWN" => BorneOut(s, outcome[s])
           Part2 == finish = "release" => \A s \in Steps : BorneOut(s, tally[s])
           Part3 == state \in Settled =>
                       /\ \A s \in Steps : BorneOut(s, results[s])
                       /\ \A a \in Actions : status[a] \notin Running
                       /\ \A m \in Submits : Past(m.node, m)
<1>1. Part1 /\ Part2 /\ Part3 /\ (Part1' /\ Part2' /\ Part3' => Reports')
  BY DEF Reports
<1> HIDE DEF Part1, Part2, Part3
<1>2. \A a \in Actions : status[a] \in Running => active[Home[a]] # None
  BY RecordAssumption DEF Owners
<1>3. \A s \in Steps, att \in Attempts : <<s, att>> \in Actions /\ Home[<<s, att>>] \in Nodes
  BY Homes
\* A step that is repeated has failed before.
<1>0. \A s \in Steps :
        status[<<s, "retry">>] # "absent" => status[<<s, "first">>] # "SUCCEEDED"
  BY DEF Submissions, Tried, Failures, Attempts
\* Once nodes are stopped, nothing of the task is under way, or can begin.
<1>4. AllAt({"stopped", "allow", "done"}) =>
        /\ \A a \in Actions : status[a] \notin Running
        /\ \A m \in Submits : Past(m.node, m)
  <2> SUFFICES ASSUME AllAt({"stopped", "allow", "done"})
               PROVE  /\ \A a \in Actions : status[a] \notin Running
                      /\ \A m \in Submits : Past(m.node, m)
    OBVIOUS
  <2>1. \A n \in Nodes : active[n] = None /\ Past(n, authority[n])
    BY DEF AllAt, Cancelled
  <2>2. \A a \in Actions : status[a] \notin Running
    BY <1>2, <2>1, Homes
  <2>3. ASSUME NEW m \in Submits
        PROVE  Past(m.node, m)
    <3>1. authority[m.node] = [boot |-> m.boot, epoch |-> m.epoch] /\ m.node \in Nodes
      BY <2>3, Homes DEF Submissions
    <3>2. Past(m.node, authority[m.node])
      BY <2>1, <3>1
    <3> QED
      BY <3>1, <3>2 DEF Past
  <2> QED
    BY <2>2, <2>3
<1>5. CASE EnvStep
  <2>1. EnvMoves
    BY <1>5, EnvStepMoves
  <2>2. /\ Submits' \subseteq Submits /\ StatusMoves
        /\ UNCHANGED <<state, finish, tally, job, outcome, results>>
    BY <2>1 DEF EnvMoves, Submits, NodeMoves, agent, task, cancelling, book
  <2>3. Part1'
    <3> SUFFICES ASSUME Active, NEW s \in Steps, job[s].pc = "done",
                        outcome[s] # "UNKNOWN" => BorneOut(s, outcome[s])
                 PROVE  outcome[s] # "UNKNOWN" => BorneOut(s, outcome[s])'
      BY <1>1, <2>2 DEF Part1, Active
    <3> SUFFICES ASSUME outcome[s] # "UNKNOWN"
                 PROVE  BorneOut(s, outcome[s])'
      OBVIOUS
    <3>1. /\ \A att \in Attempts : status[<<s, att>>] \notin Running
          /\ \A m \in Submits : m.from # s
      BY DEF Accounted
    <3>2. \A att \in Attempts : \A m \in Submits : m.action # <<s, att>>
      BY <3>1, Owned
    <3> PICK r : r = outcome[s]
      OBVIOUS
    <3>3. BorneOut(s, r)'
      BY <1>0, <2>2, <3>1, <3>2, StaysBorneOut
    <3> QED
      BY <2>2, <3>3
  <2>4. ASSUME \A a \in Actions : status[a] \notin Running,
               \A m \in Submits : Past(m.node, m)
        PROVE  /\ \A s \in Steps : \A r : BorneOut(s, r) => BorneOut(s, r)'
               /\ \A a \in Actions : status'[a] \notin Running
               /\ \A m \in Submits' : Past(m.node, m)'
    <3>1. \A m \in Submits : ~Admitted(m)
      BY <2>4, AdmittedInTime
    <3>2. \A s \in Steps : \A r : BorneOut(s, r) => BorneOut(s, r)'
      BY <1>0, <1>3, <2>2, <2>4, <3>1, StaysBorneOut
    <3>3. \A a \in Actions : status'[a] \notin Running
      BY <2>2, <2>4, <3>1 DEF StatusMoves, Running
    <3>4. \A m \in Submits : m.node \in Nodes /\ m.boot \in Nat /\ m.epoch \in Nat
      BY DEF Submits, TypeOK, Message
    <3>5. \A m \in Submits' : Past(m.node, m)'
      BY <2>2, <2>4, <3>4, PastStays
    <3> QED
      BY <3>2, <3>3, <3>5
  <2>5. Part2'
    <3> SUFFICES ASSUME finish = "release", NEW s \in Steps PROVE BorneOut(s, tally[s])'
      BY <2>2 DEF Part2
    <3> PICK r : r = tally[s]
      OBVIOUS
    <3>1. BorneOut(s, r)
      BY <1>1 DEF Part2
    <3>2. BorneOut(s, r)'
      BY <1>4, <2>4, <3>1 DEF Cancelled
    <3> QED
      BY <2>2, <3>2
  <2>6. Part3'
    <3> SUFFICES ASSUME state \in Settled
                 PROVE  /\ \A s \in Steps : BorneOut(s, results[s])'
                        /\ \A a \in Actions : status'[a] \notin Running
                        /\ \A m \in Submits' : Past(m.node, m)'
      BY <2>2 DEF Part3
    <3>1. ASSUME NEW s \in Steps PROVE BorneOut(s, results[s])'
      <4> PICK r : r = results[s]
        OBVIOUS
      <4>1. BorneOut(s, r)'
        BY <1>1, <2>4 DEF Part3
      <4> QED
        BY <2>2, <4>1
    <3> QED
      BY <1>1, <2>4, <3>1 DEF Part3
  <2> QED
    BY <1>1, <2>3, <2>5, <2>6
\* While no node moves, what is borne out stays so.
<1>6. ASSUME UNCHANGED env
      PROVE  /\ \A s \in Steps : \A r : BorneOut(s, r) <=> BorneOut(s, r)'
             /\ \A m : Past(m.node, m) <=> Past(m.node, m)'
  BY <1>6 DEF BorneOut, Last, Past, env, nodes
<1>7. ASSUME UNCHANGED <<env, finish, tally>> PROVE Part2'
  <2> SUFFICES ASSUME finish = "release", NEW s \in Steps PROVE BorneOut(s, tally[s])'
    BY <1>7 DEF Part2
  <2> PICK r : r = tally[s]
    OBVIOUS
  <2>1. BorneOut(s, r)'
    BY <1>1, <1>6, <1>7 DEF Part2
  <2> QED
    BY <1>7, <2>1
<1>8. ASSUME UNCHANGED <<env, state, results>>, state \in Settled => Submits' = Submits PROVE Part3'
  <2> SUFFICES ASSUME state \in Settled
               PROVE  /\ \A s \in Steps : BorneOut(s, results[s])'
                      /\ \A a \in Actions : status'[a] \notin Running
                      /\ \A m \in Submits : Past(m.node, m)'
    BY <1>8 DEF Part3
  <2>1. ASSUME NEW s \in Steps PROVE BorneOut(s, results[s])'
    <3> PICK r : r = results[s]
      OBVIOUS
    <3>1. BorneOut(s, r)'
      BY <1>1, <1>6, <1>8 DEF Part3
    <3> QED
      BY <1>8, <3>1
  <2> QED
    BY <1>1, <1>6, <1>8, <2>1 DEF Part3, env, nodes
<1>9. ASSUME UNCHANGED <<env, job, outcome, results>>, Active' => Active PROVE Part1'
  <2> SUFFICES ASSUME Active, NEW s \in Steps, job[s].pc = "done", outcome[s] # "UNKNOWN"
               PROVE  BorneOut(s, outcome[s])'
    BY <1>1, <1>9 DEF Part1
  <2> PICK r : r = outcome[s]
    OBVIOUS
  <2>1. BorneOut(s, r)'
    BY <1>1, <1>6, <1>9 DEF Part1
  <2> QED
    BY <1>9, <2>1
<1>10. ASSUME NEW s \in Steps, JobStep(s) PROVE Reports'
  <2>1. JobFrame(s) /\ JobMove(s)
    BY <1>10, JobStepMoves
  <2>2. /\ UNCHANGED <<env, state, finish, tally, status>>
        /\ \A r \in Steps : r # s => job'[r] = job[r] /\ outcome'[r] = outcome[r]
    BY <2>1 DEF JobFrame, env, nodes, task, cancelling
  <2>3. Part2'
    BY <1>7, <2>2
  <2>4. ~Active => results' = results /\ Submits' = Submits
    BY <2>1 DEF Submits, JobMove, EndsEarly, Refused, Ended, Started, Submitted, Accepted, Lost,
       Fails, Observed, TriesAgain, AsksHold, Fencing, Quiet, Over, book, Active
  <2>5. state \in Settled => ~Active
    BY DEF Settled, Active
  <2>6. Part3'
    <3>1. CASE state \in Settled
      BY <1>8, <2>2, <2>4, <2>5, <3>1
    <3>2. CASE state \notin Settled
      BY <2>2, <3>2 DEF Part3
    <3> QED
      BY <3>1, <3>2
  \* The step that ends.
  <2>7. /\ results' = results \/ results' = outcome'
        /\ Active /\ job'[s].pc = "done" => results' = outcome'
    BY <2>1 DEF JobMove, EndsEarly, Refused, Ended, Started, Submitted, Accepted, Lost,
       Fails, Observed, TriesAgain, AsksHold, Fencing, Over, Becomes, book, Active
  <2>8. ASSUME Active, job'[s].pc = "done", outcome'[s] # "UNKNOWN"
        PROVE  BorneOut(s, outcome'[s])
    <3>1. \A att \in Attempts :
            status[<<s, att>>] # "absent" => Tried(s, att)
      BY DEF Submissions
    <3>2. job[s].attempt \in Attempts /\ Id(s) = <<s, job[s].attempt>>
      BY DEF TypeOK, Id
    <3>3. \/ Last(s) = "absent" /\ status[<<s, "first">>] = "absent"
          \/ Last(s) = status[<<s, "first">>] /\ status[<<s, "retry">>] = "absent"
          \/ Last(s) = status[<<s, "retry">>]
      BY DEF Last
    <3>4. job[s].attempt # "first" => status[<<s, "first">>] \in {"FAILED", "UNKNOWN"}
      BY DEF Failures
    <3>5. job[s].attempt # "retry" => status[<<s, "retry">>] = "absent"
      BY <3>1 DEF Tried, Attempts
    <3>6. CASE EndsEarly(s)
      <4>1. /\ job[s].pc \in {"waiting", "context", "recover", "again"}
            /\ outcome'[s] \in {"FAILED", "BLOCKED", "STALE"}
        BY <3>6 DEF EndsEarly, Over, Becomes
      <4>2. Last(s) # "SUCCEEDED"
        <5>1. CASE job[s].pc \in {"waiting", "context"}
          <6>1. status[<<s, job[s].attempt>>] = "absent"
            BY <3>1, <3>2, <5>1 DEF Tried
          <6> QED
            BY <3>2, <3>3, <3>4, <3>5, <6>1 DEF Attempts
        <5>2. CASE job[s].pc = "recover"
          BY <3>3, <3>5, <5>2 DEF Failures, Jobs
        <5>3. CASE job[s].pc = "again"
          BY <3>3, <3>4, <3>5, <5>3 DEF Jobs
        <5> QED
          BY <4>1, <5>1, <5>2, <5>3
      <4> QED
        BY <4>1, <4>2 DEF BorneOut
    <3>7. CASE Refused(s)
      <4>1. status[Id(s)] = "absent" /\ outcome'[s] = "FAILED"
        BY <3>7 DEF Refused, Over, Becomes, Submissions
      <4>2. Last(s) # "SUCCEEDED"
        BY <3>2, <3>3, <3>4, <3>5, <4>1 DEF Attempts
      <4> QED
        BY <4>1, <4>2 DEF BorneOut
    <3>8. CASE Ended(s)
      <4>1. /\ status[Id(s)] \in Known /\ outcome'[s] = status[Id(s)]
            /\ ~(job[s].attempt = "observe" /\ status[Id(s)] = "SUCCEEDED")
        BY <2>8, <3>8 DEF Ended, Over, Becomes
      <4>2. CASE job[s].attempt = "observe"
        <5>1. Last(s) # "SUCCEEDED" /\ outcome'[s] # "SUCCEEDED"
          BY <3>3, <3>4, <3>5, <4>1, <4>2
        <5> QED
          BY <5>1 DEF BorneOut
      <4>3. CASE job[s].attempt # "observe"
        <5>1. Last(s) = status[Id(s)]
          BY <3>2, <3>5, <4>1, <4>3 DEF Attempts, Last, Known
        <5> QED
          BY <4>1, <5>1 DEF BorneOut
      <4> QED
        BY <4>2, <4>3
    <3>9. CASE Fencing(s)
      BY <2>8, <3>9 DEF Fencing, Becomes, Jobs
    <3> QED
      BY <2>1, <2>8, <3>6, <3>7, <3>8, <3>9
      DEF JobMove, Started, Submitted, Accepted, Lost, Fails, Observed, TriesAgain, AsksHold,
          Over, Becomes
  <2>9. Part1'
    <3> SUFFICES ASSUME Active, NEW r \in Steps, job'[r].pc = "done"
                 PROVE  /\ results'[r] = outcome'[r]
                        /\ outcome'[r] # "UNKNOWN" => BorneOut(r, outcome[r])'
      BY <2>2 DEF Part1, Active
    <3> PICK o : o = outcome'[r]
      OBVIOUS
    <3>1. results'[r] = o /\ (o # "UNKNOWN" => BorneOut(r, o))
      <4>1. CASE r = s
        BY <2>7, <2>8, <4>1
      <4>2. CASE r # s
        BY <1>1, <2>2, <2>7, <4>2 DEF Part1
      <4> QED
        BY <4>1, <4>2
    <3> QED
      BY <1>6, <2>2, <3>1
  <2> QED
    BY <1>1, <2>3, <2>6, <2>9
<1>11. ASSUME NEW n \in Nodes, CancelStep(n) PROVE Reports'
  <2>1. CancelFrame(n) /\ CancelMove(n)
    BY <1>11, CancelStepMoves
  <2>2. UNCHANGED <<env, state, finish, tally, outcome, results, job>>
    BY <2>1 DEF CancelFrame
  <2>3. Submits' = Submits
    BY <2>1 DEF CancelMove, AsksFence, FenceFails, FenceStands, Stops, Allows, Closes, SideQuiet,
       Submits
  <2> QED
    BY <1>1, <1>7, <1>8, <1>9, <2>2, <2>3 DEF Active
<1>12. CASE TaskStep
  <2>1. UNCHANGED <<env, job, outcome, actions, status, wire>> /\ Submits' = Submits
    BY <1>12, TaskStepFrame DEF TaskFrame, env, nodes, Submits
  <2>2. CASE \E n \in Nodes : Capture(n)
    <3>1. UNCHANGED <<state, finish, tally, results>>
      BY <2>2 DEF Capture, cancelling, book
    <3> QED
      BY <1>1, <1>7, <1>8, <1>9, <2>1, <3>1 DEF Active
  <2>3. CASE AllFenced \/ Cancel \/ CancelFails
    <3>1. /\ UNCHANGED <<tally, results>> /\ finish' # "release"
          /\ state' = state \/ state' \in {"CANCELLING", "UNKNOWN"}
      BY <2>3 DEF AllFenced, Cancel, CancelFails, book, task
    <3>2. Part2'
      BY <3>1 DEF Part2
    <3>3. Part1'
      BY <1>9, <2>1, <3>1 DEF Active
    <3>4. Part3'
      <4>1. CASE state' = state
        BY <1>8, <2>1, <3>1, <4>1
      <4>2. CASE state' \in {"CANCELLING", "UNKNOWN"}
        BY <4>2 DEF Part3, Settled
      <4> QED
        BY <3>1, <4>1, <4>2
    <3> QED
      BY <1>1, <3>2, <3>3, <3>4
  <2>4. CASE PreflightEnds
    <3>1. /\ executing = "preflight" /\ UNCHANGED <<finish, tally, results>>
          /\ state' = IF Active THEN "FAILED" ELSE state
      BY <2>4 DEF PreflightEnds, cancelling, book
    <3>2. Part1' /\ Part2'
      BY <1>7, <1>9, <2>1, <3>1 DEF Active
    <3>3. CASE ~Active
      BY <1>1, <1>8, <2>1, <3>1, <3>2, <3>3 DEF Active
    <3>4. CASE Active
      <4>1. ASSUME NEW s \in Steps, NEW att \in Attempts PROVE ~Tried(s, att)
        BY <3>1 DEF Captured, Jobs, Tried
      <4>2. ASSUME NEW s \in Steps PROVE BorneOut(s, results[s])
        <5>1. status[<<s, "retry">>] = "absent" /\ status[<<s, "first">>] = "absent"
          BY <4>1 DEF Submissions, Attempts
        <5>2. results[s] # "SUCCEEDED"
          BY <4>1 DEF Recording, Attempts
        <5> QED
          BY <5>1, <5>2 DEF BorneOut, Last
      <4>3. \A a \in Actions : status[a] \notin Running
        BY <4>1 DEF Submissions, Actions, Running
      <4>4. \A m \in Submits : FALSE
        BY <4>1 DEF Submissions
      <4>5. \A s \in Steps : BorneOut(s, results[s])'
        <5> SUFFICES ASSUME NEW s \in Steps PROVE BorneOut(s, results[s])'
          OBVIOUS
        <5> PICK r : r = results[s]
          OBVIOUS
        <5> QED
          BY <1>6, <2>1, <3>1, <4>2
      <4>6. Part3'
        BY <2>1, <4>3, <4>4, <4>5 DEF Part3
      <4> QED
        BY <1>1, <3>2, <4>6
    <3> QED
      BY <3>3, <3>4
  <2>5. CASE ExecuteEnds
    <3>1. /\ \A s \in Steps : job[s].pc = "done"
          /\ UNCHANGED <<finish, tally, results>>
          /\ state' = IF Active THEN Verdict ELSE state
      BY <2>5 DEF ExecuteEnds, cancelling, book
    <3>2. Verdict # "RUNNING"
      BY DEF Verdict
    <3>3. Part1' /\ Part2'
      BY <1>7, <1>9, <2>1, <3>1, <3>2 DEF Active
    <3>4. CASE ~Active
      BY <1>1, <1>8, <2>1, <3>1, <3>3, <3>4 DEF Active
    <3>5. CASE Active /\ Verdict = "UNKNOWN"
      BY <1>1, <3>1, <3>3, <3>5 DEF Part3, Settled
    <3>6. CASE Active /\ Verdict # "UNKNOWN"
      <4>1. \A s \in Steps : outcome[s] # "UNKNOWN"
        BY <3>6 DEF Verdict
      <4>2. \A s \in Steps : BorneOut(s, results[s])
        BY <1>1, <3>1, <3>6, <4>1 DEF Part1
      <4>3. /\ \A a \in Actions : status[a] \notin Running
            /\ \A m \in Submits : FALSE
        <5>1. /\ \A s \in Steps, att \in Attempts : status[<<s, att>>] \notin Running
              /\ \A m \in Submits : m.from \in Steps
          BY <3>1, <3>6, <4>1 DEF Accounted, Submissions
        <5>2. \A m \in Submits : FALSE
          BY <3>1, <3>6, <4>1, <5>1 DEF Accounted
        <5> QED
          BY <5>1, <5>2 DEF Actions
      <4>4. \A s \in Steps : BorneOut(s, results[s])'
        <5> SUFFICES ASSUME NEW s \in Steps PROVE BorneOut(s, results[s])'
          OBVIOUS
        <5> PICK r : r = results[s]
          OBVIOUS
        <5> QED
          BY <1>6, <2>1, <3>1, <4>2
      <4>5. Part3'
        BY <2>1, <4>3, <4>4 DEF Part3
      <4> QED
        BY <1>1, <3>3, <4>5
    <3> QED
      BY <3>4, <3>5, <3>6
  <2>6. CASE StatusesRead
    <3>1. /\ finish = "wait" /\ AllAt({"stopped"}) /\ tally' = Tally
          /\ \A a \in actions : status[a] \in Known
          /\ UNCHANGED <<state, results>>
      BY <2>6 DEF StatusesRead, task, book
    <3>2. Part1' /\ Part3'
      BY <1>8, <1>9, <2>1, <3>1 DEF Active
    <3>3. ASSUME NEW s \in Steps PROVE BorneOut(s, Tally[s])
      <4>1. job[s].pc # "submit"
        BY <3>1 DEF Cancelled, Submitting
      <4>2. RecordOf(s)
        BY RecordByStep
      <4>3. /\ <<s, "retry">> \notin actions => status[<<s, "retry">>] = "absent"
            /\ <<s, "retry">> \notin actions /\ <<s, "first">> \notin actions =>
                 status[<<s, "first">>] = "absent" /\ results[s] # "SUCCEEDED"
        BY <4>1, <4>2 DEF RecordOf, Began, Listed, Counted, Attempts
      <4>4. /\ <<s, "retry">> \in actions => status[<<s, "retry">>] \in Known
            /\ <<s, "first">> \in actions => status[<<s, "first">>] \in Known
        BY <3>1
      <4>5. Tally[s] = IF <<s, "retry">> \in actions THEN status[<<s, "retry">>]
                       ELSE IF <<s, "first">> \in actions THEN status[<<s, "first">>]
                       ELSE IF results[s] # "none" THEN results[s] ELSE "CANCELLED"
        BY DEF Tally
      <4>6. CASE <<s, "retry">> \in actions \/ <<s, "first">> \in actions
        BY <4>3, <4>4, <4>5, <4>6 DEF BorneOut, Last, Known
      <4>7. CASE <<s, "retry">> \notin actions /\ <<s, "first">> \notin actions
        <5>1. Last(s) = "absent" /\ Tally[s] # "SUCCEEDED"
          BY <4>3, <4>5, <4>7 DEF Last
        <5> QED
          BY <5>1 DEF BorneOut
      <4> QED
        BY <4>6, <4>7
    <3>4. Part2'
      <4> SUFFICES ASSUME NEW s \in Steps PROVE BorneOut(s, tally[s])'
        BY DEF Part2
      <4> PICK r : r = Tally[s]
        OBVIOUS
      <4> QED
        BY <1>6, <2>1, <3>1, <3>3
    <3> QED
      BY <1>1, <3>2, <3>4
  <2>7. CASE CancelEnds
    <3>1. /\ finish = "release" /\ AllAt({"done"}) /\ finish' = "none"
          /\ state' = "CANCELLED" /\ results' = tally /\ UNCHANGED tally
      BY <2>7 DEF CancelEnds
    <3>2. /\ \A a \in Actions : status[a] \notin Running
          /\ \A m \in Submits : Past(m.node, m)
      BY <1>4, <3>1 DEF AllAt
    <3>3. \A s \in Steps : BorneOut(s, results[s])'
      <4> SUFFICES ASSUME NEW s \in Steps PROVE BorneOut(s, results[s])'
        OBVIOUS
      <4> PICK r : r = tally[s]
        OBVIOUS
      <4> QED
        BY <1>1, <1>6, <2>1, <3>1 DEF Part2
    <3>4. Part3'
      BY <1>6, <2>1, <3>2, <3>3 DEF Part3
    <3>5. Part1' /\ Part2'
      BY <3>1 DEF Part1, Part2, Active
    <3> QED
      BY <1>1, <3>4, <3>5
  <2> QED
    BY <1>12, <2>2, <2>3, <2>4, <2>5, <2>6, <2>7 DEF TaskStep, ExecuteStep, FinishStep
<1>13. CASE UNCHANGED vars
  <2>1. /\ UNCHANGED <<env, state, finish, tally, job, outcome, results>>
        /\ Submits' = Submits
    BY <1>13 DEF vars, agent, task, cancelling, book, net, Submits
  <2> QED
    BY <1>1, <1>7, <1>8, <1>9, <2>1 DEF Active
<1> QED
  BY <1>5, <1>10, <1>11, <1>12, <1>13, StepKinds

\* A node that is lost to a task stays so, and loses the end of no action before.
LEMMA BlindStays ==
  ASSUME TypeOK, Owners, Submissions, Calls, Cancelled, Captured, [Next]_vars,
         NEW n \in Nodes, authority[n] # None
  PROVE  /\ Blind(n) => Blind(n)'
         /\ \A a \in Actions : Home[a] = n /\ status[a] \in {"FAILED", "SUCCEEDED"} =>
              status'[a] = status[a] \/ Blind(n)'
<1> PICK e \in Authority : e = authority[n]
  BY AuthoritiesHold
<1>1. /\ authority'[n] = e /\ Reached(n, e) /\ e.boot \in Nat /\ e.epoch \in Nat
      /\ GateMoves /\ StatusMoves
  BY AuthoritiesHold, EveryStepMoves DEF Captured, Authority, NodeMoves
<1>2. Past(n, e) => Past(n, e)'
  BY <1>1, PastStays
<1>3. boot'[n] > boot[n] => Past(n, e)'
  BY <1>1, NodesGoOn DEF Reached, Past, SameAuthority
<1>4. Past(n, e)' \/ admission'[n] = "UNKNOWN" => Blind(n)'
  BY <1>1 DEF Blind, Past
<1>5. Blind(n) => Blind(n)'
  BY <1>1, <1>2, <1>3, <1>4, NodesGoOn DEF Blind, GateMoves, Forward
<1>6. ASSUME NEW a \in Actions, Home[a] = n, status[a] \in {"FAILED", "SUCCEEDED"}
      PROVE  status'[a] = status[a] \/ Blind(n)'
  BY <1>1, <1>3, <1>4, <1>6 DEF StatusMoves, Running
<1> QED
  BY <1>5, <1>6

\* What the recovery of s rests on.
Rests(s) ==
  /\ job[s].attempt # "first" => recovered
  /\ job[s].pc = "recover" => ~recovered /\ s \in Recoverable
  /\ job[s].pc = "recover" \/ job[s].attempt # "first" =>
       status[<<s, "first">>] = "FAILED" \/ Blind(NodeOf[s])
  /\ job[s].pc = "again" \/ job[s].attempt = "retry" =>
       status[<<s, "observe">>] = "SUCCEEDED" \/ Blind(NodeOf[s])

LEMMA RecoveryStays ==
  ASSUME TypeOK, Owners, Calls, Submissions, Cancelled, Captured, Jobs, Recovery, [Next]_vars
  PROVE  Recovery'
<1> DEFINE Locks == \A s, r \in Steps :
                      NodeOf[s] = NodeOf[r] /\ HoldsLock(s) /\ HoldsLock(r) => s = r
           One == \A s, r \in Steps : job[s].attempt # "first" /\ job[r].attempt # "first" => s = r
<1>1. Locks /\ One /\ \A s \in Steps : Rests(s)
  BY DEF Recovery, Rests
<1>2. Locks' /\ One' /\ (\A s \in Steps : Rests(s)') => Recovery'
  BY DEF Recovery, Rests
\* What has ended as the recovery wants it still has, or the node is lost.
<1>3. ASSUME NEW s \in Steps, job[s].pc # "waiting"
      PROVE  /\ \/ status[<<s, "first">>] = "FAILED"
                \/ Blind(NodeOf[s])
                => status'[<<s, "first">>] = "FAILED" \/ Blind(NodeOf[s])'
             /\ \/ status[<<s, "observe">>] = "SUCCEEDED"
                \/ Blind(NodeOf[s])
                => status'[<<s, "observe">>] = "SUCCEEDED" \/ Blind(NodeOf[s])'
  <2>1. NodeOf[s] \in Nodes /\ authority[NodeOf[s]] # None
    BY <1>3, Homes DEF Captured
  <2>2. \A att \in {"first", "observe"} : <<s, att>> \in Actions /\ Home[<<s, att>>] = NodeOf[s]
    BY Homes DEF Attempts
  <2> QED
    BY <2>1, <2>2, BlindStays
<1>4. ASSUME NEW s \in Steps, job'[s] = job[s],
             recovered' = recovered \/ (recovered' = TRUE /\ job[s].pc # "recover")
      PROVE  Rests(s)'
  <2>1. job[s].pc = "recover" \/ job[s].attempt # "first" \/ job[s].pc = "again"
          \/ job[s].attempt = "retry" => job[s].pc # "waiting"
    BY DEF Jobs
  <2>2. recovered \in BOOLEAN
    BY DEF TypeOK
  <2> QED
    BY <1>1, <1>3, <1>4, <2>1, <2>2 DEF Rests
<1>5. ASSUME UNCHANGED <<job, recovered>> PROVE Recovery'
  <2>1. Locks' /\ One'
    BY <1>1, <1>5 DEF HoldsLock
  <2> QED
    BY <1>2, <1>4, <1>5, <2>1
<1>6. CASE EnvStep
  BY <1>5, <1>6, EnvStepMoves DEF EnvMoves, agent, book
<1>7. ASSUME NEW s \in Steps, JobStep(s) PROVE Recovery'
  <2>1. JobFrame(s) /\ JobMove(s) /\ UNCHANGED <<status, authority, admission, boot, epoch>>
    BY <1>7, JobStepMoves DEF JobFrame, env, nodes, task
  <2>2. \A r \in Steps : r # s => job'[r] = job[r]
    BY <2>1 DEF JobFrame
  <2>3. \A r \in Steps : (HoldsLock(r)' <=> HoldsLock(r)) \/ r = s
    BY <2>2 DEF HoldsLock
  <2>4. HoldsLock(s)' => HoldsLock(s) \/ LockFree(s)
    BY <2>1 DEF HoldsLock, JobMove, EndsEarly, Refused, Ended, Started, Submitted, Accepted,
       Lost, Fails, Observed, TriesAgain, AsksHold, Fencing, Over, Becomes
  <2>5. Locks'
    BY <1>1, <2>3, <2>4 DEF LockFree
  <2>6. job'[s].attempt = job[s].attempt \/ TriesAgain(s)
    BY <2>1 DEF JobMove, EndsEarly, Refused, Ended, Started, Submitted, Accepted,
       Lost, Fails, Observed, AsksHold, Fencing, Over, Becomes
  <2>7. recovered' = recovered \/ (TriesAgain(s) /\ job[s].pc = "recover" /\ recovered' = TRUE)
    BY <2>1 DEF JobMove, EndsEarly, Refused, Ended, Started, Submitted, Accepted,
       Lost, Fails, Observed, TriesAgain, AsksHold, Fencing, Noted, book
  <2>8. One'
    <3>1. CASE job[s].pc = "recover"
      <4>1. \A r \in Steps : job[r].attempt = "first"
        BY <1>1, <3>1 DEF Rests
      <4> QED
        BY <2>2, <4>1
    <3>2. CASE job[s].pc # "recover"
      <4>1. job'[s].attempt # "first" => job[s].attempt # "first"
        BY <2>6, <3>2 DEF TriesAgain, Jobs
      <4> QED
        BY <1>1, <2>2, <4>1
    <3> QED
      BY <3>1, <3>2
  <2>9. \A r \in Steps : r # s => Rests(r)'
    <3> SUFFICES ASSUME NEW r \in Steps, r # s PROVE Rests(r)'
      OBVIOUS
    <3>1. job[s].pc = "recover" => job[r].pc # "recover"
      BY <1>1, RecoveryAssumption DEF Rests, HoldsLock
    <3> QED
      BY <1>4, <2>2, <2>7, <3>1
  <2>10. Rests(s)'
    <3>1. Blind(NodeOf[s])' <=> Blind(NodeOf[s])
      BY <2>1 DEF Blind, Past
    <3>2. CASE Fails(s)
      <4>1. /\ s \in Recoverable /\ ~recovered /\ job[s].attempt = "first"
            /\ status[<<s, "first">>] = "FAILED"
            /\ job'[s].pc = "recover" /\ job'[s].attempt = "first" /\ recovered' = recovered
        BY <3>2 DEF Fails, RecoveryLeft, Id, Becomes, book
      <4> QED
        BY <2>1, <4>1 DEF Rests
    <3>3. CASE Observed(s)
      <4>1. /\ job[s].attempt = "observe" /\ status[<<s, "observe">>] = "SUCCEEDED"
            /\ job'[s].pc = "again" /\ job'[s].attempt = "observe" /\ recovered' = recovered
        BY <3>3 DEF Observed, Id, Becomes, book
      <4> QED
        BY <1>1, <2>1, <3>1, <4>1 DEF Rests
    <3>4. CASE TriesAgain(s)
      BY <1>1, <2>1, <3>1, <3>4 DEF TriesAgain, Rests, Jobs
    <3>5. CASE ~TriesAgain(s) /\ job'[s].pc \notin {"recover", "again"}
      <4>1. job'[s].attempt = job[s].attempt /\ recovered' = recovered
        BY <2>6, <2>7, <3>5
      <4> QED
        BY <1>1, <2>1, <3>1, <3>5, <4>1 DEF Rests
    <3> QED
      BY <2>1, <3>2, <3>3, <3>4, <3>5
      DEF JobMove, EndsEarly, Refused, Ended, Started, Submitted, Accepted, Lost, AsksHold,
          Fencing, Over, Becomes
  <2> QED
    BY <1>2, <2>5, <2>8, <2>9, <2>10
<1>8. ASSUME NEW n \in Nodes, CancelStep(n) PROVE Recovery'
  BY <1>5, <1>8, CancelStepMoves DEF CancelFrame
<1>9. CASE TaskStep
  BY <1>5, <1>9, TaskStepFrame DEF TaskFrame
<1>10. CASE UNCHANGED vars
  BY <1>5, <1>10 DEF vars, agent, book
<1> QED
  BY <1>6, <1>7, <1>8, <1>9, <1>10, StepKinds

\* The hold that x waits for.
HeldOK(x) ==
  call[x] # None /\ call[x].msg.kind = "hold" =>
    LET n == call[x].msg.node IN
    /\ /\ n \in Robots /\ call[x].open /\ call[x].answer = "none"
       /\ SameAuthority(n, call[x].msg.boot, call[x].msg.epoch)
       => admission[n] \in {"OPEN", "UNKNOWN"}
    /\ call[x].answer \in {"accepted", "unknown"} /\ Releases(call[x]) => OwnFence(n)

\* A fence that is the task's own stays so as long as the node does not move.
LEMMA OwnFenceStays ==
  ASSUME TypeOK, Owners, Submissions, Calls, Cancelled, [Next]_vars, NEW n \in Nodes,
         OwnFence(n)
  PROVE  OwnFence(n)'
<1> PICK e \in Authority : e = authority[n]
  BY AuthoritiesHold DEF OwnFence
<1>1. /\ authority'[n] = e /\ authority'[n] # None /\ e.boot \in Nat /\ e.epoch \in Nat
      /\ n \in Robots /\ Past(n, e) /\ GateMoves
      /\ SameAuthority(n, e.boot, e.epoch + 1) =>
           closedBy[n] = "task" \/ admission[n] = "UNKNOWN"
  BY AuthoritiesHold, EveryStepMoves DEF OwnFence, Authority, NodeMoves
<1>2. Past(n, e)'
  BY <1>1, PastStays
<1>3. ASSUME boot'[n] = e.boot, epoch'[n] = e.epoch + 1
      PROVE  closedBy'[n] = "task" \/ admission'[n] = "UNKNOWN"
  <2>1. boot[n] = e.boot /\ epoch[n] = e.epoch + 1
    BY <1>1, <1>3, NodesGoOn DEF Forward, Past
  <2>2. closedBy'[n] = closedBy[n] /\ (admission[n] = "UNKNOWN" => admission'[n] = "UNKNOWN")
    BY <1>1, <1>3, <2>1, NodesGoOn DEF GateMoves
  <2> QED
    BY <1>1, <2>1, <2>2 DEF SameAuthority
<1> QED
  BY <1>1, <1>2, <1>3 DEF OwnFence, Past, SameAuthority

LEMMA ReleasingStays ==
  ASSUME TypeOK, Owners, Submissions, Calls, Cancelled, Fences, Releasing, [Next]_vars
  PROVE  Releasing'
<1> DEFINE Lifts == \A n \in Nodes : released[n] # None =>
                      OwnFence(n) /\ released[n] = authority[n].epoch + 1
           Allowed == \A m \in wire : m.kind = "allow" =>
                        released[m.node] = m.epoch /\ m.boot = authority[m.node].boot
<1>1. Lifts /\ Allowed /\ \A x \in Steps \cup Nodes : HeldOK(x)
  BY DEF Releasing, HeldOK
<1>2. Lifts' /\ Allowed' /\ (\A x \in Steps \cup Nodes : HeldOK(x)') => Releasing'
  BY DEF Releasing, HeldOK
<1>3. \A n \in Nodes : authority[n] # None =>
        authority'[n] = authority[n] /\ authority[n] \in Authority /\ authority'[n] # None
  BY AuthoritiesHold
<1>4. /\ wire \subseteq Message
      /\ \A x \in Steps \cup Nodes : call[x] # None => call[x].msg \in Message
      /\ \A m \in Message : m.node \in Nodes /\ m.boot \in Nat /\ m.epoch \in Nat
  BY DEF TypeOK, CallRecord, Message
<1>5. NodeMoves
  BY EveryStepMoves
\* A hold that was asked for before.
<1>6. ASSUME NEW x \in Steps \cup Nodes, call'[x] \in {call[x], None} \/ Heard(x)
      PROVE  HeldOK(x)'
  <2> SUFFICES ASSUME call'[x] # None, call'[x].msg.kind = "hold"
               PROVE  HeldOK(x)'
    BY DEF HeldOK
  <2>1. call[x] # None /\ call'[x].msg = call[x].msg /\ call'[x].open = call[x].open
    BY <1>6 DEF Heard
  <2> PICK m \in Message : m = call[x].msg
    BY <1>4, <2>1
  <2> PICK n \in Nodes : n = m.node
    BY <1>4
  <2>2. /\ m.kind = "hold" /\ m.boot \in Nat /\ m.epoch \in Nat
        /\ authority[n] # None /\ Reached(n, m)
    BY <1>4, <2>1 DEF Fences
  <2>3. /\ n \in Robots /\ call[x].open /\ call[x].answer = "none"
           /\ SameAuthority(n, m.boot, m.epoch) => admission[n] \in {"OPEN", "UNKNOWN"}
        /\ call[x].answer \in {"accepted", "unknown"} /\ Releases(call[x]) => OwnFence(n)
    BY <1>1, <2>1, <2>2 DEF HeldOK
  <2>4. Heard(x) => call[x].answer = "none"
    BY DEF Heard, Calls
  <2>5. ASSUME n \in Robots, call[x].open, call'[x].answer = "none",
               SameAuthority(n, m.boot, m.epoch)'
        PROVE  admission'[n] \in {"OPEN", "UNKNOWN"}
    <3>1. call[x].answer = "none"
      BY <1>6, <2>4, <2>5
    <3>2. boot[n] = m.boot /\ epoch[n] = m.epoch /\ boot'[n] = m.boot /\ epoch'[n] = m.epoch
      BY <2>2, <2>5, NodesGoOn DEF Reached, Past, SameAuthority, Forward
    <3>3. admission[n] \in {"OPEN", "UNKNOWN"}
      BY <2>3, <2>5, <3>1, <3>2 DEF SameAuthority
    <3> QED
      BY <1>5, <2>5, <3>2, <3>3 DEF NodeMoves, GateMoves
  <2>6. ASSUME call'[x].answer \in {"accepted", "unknown"}, n \in Robots, call[x].open,
               authority[n] = [boot |-> m.boot, epoch |-> m.epoch]
        PROVE  OwnFence(n)'
    <3>1. CASE call'[x] = call[x]
      <4>1. Releases(call[x])
        BY <2>6 DEF Releases
      <4> QED
        BY <2>3, <2>6, <3>1, <4>1, OwnFenceStays
    <3>2. CASE Heard(x)
      <4>1. /\ SameAuthority(n, m.boot, m.epoch)
            /\ boot'[n] = boot[n] /\ epoch'[n] = epoch[n] + 1
            /\ admission[n] = "OPEN" /\ authority[n] = Shown(n) => closedBy'[n] = "task"
        BY <2>2, <2>6, <3>2 DEF Heard, Meaning
      <4>2. authority[n] = Shown(n) /\ boot[n] = m.boot /\ epoch[n] = m.epoch
        BY <2>6, <4>1 DEF Shown, SameAuthority
      <4>3. admission[n] \in {"OPEN", "UNKNOWN"}
        BY <2>3, <2>4, <2>6, <3>2, <4>1
      <4>4. closedBy'[n] = "task" \/ admission'[n] = "UNKNOWN"
        BY <1>5, <4>1, <4>2, <4>3 DEF NodeMoves, GateMoves
      <4>5. authority'[n] = [boot |-> m.boot, epoch |-> m.epoch] /\ authority'[n] # None
        BY <1>3, <2>2, <2>6
      <4>6. Past(n, authority[n])'
        BY <2>2, <4>1, <4>2, <4>5 DEF Past
      <4> QED
        BY <2>6, <4>4, <4>5, <4>6 DEF OwnFence
    <3> QED
      BY <1>6, <2>1, <3>1, <3>2
  <2>7. ASSUME Releases(call[x])'
        PROVE  n \in Robots /\ call[x].open /\ authority[n] = [boot |-> m.boot, epoch |-> m.epoch]
    BY <1>3, <2>1, <2>2, <2>7 DEF Releases
  <2> QED
    BY <2>1, <2>5, <2>6, <2>7 DEF HeldOK
\* A hold that is asked for now.
<1>7. ASSUME NEW x \in Steps \cup Nodes, UNCHANGED env, NEW m \in Message,
             call'[x].msg = m, call'[x].answer = "none",
             call'[x].open = (admission[m.node] = "OPEN")
      PROVE  HeldOK(x)'
  <2>1. admission' = admission
    BY <1>7 DEF env, nodes
  <2> QED
    BY <1>7, <2>1 DEF HeldOK
<1>8. ASSUME NEW x \in Steps \cup Nodes, call'[x] # None, call'[x].msg.kind # "hold"
      PROVE  HeldOK(x)'
  BY <1>8 DEF HeldOK
\* What the task may lift.
<1>9. ASSUME \/ released' = released
             \/ \E x \in Steps \cup Nodes :
                  /\ call[x] # None /\ call[x].msg.kind = "hold"
                  /\ call[x].answer \in {"accepted", "unknown"} /\ released' = Released(call[x])
      PROVE  /\ Lifts'
             /\ \A n \in Nodes : released[n] # None => released'[n] = released[n]
  <2>1. ASSUME NEW n \in Nodes, released'[n] # None
        PROVE  /\ OwnFence(n) /\ released'[n] = authority[n].epoch + 1
               /\ released[n] # None => released'[n] = released[n]
    <3>1. CASE released'[n] = released[n]
      BY <1>1, <2>1, <3>1
    <3>2. CASE released'[n] # released[n]
      <4>1. PICK x \in Steps \cup Nodes :
              /\ call[x] # None /\ call[x].msg.kind = "hold"
              /\ call[x].answer \in {"accepted", "unknown"} /\ released' = Released(call[x])
        BY <1>9, <3>2
      <4> PICK m \in Message : m = call[x].msg
        BY <1>4, <4>1
      <4>2. Releases(call[x]) /\ released' = [released EXCEPT ![m.node] = m.epoch + 1]
        BY <3>2, <4>1 DEF Released
      <4>3. n = m.node /\ released'[n] = m.epoch + 1
        BY <3>2, <4>2 DEF TypeOK
      <4>4. OwnFence(n)
        BY <1>1, <4>1, <4>2, <4>3 DEF HeldOK
      <4>5. authority[n] = [boot |-> m.boot, epoch |-> m.epoch]
        BY <4>2, <4>3 DEF Releases
      <4>6. released'[n] = authority[n].epoch + 1
        BY <4>3, <4>5
      <4> QED
        BY <1>1, <4>4, <4>6
    <3> QED
      BY <3>1, <3>2
  <2>2. ASSUME NEW n \in Nodes, released'[n] # None
        PROVE  OwnFence(n)' /\ released'[n] = authority'[n].epoch + 1
    <3>1. OwnFence(n) /\ authority[n] # None
      BY <2>1, <2>2 DEF OwnFence
    <3> QED
      BY <1>3, <2>1, <2>2, <3>1, OwnFenceStays
  <2>3. ASSUME NEW n \in Nodes, released[n] # None PROVE released'[n] = released[n]
    <3>1. ASSUME released'[n] = None PROVE FALSE
      <4>1. PICK x \in Steps \cup Nodes : call[x] # None /\ released' = Released(call[x])
        BY <1>9, <2>3, <3>1
      <4> PICK m \in Message : m = call[x].msg
        BY <1>4, <4>1
      <4>2. m.epoch + 1 \in Nat /\ None \notin Nat
        BY <1>4, RecordAssumption
      <4> QED
        BY <2>3, <3>1, <4>1, <4>2 DEF Released, TypeOK
    <3> QED
      BY <2>1, <2>3, <3>1
  <2> QED
    BY <2>2, <2>3
<1>10. ASSUME Lifts', \A n \in Nodes : released[n] # None => released'[n] = released[n],
              \A m \in wire' \ wire : m.kind = "allow" =>
                released[m.node] = m.epoch /\ m.boot = authority[m.node].boot,
              wire' \subseteq Message, \A x \in Steps \cup Nodes : HeldOK(x)'
       PROVE  Releasing'
  <2>1. ASSUME NEW m \in wire', m.kind = "allow"
        PROVE  released'[m.node] = m.epoch /\ m.boot = authority'[m.node].boot
    <3>1. released[m.node] = m.epoch /\ m.boot = authority[m.node].boot
      BY <1>1, <1>10, <2>1
    <3>2. m.node \in Nodes /\ m.epoch \in Nat
      BY <1>4, <1>10, <2>1 DEF Message
    <3>3. released[m.node] # None
      BY <3>1, <3>2, RecordAssumption
    <3>4. authority[m.node] # None
      BY <1>1, <3>2, <3>3 DEF OwnFence
    <3> QED
      BY <1>3, <1>10, <3>1, <3>2, <3>3, <3>4
  <2> QED
    BY <1>2, <1>10, <2>1
<1>11. CASE EnvStep
  <2>1. EnvMoves
    BY <1>11, EnvStepMoves
  <2>2. released' = released /\ wire' \subseteq wire
        /\ \A x \in Steps \cup Nodes : call'[x] = call[x] \/ Heard(x)
    BY <2>1 DEF EnvMoves, agent, book
  <2> QED
    BY <1>4, <1>6, <1>9, <1>10, <2>2
<1>12. ASSUME NEW s \in Steps, JobStep(s) PROVE Releasing'
  <2>1. JobFrame(s) /\ JobMove(s) /\ UNCHANGED env
    BY <1>12, JobStepMoves DEF JobFrame
  <2>2. \A x \in Steps \cup Nodes : x # s => HeldOK(x)'
    BY <1>6, <2>1 DEF JobFrame
  <2>3. /\ Lifts'
        /\ \A n \in Nodes : released[n] # None => released'[n] = released[n]
    <3>1. CASE released' = released
      BY <1>9, <3>1
    <3>2. CASE Fencing(s) /\ released' # released
      <4>1. /\ call[s] # None /\ call[s].msg.kind = "hold"
            /\ call[s].answer \in {"accepted", "unknown"} /\ released' = Released(call[s])
        BY <3>2 DEF Fencing, Calls
      <4> QED
        BY <1>9, <4>1
    <3> QED
      BY <2>1, <3>1, <3>2
      DEF JobMove, EndsEarly, Refused, Ended, Started, Submitted, Accepted, Lost, Fails,
          Observed, TriesAgain, AsksHold, Noted, book
  <2>4. CASE Quiet(s)
    BY <1>4, <1>6, <1>10, <2>2, <2>3, <2>4 DEF Quiet
  <2>5. CASE Submitted(s)
    <3>1. HeldOK(s)' /\ wire' \subseteq Message /\ \A m \in wire' \ wire : m.kind = "submit"
      BY <1>8, <2>5, TypesStay, TypeParts DEF Submitted, Submission, TypeOK
    <3> QED
      BY <1>10, <2>2, <2>3, <3>1
  <2>6. CASE AsksHold(s)
    <3>1. PICK m \in Message :
            /\ m.kind = "hold" /\ wire' = wire \cup {m} /\ call'[s].msg = m
            /\ call'[s].answer = "none" /\ call'[s].open = (admission[m.node] = "OPEN")
      BY <2>6 DEF AsksHold
    <3>2. HeldOK(s)'
      BY <1>7, <2>1, <3>1
    <3> QED
      BY <1>4, <1>10, <2>2, <2>3, <3>1, <3>2
  <2> QED
    BY <2>1, <2>4, <2>5, <2>6
    DEF JobMove, EndsEarly, Refused, Ended, Started, Accepted, Lost, Fails, Observed,
        TriesAgain, Fencing
<1>13. ASSUME NEW n \in Nodes, CancelStep(n) PROVE Releasing'
  <2>1. CancelFrame(n) /\ CancelMove(n) /\ UNCHANGED env
    BY <1>13, CancelStepMoves DEF CancelFrame
  <2>2. \A x \in Steps \cup Nodes : x # n => HeldOK(x)'
    BY <1>6, <2>1 DEF CancelFrame
  <2>3. /\ Lifts'
        /\ \A k \in Nodes : released[k] # None => released'[k] = released[k]
    <3>1. CASE released' = released
      BY <1>9, <3>1
    <3>2. CASE released' # released
      <4>1. /\ call[n] # None /\ call[n].msg.kind = "hold"
            /\ call[n].answer \in {"accepted", "unknown"} /\ released' = Released(call[n])
        BY <2>1, <3>2
        DEF CancelMove, AsksFence, FenceFails, FenceStands, Stops, Allows, Closes, Calls
      <4> QED
        BY <1>9, <4>1
    <3> QED
      BY <3>1, <3>2
  <2>4. CASE SideQuiet(n)
    BY <1>4, <1>6, <1>10, <2>2, <2>3, <2>4 DEF SideQuiet
  <2>5. CASE AsksFence(n)
    <3>1. PICK m \in Message :
            /\ m.kind = "hold" /\ m.node = n /\ wire' = wire \cup {m} /\ call'[n].msg = m
            /\ call'[n].answer = "none" /\ call'[n].open = (admission[n] = "OPEN")
      BY <2>5 DEF AsksFence
    <3>2. HeldOK(n)'
      BY <1>7, <2>1, <3>1
    <3> QED
      BY <1>4, <1>10, <2>2, <2>3, <3>1, <3>2
  <2>6. CASE Allows(n)
    <3>1. PICK m \in Message :
            /\ m.kind = "allow" /\ m.node = n /\ m.boot = authority[n].boot
            /\ m.epoch = released[n] /\ wire' = wire \cup {m} /\ call'[n] # None
            /\ call'[n].msg = m
      BY <2>6 DEF Allows
    <3>2. HeldOK(n)'
      BY <1>8, <3>1
    <3> QED
      BY <1>4, <1>10, <2>2, <2>3, <3>1, <3>2
  <2> QED
    BY <2>1, <2>4, <2>5, <2>6 DEF CancelMove, FenceFails, FenceStands, Stops, Closes
<1>14. CASE TaskStep
  <2>1. /\ released' = released /\ wire' = wire
        /\ \A x \in Steps \cup Nodes : call'[x] \in {call[x], None}
    BY <1>14, TaskStepFrame DEF TaskFrame
  <2> QED
    BY <1>4, <1>6, <1>9, <1>10, <2>1
<1>15. CASE UNCHANGED vars
  <2>1. released' = released /\ wire' = wire /\ call' = call
    BY <1>15 DEF vars, agent, book, net
  <2> QED
    BY <1>4, <1>6, <1>9, <1>10, <2>1
<1> QED
  BY <1>11, <1>12, <1>13, <1>14, <1>15, StepKinds

-------------------------------------------------------------------------------
(* The invariant, and what follows from it.                                *)

LEMMA InitInv == Init => TaskInv
<1> SUFFICES ASSUME Init PROVE TaskInv
  OBVIOUS
<1>1. /\ \A n \in Nodes : active[n] = None /\ authority[n] = None /\ released[n] = None
                          /\ side[n].pc = "fence"
      /\ \A a \in Actions : status[a] = "absent"
      /\ \A s \in Steps : job[s].pc = "waiting" /\ job[s].attempt = "first"
                          /\ outcome[s] = "none" /\ results[s] = "none"
      /\ \A x \in Steps \cup Nodes : call[x] = None
      /\ wire = {} /\ actions = {} /\ finish = "none" /\ state = "RUNNING"
      /\ executing = "preflight" /\ Submits = {}
  BY DEF Init, GateInit, NewSide, Submits
<1>2. TypeOK
  <2>1. GateTypeOK /\ ClosedByOK
    BY DEF Init, GateInit, GateTypeOK, ClosedByOK
  <2>2. TaskOK /\ FaultOK
    BY BoundAssumption DEF Init, TaskOK, FaultOK
  <2>3. BookOK
    BY DEF Init, BookOK, Outcomes
  <2>4. CancelOK
    BY BoundAssumption, NewSideTypes DEF Init, CancelOK, SideOK, Outcomes
  <2>5. JobOK
    BY BoundAssumption DEF Init, JobOK, Pcs, Attempts
  <2>6. NetOK
    BY DEF Init, NetOK
  <2> QED
    BY <2>1, <2>2, <2>3, <2>4, <2>5, <2>6, TypeParts
<1>3. \A s \in Steps, att \in Attempts : <<s, att>> \in Actions
  BY Homes
<1>4. Owners /\ Captured /\ Jobs /\ Calls
  BY <1>1 DEF Owners, Running, Captured, Jobs, Calls
<1>5. Submissions /\ Fences /\ Accounted
  BY <1>1, <1>3 DEF Submissions, Fences, Accounted, Running
<1>6. Cancelled /\ Failures /\ Reports
  BY <1>1 DEF Cancelled, Failures, Reports, AllAt, Settled
<1>7. Recording
  BY <1>1, <1>3 DEF Recording
<1>8. Recovery /\ Releasing
  BY <1>1 DEF Recovery, Releasing, HoldsLock
<1> QED
  BY <1>2, <1>4, <1>5, <1>6, <1>7, <1>8 DEF TaskInv

LEMMA NextInv == TaskInv /\ [Next]_vars => TaskInv'
<1> SUFFICES ASSUME TaskInv, [Next]_vars PROVE TaskInv'
  OBVIOUS
<1>1. /\ TypeOK /\ Owners /\ Captured /\ Jobs /\ Calls /\ Submissions /\ Fences
      /\ Accounted /\ Cancelled /\ Recording /\ Failures /\ Reports /\ Recovery /\ Releasing
  BY DEF TaskInv
<1>2. TypeOK' /\ Owners'
  BY <1>1, TypesStay, EveryStepMoves DEF NodeMoves
<1>3. Captured' /\ Jobs' /\ Calls'
  BY <1>1, CapturedStays, JobsStay, CallsStay
<1>4. Submissions'
  BY <1>1, SubmissionsStay
<1>5. Fences' /\ Accounted' /\ Cancelled' /\ Failures'
  BY <1>1, FencesStay, AccountedStays, CancelledStays, FailuresStay
<1>6. Recording' /\ Reports'
  BY <1>1, <1>4, RecordingStays, ReportsStay
<1>7. Recovery' /\ Releasing'
  BY <1>1, RecoveryStays, ReleasingStays
<1> QED
  BY <1>2, <1>3, <1>4, <1>5, <1>6, <1>7 DEF TaskInv

\* The invariant holds in every reachable state, for any steps, nodes, plan, recovery,
\* faults and cancels (runtime.py, _execute to _finish_cancel).
THEOREM Invariance == Spec => []TaskInv
BY InitInv, NextInv, PTL DEF Spec

\* Every variable of a task and its nodes keeps its type, whatever call is lost,
\* late or repeated.
THEOREM TypeCorrect == Spec => []TypeOK
<1>1. TaskInv => TypeOK
  BY DEF TaskInv
<1> QED
  BY <1>1, Invariance, PTL

\* When the task is reported as settled, none of its actions is under way, and none
\* can begin any more, on any number of nodes (_finish_cancel, _execute).
THEOREM SettledTaskIsOver == Spec => []SettledIsOver
<1>1. TaskInv => SettledIsOver
  <2> SUFFICES ASSUME TaskInv, state \in Settled
               PROVE  /\ \A a \in Actions : status[a] \notin {"RUNNING", "CANCELLING"}
                      /\ \A m \in wire : m.kind = "submit" => ~SameAuthority(m.node, m.boot, m.epoch)
    BY DEF SettledIsOver
  <2>1. /\ \A a \in Actions : status[a] \notin Running
        /\ \A m \in Submits : Past(m.node, m)
    BY DEF TaskInv, Reports
  <2>2. ASSUME NEW m \in Submits
        PROVE  ~SameAuthority(m.node, m.boot, m.epoch)
    <3>1. m.node \in Nodes
      BY DEF TaskInv, TypeOK, Submits, Message
    <3>2. boot[m.node] \in Nat /\ epoch[m.node] \in Nat
      BY <3>1 DEF TaskInv, TypeOK, GateTypeOK
    <3> QED
      BY <2>1, <3>2 DEF Past, SameAuthority
  <2> QED
    BY <2>1, <2>2 DEF Running, Submits
<1> QED
  BY <1>1, Invariance, PTL

\* A settled task says of every step what the node says of its last action: success
\* is neither invented nor lost (Verdict, _finish_cancel).
THEOREM ReportedAsItIs == Spec => []ReportIsTrue
<1>1. TaskInv => ReportIsTrue
  BY DEF TaskInv, Reports, ReportIsTrue, BorneOut, Last
<1> QED
  BY <1>1, Invariance, PTL

\* An action that begins was submitted by its step, in the authority of the preflight.
LEMMA Begins ==
  ASSUME TaskInv, [Next]_vars, NEW s \in Steps, NEW att \in Attempts,
         status[<<s, att>>] = "absent", status'[<<s, att>>] = "RUNNING"
  PROVE  /\ Tried(s, att) /\ DependsOn(s)
         /\ authority[NodeOf[s]] = Shown(NodeOf[s]) /\ ~Blind(NodeOf[s])
<1>1. TypeOK /\ Owners /\ Submissions /\ <<s, att>> \in Actions
  BY Homes DEF TaskInv
<1>2. StatusMoves
  BY <1>1, EveryStepMoves DEF NodeMoves
<1>3. PICK m \in Submits : m.action = <<s, att>> /\ Admitted(m)
  BY <1>1, <1>2 DEF StatusMoves, Running
<1>4. m.node = NodeOf[s] /\ Tried(s, att) /\ DependsOn(s)
  BY <1>1, <1>3, Owned
<1> QED
  BY <1>1, <1>3, <1>4, AdmittedInTime DEF Blind

\* An action begins only after every step it depends on has succeeded, and only
\* while its node is under the authority of the preflight (step_job, submit).
THEOREM BeginsAsPlanned == Spec => BegunAsPlanned
<1> DEFINE Goal == \A a \in Actions :
                     status[a] = "absent" /\ status'[a] = "RUNNING" =>
                       /\ \A i \in DOMAIN plan[a[1]] : Succeeded(plan[a[1]][i])
                       /\ authority[Home[a]] = Shown(Home[a])
<1>1. TaskInv /\ [Next]_vars => Goal
  <2> SUFFICES ASSUME TaskInv, [Next]_vars, NEW s \in Steps, NEW att \in Attempts,
                      status[<<s, att>>] = "absent", status'[<<s, att>>] = "RUNNING"
               PROVE  /\ \A i \in DOMAIN plan[s] : Succeeded(plan[s][i])
                      /\ authority[Home[<<s, att>>]] = Shown(Home[<<s, att>>])
    BY DEF Actions
  <2> QED
    BY Begins, Homes DEF DependsOn
<1>2. TaskInv /\ [Next]_vars => [Goal]_vars
  BY <1>1
<1>3. BegunAsPlanned <=> [][Goal]_vars
  BY DEF BegunAsPlanned
<1> HIDE DEF Goal
<1> QED
  BY <1>2, <1>3, Invariance, PTL DEF Spec

\* A step is repeated once, after its first action has failed and the observation
\* has succeeded, and one step of a task recovers (_run_step, _attempt).
THEOREM RepeatsAfterFailure == Spec => RepeatedOnlyAfterFailure
<1> DEFINE Goal == \A s \in Steps :
       /\ status[<<s, "retry">>] = "absent" /\ status'[<<s, "retry">>] = "RUNNING" =>
            status[<<s, "first">>] = "FAILED" /\ status[<<s, "observe">>] = "SUCCEEDED"
       /\ status[<<s, "observe">>] = "absent" /\ status'[<<s, "observe">>] = "RUNNING" =>
            \A r \in Steps : status[<<r, "observe">>] = "absent"
<1>1. TaskInv /\ [Next]_vars => Goal
  <2> SUFFICES ASSUME TaskInv, [Next]_vars, NEW s \in Steps
               PROVE  /\ status[<<s, "retry">>] = "absent" /\ status'[<<s, "retry">>] = "RUNNING" =>
                           /\ status[<<s, "first">>] = "FAILED"
                           /\ status[<<s, "observe">>] = "SUCCEEDED"
                      /\ status[<<s, "observe">>] = "absent" /\ status'[<<s, "observe">>] = "RUNNING" =>
                           \A r \in Steps : status[<<r, "observe">>] = "absent"
    OBVIOUS
  <2>1. Recovery /\ Submissions
    BY DEF TaskInv
  <2>2. ASSUME status[<<s, "retry">>] = "absent", status'[<<s, "retry">>] = "RUNNING"
        PROVE  /\ status[<<s, "first">>] = "FAILED"
               /\ status[<<s, "observe">>] = "SUCCEEDED"
    <3>1. Tried(s, "retry") /\ ~Blind(NodeOf[s])
      BY <2>2, Begins DEF Attempts
    <3>2. job[s].attempt = "retry"
      BY <3>1 DEF Tried
    <3> QED
      BY <2>1, <3>1, <3>2 DEF Recovery
  <2>3. ASSUME status[<<s, "observe">>] = "absent", status'[<<s, "observe">>] = "RUNNING",
               NEW r \in Steps, status[<<r, "observe">>] # "absent"
        PROVE  FALSE
    <3>1. Tried(s, "observe") /\ Tried(r, "observe")
      BY <2>1, <2>3, Begins DEF Attempts, Submissions
    <3>2. job[s].attempt # "first" /\ job[r].attempt # "first"
      BY <3>1 DEF Tried
    <3> QED
      BY <2>1, <2>3, <3>2 DEF Recovery
  <2> QED
    BY <2>2, <2>3
<1>2. TaskInv /\ [Next]_vars => [Goal]_vars
  BY <1>1
<1>3. RepeatedOnlyAfterFailure <=> [][Goal]_vars
  BY DEF RepeatedOnlyAfterFailure
<1> HIDE DEF Goal
<1> QED
  BY <1>2, <1>3, Invariance, PTL DEF Spec

\* The task lifts a hold only where its own fence closed the node, never that of
\* another client, a restart or a lost state (release_epochs).
THEOREM LiftsItsOwnFence == Spec => LiftsOnlyOwnFence
<1> DEFINE Goal == \A m \in wire \ wire' :
       m.kind = "allow" /\ admission[m.node] # "OPEN" /\ admission'[m.node] = "OPEN"
         => closedBy[m.node] = "task"
<1>1. TaskInv /\ [Next]_vars => Goal
  <2> SUFFICES ASSUME TaskInv, [Next]_vars, NEW m \in wire \ wire', m.kind = "allow",
                      admission[m.node] # "OPEN", admission'[m.node] = "OPEN"
               PROVE  closedBy[m.node] = "task"
    OBVIOUS
  <2>1. TypeOK /\ Owners /\ Submissions /\ Calls /\ Cancelled /\ Releasing
    BY DEF TaskInv
  <2>2. m.node \in Nodes /\ m.epoch \in Nat
    BY <2>1 DEF TypeOK, Message
  <2>3. DeliverAllow(m)
    <3>1. (\E s \in Steps : JobStep(s)) => wire \subseteq wire'
      BY <2>1, JobStepMoves
      DEF JobMove, EndsEarly, Refused, Ended, Started, Submitted, Accepted, Lost, Fails,
          Observed, TriesAgain, AsksHold, Fencing, Quiet
    <3>2. (\E n \in Nodes : CancelStep(n)) => wire \subseteq wire'
      BY <2>1, CancelStepMoves
      DEF CancelMove, AsksFence, FenceFails, FenceStands, Stops, Allows, Closes, SideQuiet
    <3>3. TaskStep => wire \subseteq wire'
      BY <2>1, TaskStepFrame DEF TaskFrame
    <3>4. UNCHANGED vars => wire \subseteq wire'
      BY DEF vars, net
    <3>5. PICK k \in wire : Deliver(k)
      BY <3>1, <3>2, <3>3, <3>4, StepKinds
      DEF EnvStep, NodeRuns, NodeFault, OtherClient, net
    <3>6. k = m
      BY <3>5 DEF Deliver, DeliverSubmit, DeliverHold, DeliverAllow, Reply
    <3> QED
      BY <3>5, <3>6 DEF Deliver, DeliverSubmit, DeliverHold
  <2>4. SameAuthority(m.node, m.boot, m.epoch) /\ admission[m.node] = "HELD"
    BY <2>3 DEF DeliverAllow, MayReopen, nodes
  <2>5. released[m.node] = m.epoch /\ m.boot = authority[m.node].boot
    BY <2>1 DEF Releasing
  <2>6. OwnFence(m.node) /\ m.epoch = authority[m.node].epoch + 1
    BY <2>1, <2>2, <2>5, RecordAssumption DEF Releasing
  <2> QED
    BY <2>4, <2>5, <2>6 DEF OwnFence
<1>2. TaskInv /\ [Next]_vars => [Goal]_vars
  BY <1>1
<1>3. LiftsOnlyOwnFence <=> [][Goal]_vars
  BY DEF LiftsOnlyOwnFence
<1> HIDE DEF Goal
<1> QED
  BY <1>2, <1>3, Invariance, PTL DEF Spec
===============================================================================
