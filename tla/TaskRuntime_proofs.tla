-------------------------- MODULE TaskRuntime_proofs --------------------------
(* Proofs that the runtime keeps its queue, its goals and its settled tasks *)
(* for any number of tasks, goals, handlers and any capacities.             *)
EXTENDS TaskRuntime, SequenceTheorems, TLAPS

-------------------------------------------------------------------------------
(* The inductive invariant.                                                *)

\* A task that was ever current has been remembered and executed; what is being
\* cancelled, or has settled, is not current in another state.
Tables ==
  /\ task # None => executing[task] # "none" /\ state # "IDLE"
  /\ task = None => state # "RUNNING"
  /\ \A t \in Tasks : executing[t] # "none" => records[t] # "absent"
  /\ \A t \in cancelling : executing[t] # "none"
  /\ task \in cancelling => state = "CANCELLING"
  /\ task # None /\ records[task] \in Settled => state = records[task]

\* A start that is suspended in discovery is alone with its task.
CallsFresh ==
  \A h \in Handlers : calls[h] # None /\ calls[h].kind = "start" =>
    /\ records[calls[h].task] = "absent"
    /\ \A k \in Handlers \ {h} : calls[k] # None => calls[k].task # calls[h].task

\* Nothing queued is older than the latest interrupt.
Queue ==
  /\ QueueWaitsForRunning
  /\ \A i \in DOMAIN queued : born[queued[i]] = serial

\* The planner answers the goal it was started for, or nobody; it has a task
\* only while it executes it.
Planning ==
  /\ NoGoalForgotten
  /\ planner # None =>
       /\ planner.task # None => planner.pc = "executing" /\ executing[planner.task] # "none"
       /\ planning.id = planner.goal => planner.serial = serial

RInv == TypeOK /\ Tables /\ CallsFresh /\ Queue /\ Planning

-------------------------------------------------------------------------------
(* The helpers.                                                            *)

\* The queue holds tasks.
LEMMA QueueType ==
  ASSUME queued \in Seq(Tasks)
  PROVE  /\ Len(queued) \in Nat /\ DOMAIN queued = 1 .. Len(queued)
         /\ \A i \in 1 .. Len(queued) : queued[i] \in Tasks
BY LenProperties

\* Saving writes the state of the current task, once.
LEMMA SavedRecords ==
  ASSUME TypeOK, Tables
  PROVE  /\ Saved \in [Tasks -> TaskStates \cup {"absent"}]
         /\ \A t \in Tasks \ {task} : Saved[t] = records[t]
         /\ task # None => Saved[task] = state
         /\ \A t \in Tasks : Saved[t] = "absent" <=> records[t] = "absent"
BY DEF Saved, TypeOK, Tables, TaskStates, Settled

\* Clearing the queue cancels what was in it and nothing else.
LEMMA ClearedRecords ==
  ASSUME TypeOK, NEW recs \in [Tasks -> TaskStates \cup {"absent"}]
  PROVE  /\ Cleared(recs) \in [Tasks -> TaskStates \cup {"absent"}]
         /\ \A t \in Tasks : (\E i \in DOMAIN queued : queued[i] = t)
                               => Cleared(recs)[t] = "CANCELLED"
         /\ \A t \in Tasks : (\A i \in DOMAIN queued : queued[i] # t)
                               => Cleared(recs)[t] = recs[t]
BY DEF Cleared, TaskStates, Settled

\* No goal waits after the planning was dropped.
LEMMA StaledGoals ==
  ASSUME TypeOK, NoGoalForgotten
  PROVE  /\ Staled \in [Goals -> GoalStates \cup {"absent"}]
         /\ \A g \in Goals : Staled[g] # "WAITING"
BY NoneAssumption DEF Staled, TypeOK, NoGoalForgotten, GoalStates

\* Nor is any goal current.
LEMMA DroppedPlanning ==
  ASSUME TypeOK
  PROVE  /\ Dropped \in [id : Goals \cup {None}, state : GoalStates \cup {"IDLE"}]
         /\ Dropped.id = None
         /\ Idle \in [id : Goals \cup {None}, state : GoalStates \cup {"IDLE"}]
         /\ Idle.id = None
BY DEF Dropped, Idle, TypeOK, GoalStates

\* A cancelled planner keeps its goal and its task until it is resumed.
LEMMA FlaggedPlanner ==
  ASSUME TypeOK
  PROVE  /\ PlannerCancelled \in Planner \cup {None}
         /\ planner = None <=> PlannerCancelled = None
         /\ planner # None => /\ PlannerCancelled.goal = planner.goal
                              /\ PlannerCancelled.task = planner.task
                              /\ PlannerCancelled.serial = planner.serial
                              /\ PlannerCancelled.pc = planner.pc
BY RecordAssumption DEF PlannerCancelled, TypeOK, Planner

-------------------------------------------------------------------------------
(* Every step preserves the parts of the invariant.                        *)

\* What a cancel, an interrupt or close() leaves.
LEMMA StopTypes ==
  ASSUME TypeOK, NoGoalForgotten
  PROVE  /\ Cleared(records) \in [Tasks -> TaskStates \cup {"absent"}]
         /\ Staled \in [Goals -> GoalStates \cup {"absent"}]
         /\ Dropped \in [id : Goals \cup {None}, state : GoalStates \cup {"IDLE"}]
         /\ [planning EXCEPT !.id = None]
              \in [id : Goals \cup {None}, state : GoalStates \cup {"IDLE"}]
         /\ PlannerCancelled \in Planner \cup {None}
<1>1. records \in [Tasks -> TaskStates \cup {"absent"}]
  BY DEF TypeOK
<1>2. [planning EXCEPT !.id = None]
        \in [id : Goals \cup {None}, state : GoalStates \cup {"IDLE"}]
  BY DEF TypeOK
<1> QED
  BY <1>1, <1>2, ClearedRecords, StaledGoals, DroppedPlanning, FlaggedPlanner

\* Every variable keeps its type.
LEMMA TypeStep == RInv /\ [Next]_vars => TypeOK'
<1> SUFFICES ASSUME RInv, [Next]_vars PROVE TypeOK'
  OBVIOUS
<1> USE DEF RInv, Planning, TypeOK
<1>1. ASSUME NEW h \in Handlers, NEW t \in Tasks, CallStart(h, t) PROVE TypeOK'
  BY <1>1 DEF CallStart, current, tables, Call
<1>2. ASSUME NEW h \in Handlers, NEW t \in Tasks, CallEnqueue(h, t) PROVE TypeOK'
  BY <1>2 DEF CallEnqueue, current, tables, Call
<1>3. ASSUME NEW h \in Handlers, CallRefused(h) PROVE TypeOK'
  BY <1>3 DEF CallRefused, current, tables
<1>4. ASSUME NEW h \in Handlers, StartAccepted(h) PROVE TypeOK'
  BY <1>4, SavedRecords, StaledGoals, DroppedPlanning, RecordAssumption DEF StartAccepted,
     Activate, Spawned, Uninterrupted, Call, TaskStates
<1>5. ASSUME NEW h \in Handlers, EnqueueAccepted(h) PROVE TypeOK'
  BY <1>5, QueueType, RecordAssumption DEF EnqueueAccepted, Unseen, Uninterrupted, current,
     Call, TaskStates
<1>6. ASSUME NEW g \in Goals, Goal(g) PROVE TypeOK'
  BY <1>6, SavedRecords DEF Goal, current, Planner, GoalStates
<1>7. ASSUME PlanThought PROVE TypeOK'
  BY <1>7 DEF PlanThought, PlannerAt, current, tables, Planner
<1>8. ASSUME PlanObsolete PROVE TypeOK'
  BY <1>8 DEF PlanObsolete, PlannerAt, PlanEnds, current, Planner, GoalStates
<1>9. ASSUME PlanNotExecuted PROVE TypeOK'
  BY <1>9 DEF PlanNotExecuted, PlannerAt, PlanEnds, current, Planner, GoalStates
<1>10. ASSUME PlanDoubted PROVE TypeOK'
  BY <1>10 DEF PlanDoubted, PlannerAt, current, tables, Planner
<1>11. ASSUME PlanFailed PROVE TypeOK'
  BY <1>11 DEF PlanFailed, PlannerAt, PlanEnds, current, Planner, GoalStates, TaskStates,
     Settled
<1>12. ASSUME PlanCancelled PROVE TypeOK'
  BY <1>12 DEF PlanCancelled, current, Planner, GoalStates
<1>13. ASSUME NEW t \in Tasks, PlanExecuted(t) PROVE TypeOK'
  BY <1>13, SavedRecords DEF PlanExecuted, PlannerAt, Activate, Spawned, Planner,
     GoalStates, TaskStates
<1>14. ASSUME NEW t \in Tasks, ExecuteStale(t) PROVE TypeOK'
  BY <1>14 DEF ExecuteStale, Running, Ended, current, tables
<1>15. ASSUME NEW t \in Tasks, PreflightPassed(t) PROVE TypeOK'
  BY <1>15 DEF PreflightPassed, Running, current, tables
<1>16. ASSUME NEW t \in Tasks, ExecuteFailed(t) PROVE TypeOK'
  <2>1. records' \in [Tasks -> TaskStates \cup {"absent"}]
    BY <1>16, StopTypes DEF ExecuteFailed
  <2>2. state' \in TaskStates
    BY <1>16 DEF ExecuteFailed, TaskStates, Settled
  <2>3. queued' \in Seq(Tasks)
    BY <1>16, EmptySeq DEF ExecuteFailed, QueueAfterFailure
  <2>4. UNCHANGED <<goals, planning>>
    BY <1>16 DEF ExecuteFailed
  <2>9. /\ task' \in Tasks \cup {None} /\ planner' \in Planner \cup {None}
        /\ calls' \in [Handlers -> Call \cup {None}]
        /\ serial' \in Nat /\ served' \in Nat /\ closed' \in BOOLEAN
        /\ executing' \in [Tasks -> {"none", "preflight", "steps", "done"}]
        /\ cancelling' \in SUBSET Tasks /\ born' \in [Tasks -> Nat]
    BY <1>16 DEF ExecuteFailed, Ended
  <2> QED
    BY <2>1, <2>2, <2>3, <2>4, <2>9
<1>17. ASSUME NEW t \in Tasks, ExecuteSucceeded(t) PROVE TypeOK'
  <2>1. /\ records' \in [Tasks -> TaskStates \cup {"absent"}] /\ state' \in TaskStates
        /\ queued' \in Seq(Tasks) /\ task' \in Tasks \cup {None}
        /\ goals' \in [Goals -> GoalStates \cup {"absent"}]
        /\ planning' \in [id : Goals \cup {None}, state : GoalStates \cup {"IDLE"}]
        /\ executing' \in [Tasks -> {"none", "preflight", "steps", "done"}]
    <3>1. "SUCCEEDED" \in TaskStates /\ "RUNNING" \in TaskStates
      BY DEF TaskStates, Settled
    <3>2. CASE queued = <<>>
      BY <1>17, <3>1, <3>2 DEF ExecuteSucceeded, tables
    <3>3. CASE queued # <<>>
      <4>1. Head(queued) \in Tasks /\ Tail(queued) \in Seq(Tasks)
        BY <3>3, HeadTailProperties
      <4>2. /\ Staled \in [Goals -> GoalStates \cup {"absent"}]
            /\ Idle \in [id : Goals \cup {None}, state : GoalStates \cup {"IDLE"}]
        BY StopTypes, DroppedPlanning
      <4>3. executing' \in [Tasks -> {"none", "preflight", "steps", "done"}]
        BY <1>17, <3>3, <4>1 DEF ExecuteSucceeded, Spawned
      <4>4. /\ records' = [records EXCEPT ![t] = "SUCCEEDED"] /\ state' = "RUNNING"
            /\ queued' = Tail(queued) /\ task' = Head(queued)
            /\ goals' = Staled /\ planning' = Idle
        BY <1>17, <3>3 DEF ExecuteSucceeded
      <4> QED
        BY <3>1, <4>1, <4>2, <4>3, <4>4
    <3> QED
      BY <3>2, <3>3
  <2>2. planner' \in Planner \cup {None}
    BY <1>17 DEF ExecuteSucceeded, Ended
  <2> QED
    BY <1>17, <2>1, <2>2 DEF ExecuteSucceeded
<1>18. ASSUME NEW t \in Tasks, CancelQueued(t) PROVE TypeOK'
  <2>1. queued' \in Seq(Tasks)
    <3>1. PICK i \in 1 .. Len(queued) :
            queued' = SubSeq(queued, 1, i - 1) \o SubSeq(queued, i + 1, Len(queued))
      BY <1>18, QueueType DEF CancelQueued
    <3>2. /\ SubSeq(queued, 1, i - 1) \in Seq(Tasks)
          /\ SubSeq(queued, i + 1, Len(queued)) \in Seq(Tasks)
      BY QueueType, SubSeqProperties
    <3> QED
      BY <3>1, <3>2
  <2>2. /\ records' \in [Tasks -> TaskStates \cup {"absent"}]
        /\ UNCHANGED <<task, state, goals, planning, planner, calls, executing, cancelling,
                       serial, closed, born>>
        /\ served' \in Nat
    BY <1>18 DEF CancelQueued, current, workers, TaskStates, Settled
  <2> QED
    BY <2>1, <2>2
<1>19. ASSUME NEW t \in Tasks, FinishCancel(t) PROVE TypeOK'
  BY <1>19 DEF FinishCancel, TaskStates, Settled
<1>20. ASSUME CancelCurrent PROVE TypeOK'
  <2>1. /\ records' \in [Tasks -> TaskStates \cup {"absent"}]
        /\ goals' \in [Goals -> GoalStates \cup {"absent"}]
        /\ planning' \in [id : Goals \cup {None}, state : GoalStates \cup {"IDLE"}]
    BY <1>20, StopTypes DEF CancelCurrent, BeginCancel
  <2>2. state' \in {"IDLE"} \cup TaskStates /\ cancelling' \in SUBSET Tasks
    BY <1>20 DEF CancelCurrent, BeginCancel, Stoppable, TaskStates
  <2>3. queued' \in Seq(Tasks)
    <3>1. queued' \in {queued, <<>>}
      BY <1>20 DEF CancelCurrent, BeginCancel
    <3>2. <<>> \in Seq(Tasks) /\ queued \in Seq(Tasks)
      BY EmptySeq
    <3> QED
      BY <3>1, <3>2
  <2>4. planner' \in Planner \cup {None}
    BY <1>20, StopTypes DEF CancelCurrent
  <2> QED
    BY <1>20, <2>1, <2>2, <2>3, <2>4 DEF CancelCurrent
<1>21. ASSUME Interrupt PROVE TypeOK'
  <2>1. /\ records' \in [Tasks -> TaskStates \cup {"absent"}]
        /\ goals' \in [Goals -> GoalStates \cup {"absent"}]
        /\ planning' \in [id : Goals \cup {None}, state : GoalStates \cup {"IDLE"}]
    BY <1>21, StopTypes DEF Interrupt, BeginCancel
  <2>2. state' \in {"IDLE"} \cup TaskStates /\ cancelling' \in SUBSET Tasks
    BY <1>21 DEF Interrupt, BeginCancel, Stoppable, TaskStates
  <2>3. queued' \in Seq(Tasks)
    <3>1. queued' \in {queued, <<>>}
      BY <1>21 DEF Interrupt, BeginCancel
    <3>2. <<>> \in Seq(Tasks) /\ queued \in Seq(Tasks)
      BY EmptySeq
    <3> QED
      BY <3>1, <3>2
  <2>4. planner' \in Planner \cup {None}
    BY <1>21, StopTypes DEF Interrupt
  <2> QED
    BY <1>21, <2>1, <2>2, <2>3, <2>4 DEF Interrupt
<1>22. ASSUME Close PROVE TypeOK'
  <2>1. /\ records' \in [Tasks -> TaskStates \cup {"absent"}]
        /\ goals' \in [Goals -> GoalStates \cup {"absent"}]
        /\ planning' \in [id : Goals \cup {None}, state : GoalStates \cup {"IDLE"}]
    BY <1>22, StopTypes DEF Close, BeginCancel
  <2>2. state' \in {"IDLE"} \cup TaskStates /\ cancelling' \in SUBSET Tasks
    BY <1>22 DEF Close, BeginCancel, Stoppable, TaskStates
  <2>3. queued' \in Seq(Tasks)
    <3>1. queued' \in {queued, <<>>}
      BY <1>22 DEF Close, BeginCancel
    <3>2. <<>> \in Seq(Tasks) /\ queued \in Seq(Tasks)
      BY EmptySeq
    <3> QED
      BY <3>1, <3>2
  <2>4. planner' \in Planner \cup {None}
    BY <1>22, StopTypes DEF Close
  <2> QED
    BY <1>22, <2>1, <2>2, <2>3, <2>4 DEF Close
<1>23. ASSUME UNCHANGED vars PROVE TypeOK'
  BY <1>23 DEF vars, current, tables, workers
<1> QED
  BY <1>1, <1>2, <1>3, <1>4, <1>5, <1>6, <1>7, <1>8, <1>9, <1>10, <1>11, <1>12, <1>13,
     <1>14, <1>15, <1>16, <1>17, <1>18, <1>19, <1>20, <1>21, <1>22, <1>23 DEF Next,
     PlanStep, Executes

\* What the invariant says of the tables, and how saving and clearing change them.
LEMMA TableFacts ==
  ASSUME RInv
  PROVE  /\ task \in Tasks \cup {None} /\ None \notin Tasks
         /\ records \in [Tasks -> TaskStates \cup {"absent"}]
         /\ executing \in [Tasks -> {"none", "preflight", "steps", "done"}]
         /\ cancelling \subseteq Tasks
         /\ Saved \in [Tasks -> TaskStates \cup {"absent"}]
         /\ Cleared(records) \in [Tasks -> TaskStates \cup {"absent"}]
         /\ \A t \in Tasks : /\ Saved[t] = "absent" <=> records[t] = "absent"
                             /\ Cleared(records)[t] = "absent" <=> records[t] = "absent"
                             /\ t # task => Saved[t] = records[t]
                             /\ records[t] # "QUEUED" => Cleared(records)[t] = records[t]
         /\ task # None => Saved[task] = state /\ Cleared(records)[task] = records[task]
         /\ \A i \in DOMAIN queued :
              /\ queued[i] \in Tasks \ {task} /\ executing[queued[i]] = "none"
              /\ records[queued[i]] = "QUEUED" /\ queued[i] \notin cancelling
         /\ queued # <<>> => /\ 1 \in DOMAIN queued /\ Head(queued) = queued[1]
                            /\ state = "RUNNING" /\ ~closed
<1>1. /\ TypeOK /\ Tables /\ QueueWaitsForRunning
      /\ queued \in Seq(Tasks) /\ records \in [Tasks -> TaskStates \cup {"absent"}]
  BY DEF RInv, Queue, TypeOK
<1>2. \A i \in DOMAIN queued :
        /\ queued[i] \in Tasks /\ executing[queued[i]] = "none"
        /\ records[queued[i]] = "QUEUED" /\ queued[i] # task /\ queued[i] \notin cancelling
  BY <1>1, QueueType, NoneAssumption DEF QueueWaitsForRunning, Tables
<1>3. queued # <<>> => 1 \in DOMAIN queued /\ Head(queued) = queued[1]
  BY <1>1, EmptySeq, LenProperties
<1>4. \A t \in Tasks : /\ Cleared(records)[t] = "absent" <=> records[t] = "absent"
                       /\ records[t] # "QUEUED" => Cleared(records)[t] = records[t]
  BY <1>1, <1>2, ClearedRecords
<1>5. task # None => Cleared(records)[task] = records[task]
  BY <1>1, <1>2, ClearedRecords DEF TypeOK
<1>6. /\ task \in Tasks \cup {None} /\ cancelling \subseteq Tasks
      /\ executing \in [Tasks -> {"none", "preflight", "steps", "done"}]
      /\ queued # <<>> => state = "RUNNING" /\ ~closed
  BY <1>1 DEF TypeOK, QueueWaitsForRunning
<1>7. Cleared(records) \in [Tasks -> TaskStates \cup {"absent"}]
  BY <1>1, ClearedRecords
<1>8. /\ Saved \in [Tasks -> TaskStates \cup {"absent"}]
      /\ \A t \in Tasks : /\ Saved[t] = "absent" <=> records[t] = "absent"
                          /\ t # task => Saved[t] = records[t]
      /\ task # None => Saved[task] = state
  BY <1>1, SavedRecords
<1> QED
  BY <1>1, <1>2, <1>3, <1>4, <1>5, <1>6, <1>7, <1>8, NoneAssumption

\* No task that a suspended start is alone with is touched by the other steps.
LEMMA CallsKept ==
  ASSUME TypeOK, CallsFresh, UNCHANGED calls,
         \A h \in Handlers : calls[h] # None /\ records[calls[h].task] = "absent"
                               => records'[calls[h].task] = "absent"
  PROVE  CallsFresh'
BY DEF CallsFresh

\* No step brings a start that is under way together with its task.
LEMMA CallsStep == RInv /\ [Next]_vars => CallsFresh'
<1> SUFFICES ASSUME RInv, [Next]_vars PROVE CallsFresh'
  OBVIOUS
<1>0. /\ TypeOK /\ CallsFresh /\ Tables
      /\ calls \in [Handlers -> Call \cup {None}]
      /\ \A h \in Handlers : calls[h] # None => calls[h].task \in Tasks
  BY DEF RInv, TypeOK, Call
<1>1. ASSUME NEW h \in Handlers, NEW t \in Tasks, CallStart(h, t) PROVE CallsFresh'
  BY <1>1, <1>0, TableFacts DEF CallStart, current, tables, Call, CallsFresh
<1>2. ASSUME NEW h \in Handlers, NEW t \in Tasks, CallEnqueue(h, t) PROVE CallsFresh'
  BY <1>2, <1>0, TableFacts DEF CallEnqueue, current, tables, Call, CallsFresh
<1>3. ASSUME NEW h \in Handlers, CallRefused(h) PROVE CallsFresh'
  BY <1>3, <1>0, TableFacts DEF CallRefused, current, tables, Call, CallsFresh
<1>4. ASSUME NEW h \in Handlers, StartAccepted(h) PROVE CallsFresh'
  BY <1>4, <1>0, TableFacts DEF StartAccepted, Activate, Spawned, Uninterrupted, Call,
     CallsFresh
<1>5. ASSUME NEW h \in Handlers, EnqueueAccepted(h) PROVE CallsFresh'
  BY <1>5, <1>0, TableFacts DEF EnqueueAccepted, Unseen, Uninterrupted, current, Call,
     CallsFresh
<1>6. ASSUME NEW g \in Goals, Goal(g) PROVE CallsFresh'
  BY <1>6, <1>0, TableFacts, CallsKept DEF Goal, current
<1>7. ASSUME PlanThought PROVE CallsFresh'
  BY <1>7, <1>0, TableFacts, CallsKept DEF PlanThought, PlannerAt, current, tables
<1>8. ASSUME PlanObsolete PROVE CallsFresh'
  BY <1>8, <1>0, TableFacts, CallsKept DEF PlanObsolete, PlannerAt, PlanEnds, current
<1>9. ASSUME PlanNotExecuted PROVE CallsFresh'
  BY <1>9, <1>0, TableFacts, CallsKept DEF PlanNotExecuted, PlannerAt, PlanEnds, current
<1>10. ASSUME PlanDoubted PROVE CallsFresh'
  BY <1>10, <1>0, TableFacts, CallsKept DEF PlanDoubted, PlannerAt, current, tables
<1>11. ASSUME PlanFailed PROVE CallsFresh'
  BY <1>11, <1>0, TableFacts, CallsKept DEF PlanFailed, PlannerAt, PlanEnds, current
<1>12. ASSUME PlanCancelled PROVE CallsFresh'
  BY <1>12, <1>0, TableFacts, CallsKept DEF PlanCancelled, current
<1>13. ASSUME NEW t \in Tasks, PlanExecuted(t) PROVE CallsFresh'
  BY <1>13, <1>0, TableFacts, CallsKept DEF PlanExecuted, PlannerAt, Activate, Spawned
<1>14. ASSUME NEW t \in Tasks, ExecuteStale(t) PROVE CallsFresh'
  BY <1>14, <1>0, TableFacts, CallsKept DEF ExecuteStale, Running, Ended, current, tables
<1>15. ASSUME NEW t \in Tasks, PreflightPassed(t) PROVE CallsFresh'
  BY <1>15, <1>0, TableFacts, CallsKept DEF PreflightPassed, Running, current, tables
<1>16. ASSUME NEW t \in Tasks, ExecuteFailed(t) PROVE CallsFresh'
  BY <1>16, <1>0, TableFacts, CallsKept DEF ExecuteFailed, Running, Active, Ended,
     QueueAfterFailure
<1>17. ASSUME NEW t \in Tasks, ExecuteSucceeded(t) PROVE CallsFresh'
  BY <1>17, <1>0, TableFacts, CallsKept DEF ExecuteSucceeded, Running, Active, Ended,
     Spawned, tables
<1>18. ASSUME NEW t \in Tasks, CancelQueued(t) PROVE CallsFresh'
  BY <1>18, <1>0, TableFacts, CallsKept DEF CancelQueued, current, workers
<1>19. ASSUME NEW t \in Tasks, FinishCancel(t) PROVE CallsFresh'
  BY <1>19, <1>0, TableFacts, CallsKept DEF FinishCancel, Tables
<1>20. ASSUME CancelCurrent PROVE CallsFresh'
  BY <1>20, <1>0, TableFacts, CallsKept DEF CancelCurrent, BeginCancel
<1>21. ASSUME Interrupt PROVE CallsFresh'
  BY <1>21, <1>0, TableFacts, CallsKept DEF Interrupt, BeginCancel, Stoppable
<1>22. ASSUME Close PROVE CallsFresh'
  BY <1>22, <1>0, TableFacts, CallsKept DEF Close, BeginCancel, Stoppable
<1>23. ASSUME UNCHANGED vars PROVE CallsFresh'
  BY <1>0, TableFacts, <1>23, CallsKept DEF vars, current, tables, workers
<1> QED
  BY <1>1, <1>2, <1>3, <1>4, <1>5, <1>6, <1>7, <1>8, <1>9, <1>10, <1>11, <1>12, <1>13,
     <1>14, <1>15, <1>16, <1>17, <1>18, <1>19, <1>20, <1>21, <1>22, <1>23 DEF Next,
     PlanStep, Executes

\* The tables stay consistent with what is current, executed and cancelled.
LEMMA TablesStep == RInv /\ [Next]_vars => Tables'
<1> SUFFICES ASSUME RInv, [Next]_vars PROVE Tables'
  OBVIOUS
<1> USE DEF Tables, Planning, Settled
<1>0. Tables /\ CallsFresh /\ Planning /\ NoneAssumption
  BY NoneAssumption DEF RInv
<1>1. ASSUME NEW h \in Handlers, NEW t \in Tasks, CallStart(h, t) PROVE Tables'
  BY <1>1, <1>0, TableFacts DEF CallStart, current, tables
<1>2. ASSUME NEW h \in Handlers, NEW t \in Tasks, CallEnqueue(h, t) PROVE Tables'
  BY <1>2, <1>0, TableFacts DEF CallEnqueue, current, tables
<1>3. ASSUME NEW h \in Handlers, CallRefused(h) PROVE Tables'
  BY <1>3, <1>0, TableFacts DEF CallRefused, current, tables
<1>4. ASSUME NEW h \in Handlers, StartAccepted(h) PROVE Tables'
  <2>1. /\ calls[h].task \in Tasks \ {task}
        /\ records[calls[h].task] = "absent"
    BY <1>4, <1>0, TableFacts DEF StartAccepted, CallsFresh, RInv, TypeOK, Call
  <2> QED
    BY <1>4, <1>0, <2>1, TableFacts DEF StartAccepted, Activate, Spawned
<1>5. ASSUME NEW h \in Handlers, EnqueueAccepted(h) PROVE Tables'
  BY <1>5, <1>0, TableFacts DEF EnqueueAccepted, Unseen, Uninterrupted, current
<1>6. ASSUME NEW g \in Goals, Goal(g) PROVE Tables'
  BY <1>6, <1>0, TableFacts DEF Goal, current
<1>7. ASSUME PlanThought PROVE Tables'
  BY <1>7, <1>0, TableFacts DEF PlanThought, PlannerAt, current, tables
<1>8. ASSUME PlanObsolete PROVE Tables'
  BY <1>8, <1>0, TableFacts DEF PlanObsolete, PlannerAt, PlanEnds, current
<1>9. ASSUME PlanNotExecuted PROVE Tables'
  BY <1>9, <1>0, TableFacts DEF PlanNotExecuted, PlannerAt, PlanEnds, current
<1>10. ASSUME PlanDoubted PROVE Tables'
  BY <1>10, <1>0, TableFacts DEF PlanDoubted, PlannerAt, current, tables
<1>11. ASSUME PlanFailed PROVE Tables'
  BY <1>11, <1>0, TableFacts DEF PlanFailed, PlannerAt, PlanEnds, current
<1>12. ASSUME PlanCancelled PROVE Tables'
  BY <1>12, <1>0, TableFacts DEF PlanCancelled, current
<1>13. ASSUME NEW t \in Tasks, PlanExecuted(t) PROVE Tables'
  BY <1>13, <1>0, TableFacts DEF PlanExecuted, PlannerAt, Activate, Spawned
<1>14. ASSUME NEW t \in Tasks, ExecuteStale(t) PROVE Tables'
  BY <1>14, <1>0, TableFacts DEF ExecuteStale, Running, Ended, current, tables
<1>15. ASSUME NEW t \in Tasks, PreflightPassed(t) PROVE Tables'
  BY <1>15, <1>0, TableFacts DEF PreflightPassed, Running, current, tables
<1>16. ASSUME NEW t \in Tasks, ExecuteFailed(t) PROVE Tables'
  BY <1>16, <1>0, TableFacts DEF ExecuteFailed, Running, Active, Ended, QueueAfterFailure
<1>17. ASSUME NEW t \in Tasks, ExecuteSucceeded(t) PROVE Tables'
  BY <1>17, <1>0, TableFacts DEF ExecuteSucceeded, Running, Active, Ended, Spawned, tables
<1>18. ASSUME NEW t \in Tasks, CancelQueued(t) PROVE Tables'
  BY <1>18, <1>0, TableFacts DEF CancelQueued, current, workers
<1>19. ASSUME NEW t \in Tasks, FinishCancel(t) PROVE Tables'
  BY <1>19, <1>0, TableFacts DEF FinishCancel
<1>20. ASSUME CancelCurrent PROVE Tables'
  BY <1>20, <1>0, TableFacts DEF CancelCurrent, BeginCancel
<1>21. ASSUME Interrupt PROVE Tables'
  BY <1>21, <1>0, TableFacts DEF Interrupt, BeginCancel, Stoppable
<1>22. ASSUME Close PROVE Tables'
  BY <1>22, <1>0, TableFacts DEF Close, BeginCancel, Stoppable
<1>23. ASSUME UNCHANGED vars PROVE Tables'
  BY <1>0, TableFacts, <1>23 DEF vars, current, tables, workers
<1> QED
  BY <1>1, <1>2, <1>3, <1>4, <1>5, <1>6, <1>7, <1>8, <1>9, <1>10, <1>11, <1>12, <1>13,
     <1>14, <1>15, <1>16, <1>17, <1>18, <1>19, <1>20, <1>21, <1>22, <1>23 DEF Next,
     PlanStep, Executes

\* What the invariant says of the planner and of the goals.
LEMMA PlanFacts ==
  ASSUME RInv
  PROVE  /\ goals \in [Goals -> GoalStates \cup {"absent"}]
         /\ planning \in [id : Goals \cup {None}, state : GoalStates \cup {"IDLE"}]
         /\ executing \in [Tasks -> {"none", "preflight", "steps", "done"}]
         /\ None \notin Goals /\ None \notin Tasks
         /\ \A g \in Goals : Staled[g] # "WAITING"
         /\ Dropped.id = None /\ Idle.id = None
         /\ planner \in Planner \cup {None} /\ None \notin Planner
         /\ planner # None =>
              /\ planner.goal \in Goals /\ planner.task \in Tasks \cup {None}
              /\ PlannerCancelled # None
              /\ PlannerCancelled.goal = planner.goal /\ PlannerCancelled.task = planner.task
              /\ PlannerCancelled.serial = planner.serial /\ PlannerCancelled.pc = planner.pc
         /\ planner = None => PlannerCancelled = None
<1>1. TypeOK /\ NoGoalForgotten
  BY DEF RInv, Planning
<1>2. planner # None => planner.goal \in Goals /\ planner.task \in Tasks \cup {None}
  BY <1>1, RecordAssumption DEF TypeOK, Planner
<1>3. Dropped.id = None /\ Idle.id = None
  BY <1>1, DroppedPlanning
<1>4. \A g \in Goals : Staled[g] # "WAITING"
  BY <1>1, StaledGoals
<1> QED
  BY <1>1, <1>2, <1>3, <1>4, FlaggedPlanner, NoneAssumption, RecordAssumption DEF TypeOK

\* No goal is forgotten, and the planner belongs to it.
LEMMA PlanningStep == RInv /\ [Next]_vars => Planning'
<1> SUFFICES ASSUME RInv, [Next]_vars PROVE Planning'
  OBVIOUS
<1> USE DEF Planning, NoGoalForgotten, PlanningCurrent
<1>0. Planning
  BY DEF RInv
<1>1. ASSUME NEW h \in Handlers, NEW t \in Tasks, CallStart(h, t) PROVE Planning'
  BY <1>1, <1>0, PlanFacts DEF CallStart, current, tables
<1>2. ASSUME NEW h \in Handlers, NEW t \in Tasks, CallEnqueue(h, t) PROVE Planning'
  BY <1>2, <1>0, PlanFacts DEF CallEnqueue, current, tables
<1>3. ASSUME NEW h \in Handlers, CallRefused(h) PROVE Planning'
  BY <1>3, <1>0, PlanFacts DEF CallRefused, current, tables
<1>4. ASSUME NEW h \in Handlers, StartAccepted(h) PROVE Planning'
  BY <1>4, <1>0, PlanFacts DEF StartAccepted, Activate, Spawned, Uninterrupted
<1>5. ASSUME NEW h \in Handlers, EnqueueAccepted(h) PROVE Planning'
  BY <1>5, <1>0, PlanFacts DEF EnqueueAccepted, Unseen, Uninterrupted, current
<1>6. ASSUME NEW g \in Goals, Goal(g) PROVE Planning'
  <2>1. planner' \in Planner
    BY <1>6, RecordAssumption DEF Goal, Planner, RInv, TypeOK
  <2>2. /\ planner'.goal = g /\ planner'.serial = serial /\ planner'.task = None
        /\ planner'.pc = "thinking"
    BY <1>6 DEF Goal
  <2>3. \A k \in Goals : goals'[k] = "WAITING" => k = g
    BY <1>6, <1>0, PlanFacts DEF Goal
  <2> QED
    BY <1>6, <2>1, <2>2, <2>3, PlanFacts DEF Goal
<1>7. ASSUME PlanThought PROVE Planning'
  BY <1>7, <1>0, PlanFacts DEF PlanThought, PlannerAt, current, tables, Planner
<1>8. ASSUME PlanObsolete PROVE Planning'
  BY <1>8, <1>0, PlanFacts DEF PlanObsolete, PlannerAt, PlanEnds, current
<1>9. ASSUME PlanNotExecuted PROVE Planning'
  BY <1>9, <1>0, PlanFacts DEF PlanNotExecuted, PlannerAt, PlanEnds, current
<1>10. ASSUME PlanDoubted PROVE Planning'
  BY <1>10, <1>0, PlanFacts DEF PlanDoubted, PlannerAt, current, tables, Planner
<1>11. ASSUME PlanFailed PROVE Planning'
  BY <1>11, <1>0, PlanFacts DEF PlanFailed, PlannerAt, PlanEnds, current
<1>12. ASSUME PlanCancelled PROVE Planning'
  BY <1>12, <1>0, PlanFacts DEF PlanCancelled, current
<1>13. ASSUME NEW t \in Tasks, PlanExecuted(t) PROVE Planning'
  BY <1>13, <1>0, PlanFacts DEF PlanExecuted, PlannerAt, Activate, Spawned, Planner
<1>14. ASSUME NEW t \in Tasks, ExecuteStale(t) PROVE Planning'
  BY <1>14, <1>0, PlanFacts DEF ExecuteStale, Running, Ended, current, tables
<1>15. ASSUME NEW t \in Tasks, PreflightPassed(t) PROVE Planning'
  BY <1>15, <1>0, PlanFacts DEF PreflightPassed, Running, current, tables
<1>16. ASSUME NEW t \in Tasks, ExecuteFailed(t) PROVE Planning'
  BY <1>16, <1>0, PlanFacts DEF ExecuteFailed, Running, Active, Ended, QueueAfterFailure
<1>17. ASSUME NEW t \in Tasks, ExecuteSucceeded(t) PROVE Planning'
  BY <1>17, <1>0, PlanFacts DEF ExecuteSucceeded, Running, Active, Ended, Spawned, tables
<1>18. ASSUME NEW t \in Tasks, CancelQueued(t) PROVE Planning'
  BY <1>18, <1>0, PlanFacts DEF CancelQueued, current, workers
<1>19. ASSUME NEW t \in Tasks, FinishCancel(t) PROVE Planning'
  BY <1>19, <1>0, PlanFacts DEF FinishCancel
<1>20. ASSUME CancelCurrent PROVE Planning'
  BY <1>20, <1>0, PlanFacts DEF CancelCurrent, BeginCancel
<1>21. ASSUME Interrupt PROVE Planning'
  BY <1>21, <1>0, PlanFacts DEF Interrupt, BeginCancel, Stoppable
<1>22. ASSUME Close PROVE Planning'
  BY <1>22, <1>0, PlanFacts DEF Close, BeginCancel, Stoppable
<1>23. ASSUME UNCHANGED vars PROVE Planning'
  BY <1>0, PlanFacts, <1>23 DEF vars, current, tables, workers
<1> QED
  BY <1>1, <1>2, <1>3, <1>4, <1>5, <1>6, <1>7, <1>8, <1>9, <1>10, <1>11, <1>12, <1>13,
     <1>14, <1>15, <1>16, <1>17, <1>18, <1>19, <1>20, <1>21, <1>22, <1>23 DEF Next,
     PlanStep, Executes

\* A sequence without its i-th element.
LEMMA RemovedAt ==
  ASSUME NEW S, NEW s \in Seq(S), NEW i \in 1 .. Len(s)
  PROVE  LET r == SubSeq(s, 1, i - 1) \o SubSeq(s, i + 1, Len(s)) IN
         /\ r \in Seq(S) /\ DOMAIN r = 1 .. Len(s) - 1
         /\ \A k \in 1 .. Len(s) - 1 : r[k] = IF k < i THEN s[k] ELSE s[k + 1]
<1> DEFINE a == SubSeq(s, 1, i - 1)
           b == SubSeq(s, i + 1, Len(s))
           r == a \o b
<1>1. /\ Len(s) \in Nat /\ \A k \in 1 .. Len(s) : s[k] \in S
  BY LenProperties
<1>2. a \in Seq(S) /\ Len(a) = i - 1 /\ \A k \in 1 .. i - 1 : a[k] = s[k]
  BY <1>1, SubSeqProperties
<1>3. /\ b \in Seq(S) /\ Len(b) = Len(s) - i
      /\ \A k \in 1 .. Len(s) - i : b[k] = s[i + k]
  BY <1>1, SubSeqProperties
<1> HIDE DEF a, b
<1>4. /\ r \in Seq(S) /\ Len(r) = Len(s) - 1
      /\ \A k \in 1 .. Len(s) - 1 : r[k] = IF k <= i - 1 THEN a[k] ELSE b[k - (i - 1)]
  <2>1. /\ r \in Seq(S) /\ Len(r) = Len(a) + Len(b)
        /\ \A k \in 1 .. Len(a) + Len(b) : r[k] = IF k <= Len(a) THEN a[k] ELSE b[k - Len(a)]
    BY <1>2, <1>3, ConcatProperties
  <2>2. Len(a) + Len(b) = Len(s) - 1
    BY <1>1, <1>2, <1>3
  <2> QED
    BY <1>2, <2>1, <2>2
<1>5. DOMAIN r = 1 .. Len(s) - 1
  BY <1>4, LenProperties
<1>6. \A k \in 1 .. Len(s) - 1 : r[k] = IF k < i THEN s[k] ELSE s[k + 1]
  <2> SUFFICES ASSUME NEW k \in 1 .. Len(s) - 1
               PROVE  r[k] = IF k < i THEN s[k] ELSE s[k + 1]
    OBVIOUS
  <2> HIDE DEF r
  <2>1. CASE k < i
    BY <1>1, <1>2, <1>4, <2>1
  <2>2. CASE k >= i
    <3>1. k - (i - 1) \in 1 .. Len(s) - i /\ i + (k - (i - 1)) = k + 1
      BY <1>1, <2>2
    <3> QED
      BY <1>1, <1>3, <1>4, <2>2, <3>1
  <2> QED
    BY <1>1, <2>1, <2>2
<1> QED
  BY <1>4, <1>5, <1>6 DEF a, b

\* What the invariant says of the queue.
LEMMA QueueFacts ==
  ASSUME RInv
  PROVE  /\ queued \in Seq(Tasks) /\ Len(queued) \in Nat /\ DOMAIN queued = 1 .. Len(queued)
         /\ born \in [Tasks -> Nat] /\ serial \in Nat
         /\ \A h \in Handlers : calls[h] # None => calls[h].task \in Tasks
         /\ \A i, j \in 1 .. Len(queued) : i # j => queued[i] # queued[j]
         /\ \A i \in 1 .. Len(queued) : born[queued[i]] = serial
         /\ planner # None /\ planning.id = planner.goal => planner.serial = serial
<1>1. queued \in Seq(Tasks) /\ born \in [Tasks -> Nat] /\ serial \in Nat
  BY DEF RInv, TypeOK
<1>2. \A h \in Handlers : calls[h] # None => calls[h].task \in Tasks
  BY DEF RInv, TypeOK, Call
<1> QED
  BY <1>1, <1>2, LenProperties DEF RInv, Queue, QueueWaitsForRunning, Planning

\* A queue stays in order if it only holds tasks that were queued before, each
\* once, and these are left alone.
LEMMA QueueKept ==
  ASSUME RInv, queued' \in Seq(Tasks),
         \A i \in DOMAIN queued' : \E k \in DOMAIN queued : queued'[i] = queued[k],
         \A i, j \in DOMAIN queued' : i # j => queued'[i] # queued'[j],
         queued' # <<>> => state' = "RUNNING" /\ ~closed' /\ serial' = serial,
         \A i \in DOMAIN queued' : /\ executing'[queued'[i]] = executing[queued'[i]]
                                   /\ records'[queued'[i]] = records[queued'[i]]
                                   /\ born'[queued'[i]] = born[queued'[i]]
  PROVE  Queue'
<1>1. \A i \in DOMAIN queued' : queued' # <<>>
  BY LenProperties, EmptySeq
<1> QED
  BY <1>1, TableFacts, QueueFacts DEF Queue, QueueWaitsForRunning

\* So does a queue that stays as it is.
LEMMA QueueSame ==
  ASSUME RInv, queued' = queued,
         queued # <<>> => state' = "RUNNING" /\ ~closed' /\ serial' = serial,
         \A i \in DOMAIN queued : /\ executing'[queued[i]] = executing[queued[i]]
                                  /\ records'[queued[i]] = records[queued[i]]
                                  /\ born'[queued[i]] = born[queued[i]]
  PROVE  Queue'
<1>1. \A i \in DOMAIN queued : queued # <<>>
  BY QueueFacts
<1> QED
  BY <1>1, TableFacts, QueueFacts DEF Queue, QueueWaitsForRunning

\* An empty queue is in order.
LEMMA QueueEmpty ==
  ASSUME queued' = <<>>
  PROVE  Queue'
BY DEF Queue, QueueWaitsForRunning

\* The queue waits for a running task and holds nothing older than the latest interrupt.
LEMMA QueueStep == RInv /\ [Next]_vars => Queue'
<1> SUFFICES ASSUME RInv, [Next]_vars PROVE Queue'
  OBVIOUS
<1>0. Tables /\ CallsFresh
  BY DEF RInv
<1>1. ASSUME NEW h \in Handlers, NEW t \in Tasks, CallStart(h, t) PROVE Queue'
  BY <1>1, <1>0, TableFacts, QueueFacts, QueueSame DEF CallStart, current, tables
<1>2. ASSUME NEW h \in Handlers, NEW t \in Tasks, CallEnqueue(h, t) PROVE Queue'
  BY <1>2, <1>0, TableFacts, QueueFacts, QueueSame DEF CallEnqueue, current, tables
<1>3. ASSUME NEW h \in Handlers, CallRefused(h) PROVE Queue'
  BY <1>3, <1>0, TableFacts, QueueFacts, QueueSame DEF CallRefused, current, tables
<1>4. ASSUME NEW h \in Handlers, StartAccepted(h) PROVE Queue'
  <2>1. records[calls[h].task] = "absent"
    BY <1>4, <1>0 DEF StartAccepted, CallsFresh
  <2>2. \A i \in DOMAIN queued : queued[i] # calls[h].task
    BY <2>1, TableFacts
  <2> QED
    BY <1>4, <2>1, <2>2, TableFacts, QueueFacts, QueueSame
    DEF StartAccepted, Activate, Spawned, Uninterrupted
<1>5. ASSUME NEW h \in Handlers, EnqueueAccepted(h) PROVE Queue'
  <2> DEFINE u == calls[h].task
  <2>1. u \in Tasks /\ records[u] = "absent" /\ executing[u] = "none"
    BY <1>5, <1>0, TableFacts, QueueFacts DEF EnqueueAccepted, Unseen, Tables
  <2>2. /\ queued' = Append(queued, u) /\ records' = [records EXCEPT ![u] = "QUEUED"]
        /\ born' = [born EXCEPT ![u] = serial] /\ state' = "RUNNING" /\ ~closed'
        /\ UNCHANGED <<executing, serial>>
    BY <1>5 DEF EnqueueAccepted, Uninterrupted, current
  <2> HIDE DEF u
  <2>3. /\ DOMAIN queued' = 1 .. Len(queued) + 1 /\ queued'[Len(queued) + 1] = u
        /\ \A i \in 1 .. Len(queued) : queued'[i] = queued[i] /\ queued[i] # u
    BY <2>1, <2>2, TableFacts, QueueFacts
  <2> QED
    BY <2>1, <2>2, <2>3, TableFacts, QueueFacts DEF Queue, QueueWaitsForRunning
<1>6. ASSUME NEW g \in Goals, Goal(g) PROVE Queue'
  BY <1>6, <1>0, TableFacts, QueueFacts, QueueSame DEF Goal, current
<1>7. ASSUME PlanThought PROVE Queue'
  BY <1>7, <1>0, TableFacts, QueueFacts, QueueSame DEF PlanThought, PlannerAt, current, tables
<1>8. ASSUME PlanObsolete PROVE Queue'
  BY <1>8, <1>0, TableFacts, QueueFacts, QueueSame DEF PlanObsolete, PlannerAt, PlanEnds,
     current
<1>9. ASSUME PlanNotExecuted PROVE Queue'
  BY <1>9, <1>0, TableFacts, QueueFacts, QueueSame DEF PlanNotExecuted, PlannerAt, PlanEnds,
     current
<1>10. ASSUME PlanDoubted PROVE Queue'
  BY <1>10, <1>0, TableFacts, QueueFacts, QueueSame DEF PlanDoubted, PlannerAt, current, tables
<1>11. ASSUME PlanFailed PROVE Queue'
  <2>0. state' = state \/ task = None
    BY <1>11 DEF PlanFailed
  <2>1. state = "RUNNING" => state' = "RUNNING"
    BY <2>0, <1>0 DEF Tables
  <2> QED
    BY <1>11, <2>1, TableFacts, QueueSame DEF PlanFailed, PlanEnds
<1>12. ASSUME PlanCancelled PROVE Queue'
  <2>1. planner.task # None => executing[planner.task] # "none"
    BY <1>12, PlanFacts DEF PlanCancelled, RInv, Planning
  <2>2. \A i \in DOMAIN queued : executing'[queued[i]] = executing[queued[i]]
    BY <1>12, <2>1, TableFacts DEF PlanCancelled
  <2> QED
    BY <1>12, <2>2, TableFacts, QueueSame DEF PlanCancelled, current
<1>13. ASSUME NEW t \in Tasks, PlanExecuted(t) PROVE Queue'
  BY <1>13, <1>0, TableFacts, QueueFacts, QueueSame DEF PlanExecuted, PlannerAt, Activate,
     Spawned
<1>14. ASSUME NEW t \in Tasks, ExecuteStale(t) PROVE Queue'
  BY <1>14, <1>0, TableFacts, QueueFacts, QueueSame DEF ExecuteStale, Running, Ended,
     current, tables
<1>15. ASSUME NEW t \in Tasks, PreflightPassed(t) PROVE Queue'
  BY <1>15, <1>0, TableFacts, QueueFacts, QueueSame DEF PreflightPassed, Running, current,
     tables
<1>16. ASSUME NEW t \in Tasks, ExecuteFailed(t) PROVE Queue'
  BY <1>16, <1>0, TableFacts, QueueFacts, QueueEmpty DEF ExecuteFailed, Running, Active,
     Ended, QueueAfterFailure
<1>17. ASSUME NEW t \in Tasks, ExecuteSucceeded(t) PROVE Queue'
  <2>1. CASE queued = <<>>
    BY <1>17, <2>1, QueueEmpty DEF ExecuteSucceeded, tables
  <2>2. CASE queued # <<>>
    <3>1. /\ queued' = Tail(queued) /\ state' = "RUNNING" /\ t = task
          /\ records' = [records EXCEPT ![t] = "SUCCEEDED"]
          /\ UNCHANGED <<closed, serial, born>> /\ ~closed
      BY <1>17, <2>2 DEF ExecuteSucceeded, Active
    <3>2. \A u \in Tasks \ {task, Head(queued)} : executing'[u] = executing[u]
      BY <1>17, <2>2, TableFacts DEF ExecuteSucceeded, Active
    <3>3. /\ Tail(queued) \in Seq(Tasks) /\ DOMAIN Tail(queued) = 1 .. Len(queued) - 1
          /\ \A i \in 1 .. Len(queued) - 1 : Tail(queued)[i] = queued[i + 1]
      BY <2>2, QueueFacts, HeadTailProperties, LenProperties
    <3>4. \A i \in 1 .. Len(queued) - 1 :
            /\ queued[i + 1] \in Tasks \ {task, Head(queued)}
            /\ i + 1 \in DOMAIN queued
            /\ \A j \in 1 .. Len(queued) - 1 : i # j => queued[j + 1] # queued[i + 1]
      BY <2>2, TableFacts, QueueFacts
    <3>5. /\ DOMAIN queued' = 1 .. Len(queued) - 1
          /\ \A i \in 1 .. Len(queued) - 1 : queued'[i] = queued[i + 1]
      BY <3>1, <3>3
    <3>6. /\ \A i \in DOMAIN queued' : \E k \in DOMAIN queued : queued'[i] = queued[k]
          /\ \A i, j \in DOMAIN queued' : i # j => queued'[i] # queued'[j]
      BY <3>4, <3>5
    <3>7. \A i \in DOMAIN queued' : /\ executing'[queued'[i]] = executing[queued'[i]]
                                    /\ records'[queued'[i]] = records[queued'[i]]
                                    /\ born'[queued'[i]] = born[queued'[i]]
      BY <3>1, <3>2, <3>4, <3>5, TableFacts
    <3> QED
      BY <3>1, <3>3, <3>6, <3>7, QueueKept
  <2> QED
    BY <2>1, <2>2
<1>18. ASSUME NEW t \in Tasks, CancelQueued(t) PROVE Queue'
  <2>1. PICK i \in 1 .. Len(queued) :
          /\ queued[i] = t
          /\ queued' = SubSeq(queued, 1, i - 1) \o SubSeq(queued, i + 1, Len(queued))
    BY <1>18, QueueFacts DEF CancelQueued
  <2>2. /\ queued' \in Seq(Tasks) /\ DOMAIN queued' = 1 .. Len(queued) - 1
        /\ \A k \in 1 .. Len(queued) - 1 :
             queued'[k] = IF k < i THEN queued[k] ELSE queued[k + 1]
    BY <2>1, QueueFacts, RemovedAt
  <2>len. i \in 1 .. Len(queued) /\ Len(queued) \in Nat
    BY <2>1, QueueFacts
  <2>3. \A k \in 1 .. Len(queued) - 1 : \E n \in 1 .. Len(queued) :
          n # i /\ queued'[k] = queued[n]
          /\ ((k < i /\ n = k) \/ (k >= i /\ n = k + 1))
    <3> SUFFICES ASSUME NEW k \in 1 .. Len(queued) - 1
                 PROVE  \E n \in 1 .. Len(queued) :
                          n # i /\ queued'[k] = queued[n]
                          /\ ((k < i /\ n = k) \/ (k >= i /\ n = k + 1))
      OBVIOUS
    <3>1. CASE k < i
      <4>1. k \in 1 .. Len(queued) /\ k # i /\ queued'[k] = queued[k]
        BY <2>2, <2>len, <3>1
      <4> QED
        BY <3>1, <4>1
    <3>2. CASE k >= i
      <4>1. k + 1 \in 1 .. Len(queued) /\ k + 1 # i /\ queued'[k] = queued[k + 1]
        BY <2>2, <2>len, <3>2
      <4> QED
        BY <3>2, <4>1
    <3> QED
      BY <2>len, <3>1, <3>2
  <2>4. /\ \A k, l \in 1 .. Len(queued) - 1 : k # l => queued'[k] # queued'[l]
        /\ \A k \in 1 .. Len(queued) - 1 : queued'[k] \in Tasks \ {t}
    <3>1. \A k \in 1 .. Len(queued) - 1 : queued'[k] \in Tasks \ {t}
      <4>1. \A n \in 1 .. Len(queued) : queued[n] \in Tasks
        BY TableFacts, QueueFacts
      <4>2. \A n \in 1 .. Len(queued) : n # i => queued[n] # t
        BY <2>1, QueueFacts
      <4> QED
        BY <2>3, <4>1, <4>2
    <3>2. ASSUME NEW k \in 1 .. Len(queued) - 1, NEW l \in 1 .. Len(queued) - 1, k # l
          PROVE  queued'[k] # queued'[l]
      <4>1. PICK m \in 1 .. Len(queued) :
              queued'[k] = queued[m] /\ ((k < i /\ m = k) \/ (k >= i /\ m = k + 1))
        BY <2>3
      <4>2. PICK n \in 1 .. Len(queued) :
              queued'[l] = queued[n] /\ ((l < i /\ n = l) \/ (l >= i /\ n = l + 1))
        BY <2>3
      <4>3. m # n
        BY <2>2, <3>2, <4>1, <4>2, QueueFacts
      <4> QED
        BY <4>1, <4>2, <4>3, QueueFacts
    <3> QED
      BY <3>1, <3>2
  <2>5. /\ records' = [records EXCEPT ![t] = "CANCELLED"]
        /\ UNCHANGED <<state, closed, serial, executing, born>>
    BY <1>18 DEF CancelQueued, current, workers
  <2>6. queued # <<>>
    BY <2>1, QueueFacts
  <2>7. \A k \in DOMAIN queued' : records'[queued'[k]] = records[queued'[k]]
    BY <2>2, <2>4, <2>5, TableFacts
  <2>8. \A k \in DOMAIN queued' : \E n \in DOMAIN queued : queued'[k] = queued[n]
    BY <2>2, <2>3, QueueFacts
  <2> QED
    BY <2>2, <2>4, <2>5, <2>6, <2>7, <2>8, TableFacts, QueueKept
<1>19. ASSUME NEW t \in Tasks, FinishCancel(t) PROVE Queue'
  <2>1. queued # <<>> => task # t
    BY <1>19, <1>0, TableFacts DEF FinishCancel, Tables
  <2> QED
    BY <1>19, <2>1, TableFacts, QueueEmpty, QueueSame DEF FinishCancel
<1>20. ASSUME CancelCurrent PROVE Queue'
  BY <1>20, <1>0, TableFacts, QueueFacts, QueueEmpty, QueueSame DEF CancelCurrent, BeginCancel
<1>21. ASSUME Interrupt PROVE Queue'
  BY <1>21, <1>0, TableFacts, QueueFacts, QueueEmpty DEF Interrupt, BeginCancel, Stoppable
<1>22. ASSUME Close PROVE Queue'
  BY <1>22, <1>0, TableFacts, QueueFacts, QueueEmpty DEF Close, BeginCancel, Stoppable
<1>23. ASSUME UNCHANGED vars PROVE Queue'
  BY <1>0, TableFacts, QueueFacts, <1>23, QueueSame DEF vars, current, tables, workers
<1> QED
  BY <1>1, <1>2, <1>3, <1>4, <1>5, <1>6, <1>7, <1>8, <1>9, <1>10, <1>11, <1>12, <1>13,
     <1>14, <1>15, <1>16, <1>17, <1>18, <1>19, <1>20, <1>21, <1>22, <1>23 DEF Next,
     PlanStep, Executes

-------------------------------------------------------------------------------
(* The theorems.                                                           *)

\* The invariant is inductive.
THEOREM RuntimeInvariant == Spec => []RInv
<1>1. Init => RInv
  <2> SUFFICES ASSUME Init PROVE RInv
    OBVIOUS
  <2>1. TypeOK
    BY EmptySeq DEF Init, TypeOK, GoalStates
  <2>2. Tables /\ CallsFresh
    BY NoneAssumption DEF Init, Tables, CallsFresh, Settled
  <2>3. Queue
    BY DEF Init, Queue, QueueWaitsForRunning
  <2>4. Planning
    BY DEF Init, Planning, NoGoalForgotten
  <2> QED
    BY <2>1, <2>2, <2>3, <2>4 DEF RInv
<1>2. RInv /\ [Next]_vars => RInv'
  BY TypeStep, TablesStep, CallsStep, QueueStep, PlanningStep DEF RInv
<1> QED
  BY <1>1, <1>2, PTL DEF Spec

\* Every variable has its type, whatever is suspended, cancelled or refused.
THEOREM TypeCorrect == Spec => []TypeOK
<1>1. RInv => TypeOK
  BY DEF RInv
<1> QED
  BY <1>1, RuntimeInvariant, PTL

\* A goal that is reported as WAITING is being worked on by the planner.
THEOREM GoalsAreWorkedOn == Spec => []NoGoalForgotten
<1>1. RInv => NoGoalForgotten
  BY DEF RInv, Planning
<1> QED
  BY <1>1, RuntimeInvariant, PTL

\* The queue waits for a running task: no stop and no failure leaves a task behind.
THEOREM QueueIsBehindRunning == Spec => []QueueWaitsForRunning
<1>1. RInv => QueueWaitsForRunning
  BY DEF RInv, Queue
<1> QED
  BY <1>1, RuntimeInvariant, PTL

\* No task starts that was asked for before the latest interrupt.
THEOREM InterruptsCoverAll == Spec => InterruptCoversAll
<1>1. RInv /\ [Next]_vars => [task' # task => born'[task'] = serial' /\ ~closed']_vars
  <2> DEFINE NewTask == task' # task => born'[task'] = serial' /\ ~closed'
  <2> SUFFICES ASSUME RInv, Next PROVE NewTask
    OBVIOUS
  <2>1. ASSUME NEW h \in Handlers, NEW t \in Tasks, CallStart(h, t) PROVE NewTask
    BY <2>1, TableFacts DEF CallStart, current, tables
  <2>2. ASSUME NEW h \in Handlers, NEW t \in Tasks, CallEnqueue(h, t) PROVE NewTask
    BY <2>2, TableFacts DEF CallEnqueue, current, tables
  <2>3. ASSUME NEW h \in Handlers, CallRefused(h) PROVE NewTask
    BY <2>3, TableFacts DEF CallRefused, current, tables
  <2>4. ASSUME NEW h \in Handlers, StartAccepted(h) PROVE NewTask
    BY <2>4, TableFacts, QueueFacts DEF StartAccepted, Activate, Uninterrupted
  <2>5. ASSUME NEW h \in Handlers, EnqueueAccepted(h) PROVE NewTask
    BY <2>5, TableFacts DEF EnqueueAccepted, Unseen, Uninterrupted, current
  <2>6. ASSUME NEW g \in Goals, Goal(g) PROVE NewTask
    BY <2>6, TableFacts DEF Goal, current
  <2>7. ASSUME PlanThought PROVE NewTask
    BY <2>7, TableFacts DEF PlanThought, PlannerAt, current, tables
  <2>8. ASSUME PlanObsolete PROVE NewTask
    BY <2>8, TableFacts DEF PlanObsolete, PlannerAt, PlanEnds, current
  <2>9. ASSUME PlanNotExecuted PROVE NewTask
    BY <2>9, TableFacts DEF PlanNotExecuted, PlannerAt, PlanEnds, current
  <2>10. ASSUME PlanDoubted PROVE NewTask
    BY <2>10, TableFacts DEF PlanDoubted, PlannerAt, current, tables
  <2>11. ASSUME PlanFailed PROVE NewTask
    BY <2>11, TableFacts DEF PlanFailed, PlannerAt, PlanEnds, current
  <2>12. ASSUME PlanCancelled PROVE NewTask
    BY <2>12, TableFacts DEF PlanCancelled, current
  <2>13. ASSUME NEW t \in Tasks, PlanExecuted(t) PROVE NewTask
    BY <2>13, TableFacts, QueueFacts DEF PlanExecuted, Activate, PlannerAt, PlanningCurrent
  <2>14. ASSUME NEW t \in Tasks, ExecuteStale(t) PROVE NewTask
    BY <2>14, TableFacts DEF ExecuteStale, Running, Ended, current, tables
  <2>15. ASSUME NEW t \in Tasks, PreflightPassed(t) PROVE NewTask
    BY <2>15, TableFacts DEF PreflightPassed, Running, current, tables
  <2>16. ASSUME NEW t \in Tasks, ExecuteFailed(t) PROVE NewTask
    BY <2>16, TableFacts DEF ExecuteFailed, Running, Active, Ended, QueueAfterFailure
  <2>17. ASSUME NEW t \in Tasks, ExecuteSucceeded(t) PROVE NewTask
    BY <2>17, TableFacts, QueueFacts DEF ExecuteSucceeded, Active, tables
  <2>18. ASSUME NEW t \in Tasks, CancelQueued(t) PROVE NewTask
    BY <2>18, TableFacts DEF CancelQueued, current, workers
  <2>19. ASSUME NEW t \in Tasks, FinishCancel(t) PROVE NewTask
    BY <2>19, TableFacts DEF FinishCancel
  <2>20. ASSUME CancelCurrent PROVE NewTask
    BY <2>20, TableFacts DEF CancelCurrent, BeginCancel
  <2>21. ASSUME Interrupt PROVE NewTask
    BY <2>21, TableFacts DEF Interrupt, BeginCancel, Stoppable
  <2>22. ASSUME Close PROVE NewTask
    BY <2>22, TableFacts DEF Close, BeginCancel, Stoppable
  <2> QED
    BY <2>1, <2>2, <2>3, <2>4, <2>5, <2>6, <2>7, <2>8, <2>9, <2>10, <2>11, <2>12, <2>13,
       <2>14, <2>15, <2>16, <2>17, <2>18, <2>19, <2>20, <2>21, <2>22 DEF Next, PlanStep,
       Executes
<1> QED
  BY <1>1, RuntimeInvariant, PTL DEF Spec, InterruptCoversAll

\* A settled state stands at every step.
LEMMA SettledStep == RInv /\ [Next]_vars
  => \A t \in Tasks : Visible(t) \in Settled => Visible(t)' = Visible(t)
<1> SUFFICES ASSUME RInv, [Next]_vars
             PROVE  \A t \in Tasks : Visible(t) \in Settled => Visible(t)' = Visible(t)
  OBVIOUS
<1> USE DEF Settled
<1>0. /\ Tables /\ CallsFresh
      /\ \A t \in Tasks : Visible(t) = IF t = task THEN state ELSE records[t]
      /\ \A t \in Tasks : Visible(t)' = IF t = task' THEN state' ELSE records'[t]
  <2>1. TypeOK /\ Tables /\ TypeOK' /\ Tables'
    BY TypeStep, TablesStep DEF RInv
  <2> QED
    BY <2>1, NoneAssumption DEF RInv, TypeOK, Tables, Visible, Saved
<1> SUFFICES ASSUME NEW u \in Tasks, (IF u = task THEN state ELSE records[u]) \in Settled
             PROVE  (IF u = task' THEN state' ELSE records'[u])
                      = (IF u = task THEN state ELSE records[u])
  BY <1>0
<1> DEFINE Stands == (IF u = task' THEN state' ELSE records'[u])
                       = (IF u = task THEN state ELSE records[u])
<1>1. ASSUME NEW h \in Handlers, NEW t \in Tasks, CallStart(h, t) PROVE Stands
  BY <1>1, <1>0, TableFacts DEF CallStart, current, tables
<1>2. ASSUME NEW h \in Handlers, NEW t \in Tasks, CallEnqueue(h, t) PROVE Stands
  BY <1>2, <1>0, TableFacts DEF CallEnqueue, current, tables
<1>3. ASSUME NEW h \in Handlers, CallRefused(h) PROVE Stands
  BY <1>3, <1>0, TableFacts DEF CallRefused, current, tables
<1>4. ASSUME NEW h \in Handlers, StartAccepted(h) PROVE Stands
  <2>1. records[calls[h].task] = "absent"
    BY <1>4, <1>0 DEF StartAccepted, CallsFresh
  <2> QED
    BY <1>4, <2>1, TableFacts, QueueFacts DEF StartAccepted, Activate, Settled
<1>5. ASSUME NEW h \in Handlers, EnqueueAccepted(h) PROVE Stands
  BY <1>5, <1>0, TableFacts DEF EnqueueAccepted, Unseen, Uninterrupted, current
<1>6. ASSUME NEW g \in Goals, Goal(g) PROVE Stands
  BY <1>6, <1>0, TableFacts DEF Goal, current
<1>7. ASSUME PlanThought PROVE Stands
  BY <1>7, <1>0, TableFacts DEF PlanThought, PlannerAt, current, tables
<1>8. ASSUME PlanObsolete PROVE Stands
  BY <1>8, <1>0, TableFacts DEF PlanObsolete, PlannerAt, PlanEnds, current
<1>9. ASSUME PlanNotExecuted PROVE Stands
  BY <1>9, <1>0, TableFacts DEF PlanNotExecuted, PlannerAt, PlanEnds, current
<1>10. ASSUME PlanDoubted PROVE Stands
  BY <1>10, <1>0, TableFacts DEF PlanDoubted, PlannerAt, current, tables
<1>11. ASSUME PlanFailed PROVE Stands
  BY <1>11, <1>0, TableFacts DEF PlanFailed, PlannerAt, PlanEnds, current
<1>12. ASSUME PlanCancelled PROVE Stands
  BY <1>12, <1>0, TableFacts DEF PlanCancelled, current
<1>13. ASSUME NEW t \in Tasks, PlanExecuted(t) PROVE Stands
  BY <1>13, <1>0, TableFacts DEF PlanExecuted, PlannerAt, Activate, Spawned
<1>14. ASSUME NEW t \in Tasks, ExecuteStale(t) PROVE Stands
  BY <1>14, <1>0, TableFacts DEF ExecuteStale, Running, Ended, current, tables
<1>15. ASSUME NEW t \in Tasks, PreflightPassed(t) PROVE Stands
  BY <1>15, <1>0, TableFacts DEF PreflightPassed, Running, current, tables
<1>16. ASSUME NEW t \in Tasks, ExecuteFailed(t) PROVE Stands
  BY <1>16, <1>0, TableFacts DEF ExecuteFailed, Running, Active, Ended, QueueAfterFailure
<1>17. ASSUME NEW t \in Tasks, ExecuteSucceeded(t) PROVE Stands
  BY <1>17, <1>0, TableFacts DEF ExecuteSucceeded, Running, Active, Ended, Spawned, tables
<1>18. ASSUME NEW t \in Tasks, CancelQueued(t) PROVE Stands
  BY <1>18, <1>0, TableFacts DEF CancelQueued, current, workers
<1>19. ASSUME NEW t \in Tasks, FinishCancel(t) PROVE Stands
  BY <1>19, <1>0, TableFacts DEF FinishCancel, Tables
<1>20. ASSUME CancelCurrent PROVE Stands
  BY <1>20, <1>0, TableFacts DEF CancelCurrent, BeginCancel
<1>21. ASSUME Interrupt PROVE Stands
  BY <1>21, <1>0, TableFacts DEF Interrupt, BeginCancel, Stoppable
<1>22. ASSUME Close PROVE Stands
  BY <1>22, <1>0, TableFacts DEF Close, BeginCancel, Stoppable
<1>23. ASSUME UNCHANGED vars PROVE Stands
  BY <1>0, TableFacts, <1>23 DEF vars, current, tables, workers
<1> QED
  BY <1>1, <1>2, <1>3, <1>4, <1>5, <1>6, <1>7, <1>8, <1>9, <1>10, <1>11, <1>12, <1>13,
     <1>14, <1>15, <1>16, <1>17, <1>18, <1>19, <1>20, <1>21, <1>22, <1>23 DEF Next,
     PlanStep, Executes

\* The state in which a client has seen a task settled never changes.
THEOREM SettledStatesStand == Spec => SettledStands
<1>1. RInv /\ [Next]_vars
        => [\A t \in Tasks : Visible(t) \in Settled => Visible(t)' = Visible(t)]_vars
  BY SettledStep
<1> QED
  BY <1>1, RuntimeInvariant, PTL DEF Spec, SettledStands
===============================================================================
