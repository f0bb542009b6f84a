------------------------ MODULE ActionExecutor_proofs -------------------------
(* Proofs that the safety properties of ActionExecutor hold for every value *)
(* of its constants, by the inductive invariant of ExecutorInvariant.       *)
EXTENDS ExecutorInvariant, SequenceTheorems, TLAPS

Pcs == {"idle", "intent", "running", "handler", "final", "done"}

-------------------------------------------------------------------------------
(* The helpers.                                                            *)

\* A state of a known action can be replaced by any state.
LEMMA StatusType ==
  ASSUME TypeOK, NEW a \in ActionIds, known(a), NEW s \in States
  PROVE  /\ records[a] \in Record
         /\ [records[a] EXCEPT !.state = s] \in Record
         /\ _status(a, s) \in [ActionIds -> Record \cup {NoRecord}]
<1>1. records[a] \in Record
  BY DEF TypeOK, known, NoRecord
<1>2. [records[a] EXCEPT !.state = s] \in Record
  BY <1>1 DEF Record
<1>3. _status(a, s) = [records EXCEPT ![a] = [records[a] EXCEPT !.state = s]]
  BY DEF _status
<1> QED
  BY <1>1, <1>2, <1>3 DEF TypeOK

\* Handing a record to the journal appends one write of that record.
LEMMA QueuedWrite ==
  ASSUME NEW queue \in Seq(Write), NEW a \in ActionIds, NEW r \in Record
  PROVE  /\ Queued(queue, a, r) \in Seq(Write)
         /\ Len(Queued(queue, a, r)) = Len(queue) + 1
         /\ \A i \in 1 .. Len(queue) : Queued(queue, a, r)[i] = queue[i]
         /\ LET w == Queued(queue, a, r)[Len(queue) + 1]
            IN  w.action = a /\ w.record = r /\ w.result # "ok"
<1> DEFINE w == [action |-> a, record |-> r,
                 result |-> IF phase \in {"shut", "closed"} THEN "failed" ELSE "queued"]
<1>1. w \in Write
  BY DEF Write
<1>2. Queued(queue, a, r) = Append(queue, w)
  BY DEF Queued
<1>3. w.action = a /\ w.record = r /\ w.result # "ok"
  OBVIOUS
<1> HIDE DEF w
<1> QED
  BY <1>1, <1>2, <1>3

\* The oldest write leaves the journal.
LEMMA TailWrites ==
  ASSUME TypeOK, journal # <<>>
  PROVE  /\ Len(journal) \in Nat \ {0}
         /\ Head(journal) = journal[1]
         /\ journal[1] \in Write
         /\ Tail(journal) \in Seq(Write)
         /\ Len(Tail(journal)) = Len(journal) - 1
         /\ \A i \in 1 .. Len(Tail(journal)) : Tail(journal)[i] = journal[i + 1]
BY DEF TypeOK

\* _status followed by _save.
LEMMA PersistEffect ==
  ASSUME TypeOK, NEW a \in ActionIds, known(a), NEW s \in States,
         NEW queue \in Seq(Write), NEW where \in Pcs, Persist(a, s, queue, where)
  PROVE  /\ records' \in [ActionIds -> Record \cup {NoRecord}]
         /\ records'[a] = [records[a] EXCEPT !.state = s]
         /\ records'[a].state = s
         /\ \A b \in ActionIds \ {a} : records'[b] = records[b]
         /\ pc' \in [ActionIds -> Pcs]
         /\ pc'[a] = where
         /\ \A b \in ActionIds \ {a} : pc'[b] = pc[b]
         /\ journal' \in Seq(Write)
         /\ Len(journal') = Len(queue) + 1
         /\ \A i \in 1 .. Len(queue) : journal'[i] = queue[i]
         /\ journal'[Len(queue) + 1].action = a
         /\ journal'[Len(queue) + 1].record = records'[a]
         /\ journal'[Len(queue) + 1].result # "ok"
<1> DEFINE r == [records[a] EXCEPT !.state = s]
<1>1. /\ r \in Record /\ records[a] \in Record
      /\ records' = [records EXCEPT ![a].state = s]
      /\ records' \in [ActionIds -> Record \cup {NoRecord}]
  BY StatusType DEF Persist, _status
<1>2. journal' = Queued(queue, a, r) /\ pc' = [pc EXCEPT ![a] = where]
  BY DEF Persist
<1>3. records'[a] = r /\ r.state = s /\ \A b \in ActionIds \ {a} : records'[b] = records[b]
  BY <1>1 DEF TypeOK, Record
<1>4. /\ pc' \in [ActionIds -> Pcs] /\ pc'[a] = where
      /\ \A b \in ActionIds \ {a} : pc'[b] = pc[b]
  BY <1>2 DEF TypeOK, Pcs
<1> HIDE DEF r
<1>5. /\ journal' \in Seq(Write)
      /\ Len(journal') = Len(queue) + 1
      /\ \A i \in 1 .. Len(queue) : journal'[i] = queue[i]
      /\ journal'[Len(queue) + 1].action = a
      /\ journal'[Len(queue) + 1].record = r
      /\ journal'[Len(queue) + 1].result # "ok"
  BY <1>1, <1>2, QueuedWrite
<1>6. records'[a] = [records[a] EXCEPT !.state = s]
  BY <1>3 DEF r
<1> QED
  BY <1>1, <1>3, <1>4, <1>5, <1>6

\* Fence leaves every variable it writes well typed.
LEMMA FenceType ==
  ASSUME TypeOK, Ownership, NEW kind \in {"hold", "cancel"}, Fence(kind)
  PROVE  /\ epoch' \in Nat /\ leases' \in Seq(LeaseIds) /\ expired' \in SUBSET LeaseIds
         /\ stopSignal' \in BOOLEAN /\ stopConfirmed' \in BOOLEAN
         /\ admission' \in {"OPEN", "HELD", "UNKNOWN"}
         /\ records' \in [ActionIds -> Record \cup {NoRecord}]
         /\ controls' \in Seq(Receipt)
<1>1. /\ epoch' \in Nat /\ leases' \in Seq(LeaseIds) /\ expired' \in SUBSET LeaseIds
      /\ stopSignal' \in BOOLEAN
  BY DEF Fence, TypeOK
<1>2. /\ stopConfirmed' \in BOOLEAN
      /\ admission' \in {"OPEN", "HELD", "UNKNOWN"}
  BY DEF Fence, TypeOK, HoldConfirmed, HeldAdmission, _finish_cancel
<1>3. records' \in [ActionIds -> Record \cup {NoRecord}]
  <2>1. CASE active = None
    BY <2>1 DEF Fence, TypeOK
  <2>2. CASE active # None
    <3>1. active \in ActionIds /\ known(active)
      BY <2>2 DEF TypeOK, Ownership, OneOwner, Owning
    <3>2. records' = _status(active, "CANCELLING")
      BY <2>2 DEF Fence
    <3> QED
      BY <3>1, <3>2, StatusType DEF States
  <2> QED
    BY <2>1, <2>2
<1>4. controls' \in Seq(Receipt)
  <2>1. [kind |-> kind, phase |-> ReceiptPhase] \in Receipt
    BY DEF Receipt, ReceiptPhase
  <2> QED
    BY <2>1 DEF Fence, TypeOK
<1> QED
  BY <1>1, <1>2, <1>3, <1>4

\* Every step preserves the types; only _status needs more than the types, for
\* it may only be called for a known action.
LEMMA TypeStep ==
  ASSUME TypeOK, Ownership, [Next]_vars
  PROVE  TypeOK'
<1> USE DEF life, gate, grants, work, ledger
<1>a. ASSUME NEW a \in ActionIds, pc[a] # "idle" PROVE known(a)
  BY <1>a DEF Ownership
<1>b. \A a \in ActionIds : \A where \in Pcs : \A results :
        SavedAs(a, where, results) => journal # <<>> /\ pc[a] = where
  BY DEF SavedAs
<1>1. ASSUME NEW l \in LeaseIds, GrantLease(l) PROVE TypeOK'
  <2>1. [boot |-> boot, epoch |-> epoch, version |-> version] \in Context
    BY DEF TypeOK, Context
  <2>2. contexts' \in [LeaseIds -> Context \cup {None}]
    BY <1>1, <2>1 DEF GrantLease, TypeOK
  <2>3. leases' \in Seq(LeaseIds)
    <3>1. CASE leases = <<>>
      BY <1>1, <3>1, BoundAssumption DEF GrantLease, TypeOK
    <3>2. CASE leases # <<>>
      BY <1>1, <3>2, Tail(leases) \in Seq(LeaseIds) DEF GrantLease, TypeOK
    <3> QED
      BY <3>1, <3>2
  <2> QED
    BY <1>1, <2>2, <2>3 DEF GrantLease, TypeOK
<1>2. ASSUME NEW l \in LeaseIds, ExpireLease(l) PROVE TypeOK'
  BY <1>2 DEF ExpireLease, TypeOK
<1>3. ASSUME NEW a \in ActionIds, NEW l \in LeaseIds, Submit(a, l) PROVE TypeOK'
  <2>1. [lease |-> l, state |-> "ACCEPTED"] \in Record
    BY DEF Record, States
  <2>2. journal' \in Seq(Write)
    BY <1>3, <2>1, QueuedWrite DEF Submit, TypeOK
  <2>3. records' \in [ActionIds -> Record \cup {NoRecord}]
    BY <1>3, <2>1 DEF Submit, TypeOK
  <2> QED
    BY <1>3, <2>2, <2>3 DEF Submit, TypeOK
<1>4. ASSUME JournalWrite PROVE TypeOK'
  <2>1. PICK i \in DOMAIN journal, result \in {"ok", "failed"} :
          /\ journal' = [journal EXCEPT ![i].result = result]
          /\ disk' = IF result = "ok" THEN [disk EXCEPT ![journal[i].action] = journal[i].record]
                     ELSE disk
    BY <1>4 DEF JournalWrite
  <2>2. journal[i] \in Write
    BY DEF TypeOK
  <2>3. [journal[i] EXCEPT !.result = result] \in Write
    BY <2>2 DEF Write
  <2>4. journal' \in Seq(Write)
    BY <2>1, <2>3 DEF TypeOK
  <2>5. disk' \in [ActionIds -> Record \cup {NoRecord}]
    BY <2>1, <2>2 DEF TypeOK, Write
  <2> QED
    BY <1>4, <2>4, <2>5 DEF JournalWrite, TypeOK
<1>5. ASSUME NEW a \in ActionIds, NEW s \in States, NEW queue \in Seq(Write),
             Persist(a, s, queue, "final") \/ Persist(a, s, queue, "running"), known(a)
      PROVE  /\ records' \in [ActionIds -> Record \cup {NoRecord}]
             /\ pc' \in [ActionIds -> Pcs]
             /\ journal' \in Seq(Write)
  BY <1>5, PersistEffect DEF Pcs
<1>6. ASSUME NEW a \in ActionIds, IntentFenced(a) PROVE TypeOK'
  <2>1. Tail(journal) \in Seq(Write) /\ known(a)
    BY <1>6, <1>a, TailWrites DEF IntentFenced, Saved, SavedAs
  <2>2. /\ records' \in [ActionIds -> Record \cup {NoRecord}]
        /\ pc' \in [ActionIds -> Pcs]
        /\ journal' \in Seq(Write)
    BY <1>5, <1>6, <2>1 DEF IntentFenced, States, Terminal, Known
  <2> QED
    BY <1>6, <2>2 DEF IntentFenced, TypeOK, Pcs, _finish_cancel
<1>7. ASSUME NEW a \in ActionIds, IntentAdmitted(a) PROVE TypeOK'
  <2>1. Tail(journal) \in Seq(Write) /\ known(a)
    BY <1>7, <1>a, TailWrites DEF IntentAdmitted, Saved, SavedAs
  <2>2. /\ records' \in [ActionIds -> Record \cup {NoRecord}]
        /\ pc' \in [ActionIds -> Pcs]
        /\ journal' \in Seq(Write)
    BY <1>5, <1>7, <2>1 DEF IntentAdmitted, States
  <2> QED
    BY <1>7, <2>2 DEF IntentAdmitted, TypeOK, Pcs
<1>8. ASSUME NEW a \in ActionIds, RunningLost(a) PROVE TypeOK'
  <2>1. Tail(journal) \in Seq(Write) /\ known(a)
    BY <1>8, <1>a, TailWrites DEF RunningLost, Saved, SavedAs
  <2>2. /\ records' \in [ActionIds -> Record \cup {NoRecord}]
        /\ pc' \in [ActionIds -> Pcs]
        /\ journal' \in Seq(Write)
    BY <1>5, <1>8, <2>1 DEF RunningLost, FinishUnknown, Finish, States, Terminal
  <2> QED
    BY <1>8, <2>2 DEF RunningLost, FinishUnknown, Finish, TypeOK, Pcs
<1>9. ASSUME NEW a \in ActionIds, StoppedBeforeHandler(a) PROVE TypeOK'
  <2>1. Tail(journal) \in Seq(Write) /\ known(a)
    BY <1>9, <1>a, TailWrites DEF StoppedBeforeHandler, Saved, SavedAs
  <2>2. /\ records' \in [ActionIds -> Record \cup {NoRecord}]
        /\ pc' \in [ActionIds -> Pcs]
        /\ journal' \in Seq(Write)
    BY <1>5, <1>9, <2>1
       DEF StoppedBeforeHandler, FinishStopped, Finish, States, Terminal, Known
  <2> QED
    BY <1>9, <2>2
       DEF StoppedBeforeHandler, FinishStopped, Finish, TypeOK, Pcs, _finish_cancel
<1>10. ASSUME NEW a \in ActionIds, StartHandler(a) PROVE TypeOK'
  <2>1. Tail(journal) \in Seq(Write)
    BY <1>10, TailWrites DEF StartHandler, Saved, SavedAs
  <2> QED
    BY <1>10, <2>1 DEF StartHandler, TypeOK
<1>11. ASSUME NEW a \in ActionIds, Progress(a) PROVE TypeOK'
  BY <1>11, <1>a, StatusType DEF Progress, Progress_after_stop, TypeOK, States
<1>12. ASSUME NEW a \in ActionIds, BackendMoves(a) PROVE TypeOK'
  BY <1>12 DEF BackendMoves, TypeOK
<1>13. ASSUME NEW a \in ActionIds, HandlerEnds(a) PROVE TypeOK'
  <2>1. known(a) /\ journal \in Seq(Write)
    BY <1>13, <1>a DEF HandlerEnds, TypeOK
  <2>2. /\ records' \in [ActionIds -> Record \cup {NoRecord}]
        /\ pc' \in [ActionIds -> Pcs]
        /\ journal' \in Seq(Write)
    BY <1>5, <1>13, <2>1
       DEF HandlerEnds, FinishStopped, FinishUnknown, Finish, States, Terminal, Known
  <2>3. active' = None
    BY <1>13 DEF HandlerEnds, FinishStopped, FinishUnknown, Finish
  <2>4. version' \in Nat
    BY <1>13 DEF HandlerEnds, TypeOK
  <2>5. stopConfirmed' \in BOOLEAN
    BY <1>13 DEF HandlerEnds, FinishStopped, FinishUnknown
  <2>6. admission' \in {"OPEN", "HELD", "UNKNOWN"}
    BY <1>13 DEF HandlerEnds, FinishStopped, FinishUnknown, TypeOK, _finish_cancel
  <2> QED
    BY <1>13, <2>2, <2>3, <2>4, <2>5, <2>6 DEF HandlerEnds, TypeOK, Pcs
<1>14. ASSUME NEW a \in ActionIds, FinalSaved(a) PROVE TypeOK'
  <2>1. Tail(journal) \in Seq(Write)
    BY <1>14, TailWrites DEF FinalSaved, Saved, SavedAs
  <2> QED
    BY <1>14, <2>1 DEF FinalSaved, TypeOK
<1>15. ASSUME NEW a \in ActionIds, SaveLost(a) PROVE TypeOK'
  <2>1. Tail(journal) \in Seq(Write) /\ known(a)
    BY <1>15, <1>a, TailWrites DEF SaveLost, Saved, SavedAs
  <2>2. records' \in [ActionIds -> Record \cup {NoRecord}]
    BY <1>15, <2>1, StatusType DEF SaveLost, States, Terminal
  <2> QED
    BY <1>15, <2>1, <2>2 DEF SaveLost, TypeOK
<1>16. ASSUME Hold PROVE TypeOK'
  BY <1>16, FenceType DEF Hold, TypeOK
<1>17. ASSUME NEW target \in ActionIds \cup {None}, Cancel(target) PROVE TypeOK'
  BY <1>17, FenceType DEF Cancel, TypeOK
<1>18. ASSUME AllowActions PROVE TypeOK'
  <2>1. [kind |-> "allow_actions", phase |-> "ACTIONS_ALLOWED"] \in Receipt
    BY DEF Receipt
  <2>2. controls' \in Seq(Receipt)
    BY <1>18, <2>1 DEF AllowActions, TypeOK
  <2> QED
    BY <1>18, <2>2 DEF AllowActions, TypeOK
<1>19. ASSUME CloseActive PROVE TypeOK'
  <2>1. CASE Len(controls) < ControlCapacity
    BY <1>19, <2>1, FenceType DEF CloseActive, TypeOK
  <2>2. CASE ~(Len(controls) < ControlCapacity)
    BY <1>19, <2>2 DEF CloseActive, TypeOK
  <2> QED
    BY <2>1, <2>2
<1>20. ASSUME CloseStep PROVE TypeOK'
  BY <1>20 DEF CloseStep, TypeOK
<1>21. ASSUME Restart PROVE TypeOK'
  <2>1. Reloaded(disk) \in [ActionIds -> Record \cup {NoRecord}]
    <3>1. ASSUME NEW a \in ActionIds, disk[a].state \notin Terminal \cup {"ABSENT"}
          PROVE  [disk[a] EXCEPT !.state = "UNKNOWN"] \in Record
      <4>1. disk[a] \in Record
        BY <3>1 DEF TypeOK, NoRecord
      <4> QED
        BY <4>1 DEF Record, States, Terminal
    <3> QED
      BY <3>1 DEF Reloaded, Reload, TypeOK
  <2>2. BootAdmission(Reloaded(disk)) \in {"OPEN", "HELD", "UNKNOWN"}
    BY DEF BootAdmission
  <2>3. stopConfirmed' \in BOOLEAN
    BY <1>21 DEF Restart
  <2>4. /\ disk' \in [ActionIds -> Record \cup {NoRecord}]
        /\ records' \in [ActionIds -> Record \cup {NoRecord}]
        /\ admission' \in {"OPEN", "HELD", "UNKNOWN"}
    BY <1>21, <2>1, <2>2 DEF Restart
  <2>5. /\ pc' \in [ActionIds -> Pcs] /\ leases' \in Seq(LeaseIds)
        /\ journal' \in Seq(Write) /\ controls' \in Seq(Receipt)
    BY <1>21 DEF Restart, Pcs
  <2>6. /\ boot' \in Nat /\ epoch' \in Nat /\ version' \in Nat /\ phase' = "up"
        /\ stopSignal' = FALSE /\ active' = None /\ runner' = None /\ expired' = {}
        /\ contexts' = contexts /\ runs' = runs
    BY <1>21 DEF Restart, TypeOK
  <2> QED
    BY <2>3, <2>4, <2>5, <2>6 DEF TypeOK, Pcs
<1>22. ASSUME UNCHANGED vars PROVE TypeOK'
  BY <1>22 DEF vars, TypeOK
<1> QED
  BY <1>1, <1>2, <1>3, <1>4, <1>6, <1>7, <1>8, <1>9, <1>10, <1>11, <1>12, <1>13, <1>14,
     <1>15, <1>16, <1>17, <1>18, <1>19, <1>20, <1>21, <1>22 DEF Next, Resume

-------------------------------------------------------------------------------
(* Who owns the node.                                                      *)

\* What Fence does to the records: at most the active action is CANCELLING.
LEMMA FenceRecords ==
  ASSUME TypeOK, Ownership, NEW kind, Fence(kind)
  PROVE  \A a \in ActionIds :
           \/ records'[a] = records[a]
           \/ /\ a = active /\ known(a)
              /\ records'[a] = [records[a] EXCEPT !.state = "CANCELLING"]
              /\ records'[a].state = "CANCELLING"
<1>1. CASE active = None
  BY <1>1 DEF Fence
<1>2. CASE active # None
  <2>1. active \in ActionIds /\ known(active)
    BY <1>2 DEF TypeOK, Ownership, OneOwner, Owning
  <2>2. records' = [records EXCEPT ![active].state = "CANCELLING"]
    BY <1>2 DEF Fence, _status
  <2>3. records[active] \in Record
    BY <2>1, StatusType DEF States
  <2> QED
    BY <2>1, <2>2, <2>3 DEF TypeOK, Record
<1> QED
  BY <1>1, <1>2

\* A restart keeps every row, and the state of every row that is terminal.
LEMMA RestartRows ==
  ASSUME TypeOK, Restart, NEW a \in ActionIds
  PROVE  /\ records'[a] = disk'[a]
         /\ disk[a].state = "ABSENT" => disk'[a] = disk[a]
         /\ disk[a].state \in Terminal => disk'[a] = disk[a]
         /\ disk[a].state \notin Terminal \cup {"ABSENT"} => disk'[a].state = "UNKNOWN"
         /\ disk[a].state # "ABSENT" => disk'[a].state \in Terminal
<1>1. /\ disk' = Reloaded(disk) /\ records' = Reloaded(disk)
  BY DEF Restart
<1>2. disk'[a] = IF disk[a].state \in Terminal \cup {"ABSENT"} THEN disk[a]
                 ELSE [disk[a] EXCEPT !.state = "UNKNOWN"]
  BY <1>1 DEF Reloaded, Reload
<1>3. disk[a].state # "ABSENT" => disk[a] \in Record
  BY DEF TypeOK, NoRecord
<1>4. disk[a].state \notin Terminal \cup {"ABSENT"} => disk'[a].state = "UNKNOWN"
  BY <1>2, <1>3 DEF Record
<1>5. "UNKNOWN" \in Terminal
  BY DEF Terminal
<1> QED
  BY <1>1, <1>2, <1>4, <1>5

\* The coroutine that finishes an action was its owner and gives the node up.
LEMMA FinishOwnership ==
  ASSUME TypeOK, Ownership, NEW a \in ActionIds, NEW s \in Terminal,
         NEW queue \in Seq(Write), pc[a] \in Owning, Persist(a, s, queue, "final"),
         active' = None
  PROVE  Ownership'
<1>1. known(a)
  BY DEF Ownership, Owning
<1>2. /\ records'[a].state = s /\ pc'[a] = "final"
      /\ \A b \in ActionIds \ {a} : records'[b] = records[b] /\ pc'[b] = pc[b]
  BY <1>1, StatusType DEF Persist, _status, TypeOK, Record, States
<1>3. s \notin Pending \cup {"ABSENT"} /\ "final" \notin Owning
  BY DEF Terminal, Known, Owning, Pending
<1>4. active = a /\ \A b \in ActionIds \ {a} : pc[b] \notin Owning
  BY DEF Ownership, OneOwner
<1>5. OneOwner'
  BY <1>2, <1>3, <1>4, NoneAssumption DEF OneOwner
<1>6. ASSUME NEW b \in ActionIds
      PROVE  /\ pc'[b] # "idle" => known(b)'
             /\ pc'[b] \in Owning <=> records'[b].state \in Pending
  BY <1>2, <1>3, <1>4 DEF Ownership, known
<1> QED
  BY <1>5, <1>6 DEF Ownership

LEMMA OwnershipStep ==
  ASSUME TypeOK, Ownership, [Next]_vars
  PROVE  Ownership'
<1> USE DEF life, gate, grants, work, ledger
<1>a. \A a \in ActionIds : \A where, result :
        Saved(a, where, result) => pc[a] = where /\ journal # <<>>
  BY DEF Saved, SavedAs
<1>b. journal # <<>> => Tail(journal) \in Seq(Write)
  BY TailWrites
<1>c. "SUCCEEDED" \in Terminal /\ "FAILED" \in Terminal /\ "CANCELLED" \in Terminal
      /\ "UNKNOWN" \in Terminal
  BY DEF Terminal, Known
<1>1. ASSUME UNCHANGED <<pc, active, records>> PROVE Ownership'
  BY <1>1 DEF Ownership, OneOwner, known
<1>2. ASSUME NEW kind, Fence(kind), UNCHANGED <<pc, active>> PROVE Ownership'
  <2>1. OneOwner'
    BY <1>2 DEF Ownership, OneOwner
  <2>2. \A a \in ActionIds : /\ known(a) => known(a)'
                             /\ records[a].state \in Pending <=> records'[a].state \in Pending
    BY <1>2, FenceRecords DEF known, Pending, Ownership, OneOwner
  <2> QED
    BY <1>2, <2>1, <2>2 DEF Ownership
<1>3. ASSUME NEW a \in ActionIds, NEW l \in LeaseIds, Submit(a, l) PROVE Ownership'
  <2>1. /\ pc'[a] = "intent" /\ records'[a].state = "ACCEPTED" /\ active' = a
        /\ \A b \in ActionIds \ {a} : records'[b] = records[b] /\ pc'[b] = pc[b]
    BY <1>3 DEF Submit, TypeOK
  <2>2. \A b \in ActionIds : pc[b] \notin Owning
    BY <1>3, NoneAssumption DEF Submit, Ownership, OneOwner
  <2>3. OneOwner'
    BY <2>1, <2>2 DEF OneOwner, Owning
  <2> QED
    BY <2>1, <2>2, <2>3 DEF Ownership, known, Pending, Owning
<1>4. ASSUME NEW a \in ActionIds, IntentFenced(a) PROVE Ownership'
  BY <1>4, <1>a, <1>b, <1>c, FinishOwnership DEF IntentFenced, Owning
<1>5. ASSUME NEW a \in ActionIds, IntentAdmitted(a) PROVE Ownership'
  <2>1. pc[a] = "intent" /\ Tail(journal) \in Seq(Write) /\ known(a)
    BY <1>5, <1>a, <1>b DEF IntentAdmitted, Ownership
  <2>2. /\ records'[a].state = "RUNNING" /\ pc'[a] = "running" /\ active' = active
        /\ \A b \in ActionIds \ {a} : records'[b] = records[b] /\ pc'[b] = pc[b]
    BY <1>5, <2>1, PersistEffect DEF IntentAdmitted, Pcs, States
  <2> QED
    BY <2>1, <2>2 DEF Ownership, OneOwner, Owning, known, Pending
<1>6. ASSUME NEW a \in ActionIds, RunningLost(a) PROVE Ownership'
  BY <1>6, <1>a, <1>b, <1>c, FinishOwnership DEF RunningLost, FinishUnknown, Finish, Owning
<1>7. ASSUME NEW a \in ActionIds, StoppedBeforeHandler(a) PROVE Ownership'
  BY <1>7, <1>a, <1>b, <1>c, FinishOwnership
     DEF StoppedBeforeHandler, FinishStopped, Finish, Owning
<1>8. ASSUME NEW a \in ActionIds, StartHandler(a) PROVE Ownership'
  BY <1>8, <1>a DEF StartHandler, Ownership, OneOwner, Owning, known, TypeOK
<1>9. ASSUME NEW a \in ActionIds, Progress(a) PROVE Ownership'
  <2>1. pc[a] = "handler" /\ known(a) /\ records' = _status(a, "RUNNING")
        /\ UNCHANGED <<pc, active>>
    BY <1>9 DEF Progress, Progress_after_stop, Ownership
  <2>2. records'[a].state = "RUNNING"
        /\ \A b \in ActionIds \ {a} : records'[b] = records[b]
    BY <2>1, StatusType DEF _status, TypeOK, Record, States
  <2> QED
    BY <2>1, <2>2 DEF Ownership, OneOwner, known, Pending, Owning
<1>10. ASSUME NEW a \in ActionIds, HandlerEnds(a) PROVE Ownership'
  <2>1. pc[a] \in Owning /\ journal \in Seq(Write)
    BY <1>10 DEF HandlerEnds, Owning, TypeOK
  <2>2. active' = None /\ \E s \in Terminal : Persist(a, s, journal, "final")
    BY <1>10, <1>c DEF HandlerEnds, FinishStopped, FinishUnknown, Finish
  <2> QED
    BY <2>1, <2>2, FinishOwnership
<1>11. ASSUME NEW a \in ActionIds, FinalSaved(a) PROVE Ownership'
  BY <1>11, <1>a DEF FinalSaved, Ownership, OneOwner, Owning, known, TypeOK
<1>12. ASSUME NEW a \in ActionIds, SaveLost(a) PROVE Ownership'
  <2>1. (pc[a] = "intent" \/ pc[a] = "final") /\ known(a)
    BY <1>12, <1>a DEF SaveLost, Ownership
  <2>2. /\ records'[a].state = "UNKNOWN"
        /\ \A b \in ActionIds \ {a} : records'[b] = records[b]
    BY <1>12, <2>1, StatusType DEF SaveLost, _status, TypeOK, Record, States, Terminal
  <2>3. pc'[a] = "done" /\ \A b \in ActionIds \ {a} : pc'[b] = pc[b]
    BY <1>12 DEF SaveLost, TypeOK
  <2>4. OneOwner'
    <3>1. CASE pc[a] = "intent"
      <4>1. active = a /\ active' = None
        BY <1>12, <3>1 DEF SaveLost, Ownership, OneOwner, Owning
      <4> QED
        BY <2>3, <4>1, NoneAssumption DEF Ownership, OneOwner, Owning
    <3>2. CASE pc[a] = "final"
      BY <1>12, <2>3, <3>2 DEF SaveLost, Ownership, OneOwner, Owning
    <3> QED
      BY <2>1, <3>1, <3>2
  <2> QED
    BY <2>1, <2>2, <2>3, <2>4 DEF Ownership, known, Owning, Pending
<1>13. ASSUME CloseActive PROVE Ownership'
  BY <1>13, <1>1, <1>2 DEF CloseActive
<1>14. ASSUME Restart PROVE Ownership'
  <2>1. \A a \in ActionIds : pc'[a] = "idle" /\ active' = None
    BY <1>14 DEF Restart
  <2>2. \A a \in ActionIds : records'[a].state \in Terminal \cup {"ABSENT"}
    BY <1>14, RestartRows
  <2> QED
    BY <2>1, <2>2, NoneAssumption DEF Ownership, OneOwner, Owning, Pending, Terminal, Known
<1> QED
  <2>1. ASSUME NEW l \in LeaseIds, GrantLease(l) \/ ExpireLease(l) PROVE Ownership'
    BY <1>1, <2>1 DEF GrantLease, ExpireLease
  <2>2. ASSUME JournalWrite \/ AllowActions \/ CloseStep \/ UNCHANGED vars PROVE Ownership'
    BY <1>1, <2>2 DEF JournalWrite, AllowActions, CloseStep, vars
  <2>3. ASSUME NEW a \in ActionIds, BackendMoves(a) PROVE Ownership'
    BY <1>1, <2>3 DEF BackendMoves
  <2>4. ASSUME Hold PROVE Ownership'
    BY <1>2, <2>4 DEF Hold
  <2>5. ASSUME NEW target \in ActionIds \cup {None}, Cancel(target) PROVE Ownership'
    BY <1>2, <2>5 DEF Cancel
  <2> QED
    BY <1>3, <1>4, <1>5, <1>6, <1>7, <1>8, <1>9, <1>10, <1>11, <1>12, <1>13, <1>14,
       <2>1, <2>2, <2>3, <2>4, <2>5 DEF Next, Resume

-------------------------------------------------------------------------------
(* The journal.                                                            *)

\* The coroutine that the loop resumes is that of the oldest write; only the
\* last save of an action can have another write behind it.
LEMMA AtHead ==
  ASSUME TypeOK, QueueShape, NEW a \in ActionIds, NEW where, NEW results,
         SavedAs(a, where, results)
  PROVE  /\ pc[a] = where /\ Len(journal) \in {1, 2}
         /\ journal[1] \in Write /\ journal[1].action = a /\ journal[1].result \in results
         /\ Tail(journal) \in Seq(Write) /\ Len(Tail(journal)) = Len(journal) - 1
         /\ \A i \in 1 .. Len(Tail(journal)) : Tail(journal)[i] = journal[i + 1]
         /\ Len(journal) = 2 => where = "final" /\ journal[2].action # a
<1>1. journal # <<>> /\ pc[a] = where /\ Head(journal).action = a
      /\ Head(journal).result \in results
  BY DEF SavedAs
<1>2. Len(journal) \in {1, 2}
  BY <1>1, TailWrites DEF QueueShape
<1>3. Len(journal) = 2 => where = "final" /\ journal[2].action # a
  BY <1>1, TailWrites DEF QueueShape
<1> QED
  BY <1>1, <1>2, <1>3, TailWrites

\* An action whose coroutine waits has a write in the journal, and no other.
LEMMA WriteOf ==
  ASSUME TypeOK, QueueShape, NEW i \in DOMAIN journal
  PROVE  /\ journal[i] \in Write /\ i \in 1 .. Len(journal) /\ Len(journal) \in {1, 2}
         /\ pc[journal[i].action] \in Waiting
         /\ \A j \in DOMAIN journal : journal[j].action = journal[i].action => j = i
<1>1. DOMAIN journal = 1 .. Len(journal) /\ journal[i] \in Write /\ Len(journal) \in Nat
  BY DEF TypeOK
<1>2. Len(journal) \in {1, 2}
  BY <1>1 DEF QueueShape
<1>3. journal[i].action \in ActionIds
  BY <1>1 DEF Write
<1>4. pc[journal[i].action] \in Waiting
  BY <1>3 DEF QueueShape
<1>5. ASSUME NEW j \in DOMAIN journal, journal[j].action = journal[i].action PROVE j = i
  BY <1>1, <1>2, <1>5 DEF QueueShape
<1> QED
  BY <1>1, <1>2, <1>4, <1>5

\* When no coroutine owns the node, the journal holds at most one last save.
LEMMA IdleQueue ==
  ASSUME TypeOK, Ownership, QueueShape, active = None
  PROVE  \/ journal = <<>>
         \/ /\ Len(journal) = 1 /\ journal[1] \in Write /\ pc[journal[1].action] = "final"
<1>1. \A a \in ActionIds : pc[a] \notin Owning
  BY NoneAssumption DEF Ownership, OneOwner
<1>2. \A i \in DOMAIN journal : pc[journal[i].action] = "final"
  BY <1>1, WriteOf DEF Owning, Waiting, Write
<1>3. PICK n \in Nat : n = Len(journal) /\ DOMAIN journal = 1 .. n
  BY DEF TypeOK
<1>4. n # 2
  BY <1>2, <1>3 DEF QueueShape
<1>5. n = 0 \/ n = 1
  BY <1>3, <1>4 DEF QueueShape
<1>6. CASE n = 0
  BY <1>3, <1>6 DEF TypeOK
<1>7. CASE n = 1
  BY <1>2, <1>3, <1>7 DEF TypeOK
<1> QED
  BY <1>5, <1>6, <1>7

\* The coroutine that saves when no write is left has the only write.
LEMMA PersistAlone ==
  ASSUME TypeOK, NEW a \in ActionIds, known(a), NEW s \in States, NEW where \in Pcs,
         Persist(a, s, <<>>, where)
  PROVE  /\ journal' \in Seq(Write) /\ Len(journal') = 1 /\ DOMAIN journal' = {1}
         /\ journal'[1].action = a /\ journal'[1].record = records'[a]
         /\ journal'[1].result # "ok"
<1> DEFINE r == [records[a] EXCEPT !.state = s]
           w == [action |-> a, record |-> r,
                 result |-> IF phase \in {"shut", "closed"} THEN "failed" ELSE "queued"]
<1>1. r \in Record /\ records'[a] = r
  BY StatusType, <<>> \in Seq(Write), PersistEffect
<1>2. journal' = Append(<<>>, w)
  BY DEF Persist, Queued
<1>3. w \in Write /\ w.action = a /\ w.record = r /\ w.result # "ok"
  BY <1>1 DEF Write
<1> HIDE DEF w, r
<1>4. journal' = <<w>>
  BY <1>2
<1> QED
  BY <1>1, <1>3, <1>4

\* An owner's last save becomes the only write.
LEMMA FinishShape ==
  ASSUME TypeOK, Ownership, QueueShape, NEW a \in ActionIds, NEW s \in States,
         NEW where \in {"running", "final"},
         pc[a] \in Owning, Persist(a, s, <<>>, where),
         \A b \in ActionIds \ {a} : pc[b] \notin Waiting
  PROVE  QueueShape'
<1>1. known(a) /\ where \in Pcs /\ <<>> \in Seq(Write)
  BY DEF Ownership, Owning, Pcs
<1>2. /\ pc'[a] = where /\ \A b \in ActionIds \ {a} : pc'[b] = pc[b]
  BY DEF Persist, TypeOK
<1>3. Len(journal') = 1 /\ DOMAIN journal' = {1} /\ journal'[1].action = a
  BY <1>1, PersistAlone
<1>4. \A b \in ActionIds \ {a} : pc[b] # "handler"
  BY DEF Ownership, OneOwner, Owning
<1> QED
  BY <1>2, <1>3, <1>4 DEF QueueShape, Waiting

\* An owner waits for the only write there is.
LEMMA OwnerAlone ==
  ASSUME TypeOK, QueueShape, NEW a \in ActionIds, NEW where \in {"intent", "running"},
         NEW result, Saved(a, where, result)
  PROVE  /\ pc[a] = where /\ pc[a] \in Owning /\ Tail(journal) = <<>>
         /\ DOMAIN journal = {1} /\ journal[1].action = a /\ journal[1].result = result
         /\ \A b \in ActionIds \ {a} : pc[b] \notin Waiting
<1>1. SavedAs(a, where, {result})
  BY DEF Saved
<1>2. /\ Len(journal) = 1 /\ journal[1].action = a /\ journal \in Seq(Write)
      /\ pc[a] = where /\ journal[1].result = result
  BY <1>1, AtHead DEF TypeOK
<1>3. DOMAIN journal = {1} /\ journal # <<>>
  BY <1>1, <1>2 DEF SavedAs
<1>4. Tail(journal) \in Seq(Write) /\ Len(Tail(journal)) = 0
  BY <1>2, <1>3, TailWrites
<1>5. Tail(journal) = <<>>
  BY <1>4, EmptySeq
<1> QED
  BY <1>2, <1>3, <1>5 DEF QueueShape, Owning

\* The four ways in which an owner ends its action.
Ends(a) == IntentFenced(a) \/ RunningLost(a) \/ StoppedBeforeHandler(a) \/ HandlerEnds(a)

LEMMA EndsEffect ==
  ASSUME TypeOK, Ownership, QueueShape, NEW a \in ActionIds, Ends(a)
  PROVE  /\ pc[a] \in Owning /\ active = a /\ active' = None
         /\ \A b \in ActionIds \ {a} : pc[b] \notin Waiting /\ pc[b] \notin Owning
         /\ \E s \in Terminal : /\ Persist(a, s, <<>>, "final")
                                /\ s = "UNKNOWN" => admission' = "UNKNOWN"
         /\ admission = "UNKNOWN" => admission' = "UNKNOWN"
         /\ UNCHANGED <<boot, contexts, disk, runs>>
<1> USE DEF life, gate, grants, work, ledger
<1>1. pc[a] \in Owning /\ \A b \in ActionIds \ {a} : pc[b] \notin Waiting
  <2>1. CASE IntentFenced(a) \/ RunningLost(a) \/ StoppedBeforeHandler(a)
    BY <2>1, OwnerAlone DEF IntentFenced, RunningLost, StoppedBeforeHandler
  <2>2. CASE HandlerEnds(a)
    BY <2>2 DEF HandlerEnds, Owning, QueueShape
  <2> QED
    BY <2>1, <2>2 DEF Ends
<1>2. active = a /\ \A b \in ActionIds \ {a} : pc[b] \notin Owning
  BY <1>1 DEF Ownership, OneOwner
<1>3. active' = None
  BY DEF Ends, IntentFenced, RunningLost, StoppedBeforeHandler, HandlerEnds,
         FinishStopped, FinishUnknown, Finish
<1>4. \E s \in Terminal : /\ Persist(a, s, <<>>, "final")
                          /\ s = "UNKNOWN" => admission' = "UNKNOWN"
  <2>1. "SUCCEEDED" \in Terminal /\ "FAILED" \in Terminal /\ "CANCELLED" \in Terminal
        /\ "UNKNOWN" \in Terminal
    BY DEF Terminal, Known
  <2>2. CASE IntentFenced(a) \/ StoppedBeforeHandler(a)
    BY <2>1, <2>2, OwnerAlone DEF IntentFenced, StoppedBeforeHandler, FinishStopped, Finish
  <2>3. CASE RunningLost(a)
    BY <2>1, <2>3, OwnerAlone DEF RunningLost, FinishUnknown, Finish
  <2>4. CASE HandlerEnds(a)
    <3>1. journal = <<>>
      BY <2>4 DEF HandlerEnds, QueueShape
    <3> QED
      BY <2>1, <2>4, <3>1 DEF HandlerEnds, FinishStopped, FinishUnknown, Finish
  <2> QED
    BY <2>2, <2>3, <2>4 DEF Ends
<1>5. admission = "UNKNOWN" => admission' = "UNKNOWN"
  BY DEF Ends, IntentFenced, RunningLost, StoppedBeforeHandler, HandlerEnds,
         FinishStopped, FinishUnknown, _finish_cancel
<1>6. UNCHANGED <<boot, contexts, disk, runs>>
  BY DEF Ends, IntentFenced, RunningLost, StoppedBeforeHandler, HandlerEnds
<1> QED
  BY <1>1, <1>2, <1>3, <1>4, <1>5, <1>6

LEMMA QueueShapeStep ==
  ASSUME TypeOK, Ownership, QueueShape, [Next]_vars
  PROVE  QueueShape'
<1> USE DEF life, gate, grants, work, ledger
<1>a. "SUCCEEDED" \in States /\ "FAILED" \in States /\ "CANCELLED" \in States
      /\ "UNKNOWN" \in States /\ "RUNNING" \in States
  BY DEF States, Terminal, Known
<1>1. ASSUME UNCHANGED <<pc, journal>> PROVE QueueShape'
  BY <1>1 DEF QueueShape
<1>2. ASSUME NEW a \in ActionIds, NEW l \in LeaseIds, Submit(a, l) PROVE QueueShape'
  <2>1. [lease |-> l, state |-> "ACCEPTED"] \in Record /\ journal \in Seq(Write)
        /\ active = None
    BY <1>2 DEF Record, States, TypeOK, Submit
  <2>2. /\ journal' \in Seq(Write) /\ Len(journal') = Len(journal) + 1
        /\ \A i \in 1 .. Len(journal) : journal'[i] = journal[i]
        /\ journal'[Len(journal) + 1].action = a
    BY <1>2, <2>1, QueuedWrite DEF Submit
  <2>3. pc[a] = "idle" /\ pc'[a] = "intent" /\ \A b \in ActionIds \ {a} : pc'[b] = pc[b]
    BY <1>2 DEF Submit, TypeOK, Ownership
  <2>4. \A b \in ActionIds : pc[b] # "handler"
    BY <2>1, NoneAssumption DEF Ownership, OneOwner, Owning
  <2>5. CASE journal = <<>>
    <3>1. Len(journal') = 1 /\ DOMAIN journal' = {1} /\ journal'[1].action = a
      BY <2>2, <2>5
    <3>2. \A b \in ActionIds : pc[b] \notin Waiting
      BY <2>5 DEF QueueShape
    <3> QED
      BY <2>3, <2>4, <3>1, <3>2 DEF QueueShape, Waiting
  <2>6. CASE /\ Len(journal) = 1 /\ journal[1] \in Write
             /\ pc[journal[1].action] = "final"
    <3> DEFINE b == journal[1].action
    <3>1. b \in ActionIds \ {a}
      BY <2>3, <2>6 DEF Write
    <3>2. /\ Len(journal') = 2 /\ DOMAIN journal' = {1, 2} /\ DOMAIN journal = {1}
          /\ journal'[1].action = b /\ journal'[2].action = a
      BY <2>1, <2>2, <2>6
    <3>3. \A c \in ActionIds : pc[c] \in Waiting <=> c = b
      BY <3>2 DEF QueueShape
    <3>4. pc[b] = "final"
      BY <2>6
    <3> HIDE DEF b
    <3> QED
      BY <2>3, <2>4, <3>1, <3>2, <3>3, <3>4 DEF QueueShape, Waiting
  <2> QED
    BY <2>1, <2>5, <2>6, IdleQueue
<1>3. ASSUME JournalWrite PROVE QueueShape'
  <2>1. PICK i \in DOMAIN journal, result \in {"ok", "failed"} :
          journal' = [journal EXCEPT ![i].result = result]
    BY <1>3 DEF JournalWrite
  <2>2. journal \in Seq(Write) /\ \A j \in DOMAIN journal : journal[j] \in Write
    BY DEF TypeOK
  <2>3. /\ DOMAIN journal' = DOMAIN journal /\ Len(journal') = Len(journal)
        /\ \A j \in DOMAIN journal : journal'[j].action = journal[j].action
    BY <2>1, <2>2 DEF Write
  <2>4. pc' = pc /\ (journal = <<>> => journal' = <<>>)
    BY <1>3 DEF JournalWrite
  <2> QED
    BY <2>2, <2>3, <2>4 DEF QueueShape
<1>4. ASSUME NEW a \in ActionIds, Ends(a) PROVE QueueShape'
  <2>1. PICK t \in Terminal : Persist(a, t, <<>>, "final")
    BY <1>4, EndsEffect
  <2> QED
    BY <1>4, <2>1, EndsEffect, FinishShape DEF States
<1>5. ASSUME NEW a \in ActionIds, IntentAdmitted(a) PROVE QueueShape'
  BY <1>5, <1>a, OwnerAlone, FinishShape DEF IntentAdmitted
<1>6. ASSUME NEW a \in ActionIds, StartHandler(a) PROVE QueueShape'
  <2>1. /\ pc[a] = "running" /\ pc[a] \in Owning /\ journal' = <<>>
        /\ \A b \in ActionIds \ {a} : pc[b] \notin Waiting
    BY <1>6, OwnerAlone DEF StartHandler
  <2>2. pc'[a] = "handler" /\ \A b \in ActionIds \ {a} : pc'[b] = pc[b]
    BY <1>6 DEF StartHandler, TypeOK
  <2>3. Len(journal') = 0 /\ DOMAIN journal' = {}
    BY <2>1
  <2> QED
    BY <2>1, <2>2, <2>3 DEF QueueShape, Waiting
<1>7. ASSUME NEW a \in ActionIds, FinalSaved(a) \/ SaveLost(a) PROVE QueueShape'
  <2>1. /\ pc'[a] = "done" /\ \A b \in ActionIds \ {a} : pc'[b] = pc[b]
        /\ journal' = Tail(journal)
    BY <1>7 DEF FinalSaved, SaveLost, TypeOK
  <2>2. PICK where \in {"intent", "final"}, result \in {"ok", "failed"} :
          SavedAs(a, where, {result})
    BY <1>7 DEF FinalSaved, SaveLost, Saved
  <2>3. /\ pc[a] = where /\ Len(journal) \in {1, 2} /\ journal[1].action = a
        /\ journal' \in Seq(Write) /\ Len(journal') = Len(journal) - 1
        /\ \A i \in 1 .. Len(journal') : journal'[i] = journal[i + 1]
        /\ Len(journal) = 2 => journal[2].action # a
    BY <2>1, <2>2, AtHead
  <2>4. /\ DOMAIN journal = 1 .. Len(journal) /\ DOMAIN journal' = 1 .. (Len(journal) - 1)
    BY <2>3 DEF TypeOK
  <2>5. ASSUME NEW b \in ActionIds
        PROVE  pc'[b] \in Waiting <=> \E i \in DOMAIN journal' : journal'[i].action = b
    <3>1. pc[b] \in Waiting <=> \E i \in DOMAIN journal : journal[i].action = b
      BY DEF QueueShape
    <3>2. CASE b = a
      BY <2>1, <2>3, <2>4, <3>2 DEF Waiting
    <3>3. CASE b # a
      BY <2>1, <2>3, <2>4, <3>1, <3>3
    <3> QED
      BY <3>2, <3>3
  <2>6. \A b \in ActionIds : pc[b] # "handler"
    BY <2>3 DEF QueueShape
  <2> QED
    BY <2>1, <2>3, <2>5, <2>6 DEF QueueShape
<1>8. ASSUME Restart PROVE QueueShape'
  BY <1>8 DEF Restart, QueueShape, Waiting
<1> QED
  <2>1. ASSUME NEW l \in LeaseIds, GrantLease(l) \/ ExpireLease(l) PROVE QueueShape'
    BY <1>1, <2>1 DEF GrantLease, ExpireLease
  <2>2. ASSUME Hold \/ AllowActions \/ CloseActive \/ CloseStep \/ UNCHANGED vars
        PROVE  QueueShape'
    BY <1>1, <2>2 DEF Hold, AllowActions, CloseActive, CloseStep, vars
  <2>3. ASSUME NEW a \in ActionIds, BackendMoves(a) \/ Progress(a) PROVE QueueShape'
    BY <1>1, <2>3 DEF BackendMoves, Progress, Progress_after_stop
  <2>4. ASSUME NEW target \in ActionIds \cup {None}, Cancel(target) PROVE QueueShape'
    BY <1>1, <2>4 DEF Cancel
  <2> QED
    BY <1>2, <1>3, <1>4, <1>5, <1>6, <1>7, <1>8, <2>1, <2>2, <2>3, <2>4
       DEF Next, Resume, Ends

\* The write of a coroutine that saves alone says what its record says.
LEMMA ContentsAlone ==
  ASSUME TypeOK, NEW a \in ActionIds, known(a), NEW s \in States,
         NEW where \in {"running", "final"}, where = "running" => s = "RUNNING",
         Persist(a, s, <<>>, where), disk' = disk, disk[a].state \notin Known
  PROVE  QueueContents'
<1>1. /\ DOMAIN journal' = {1} /\ journal'[1].action = a
      /\ journal'[1].record = records'[a] /\ journal'[1].result # "ok"
  BY PersistAlone DEF Pcs
<1>2. pc'[a] = where
  BY DEF Persist, TypeOK
<1>3. records'[a].state = s
  BY StatusType DEF Persist, _status, TypeOK, Record
<1> QED
  BY <1>1, <1>2, <1>3 DEF QueueContents

LEMMA QueueContentsStep ==
  ASSUME TypeOK, Ownership, QueueShape, QueueContents, DiskFollows, [Next]_vars
  PROVE  QueueContents'
<1> USE DEF life, gate, grants, work, ledger
<1>1. ASSUME UNCHANGED <<pc, journal, disk>>,
             \A a \in ActionIds : pc[a] = "final" => records'[a] = records[a]
      PROVE  QueueContents'
  <2>1. \A i \in DOMAIN journal : journal[i].action \in ActionIds
    BY WriteOf DEF Write
  <2> QED
    BY <1>1, <2>1 DEF QueueContents
<1>2. ASSUME NEW kind, Fence(kind), UNCHANGED <<pc, journal, disk>> PROVE QueueContents'
  BY <1>1, <1>2, FenceRecords DEF Ownership, OneOwner, Owning
<1>3. ASSUME NEW a \in ActionIds, NEW l \in LeaseIds, Submit(a, l) PROVE QueueContents'
  <2>1. [lease |-> l, state |-> "ACCEPTED"] \in Record /\ journal \in Seq(Write)
    BY DEF Record, States, TypeOK
  <2> DEFINE r == [lease |-> l, state |-> "ACCEPTED"]
             w == journal'[Len(journal) + 1]
  <2>2. /\ journal' \in Seq(Write) /\ Len(journal') = Len(journal) + 1
        /\ \A i \in 1 .. Len(journal) : journal'[i] = journal[i]
        /\ w.action = a /\ w.record = r /\ w.result # "ok"
    BY <1>3, <2>1, QueuedWrite DEF Submit
  <2>3. /\ r.state = "ACCEPTED" /\ pc[a] = "idle" /\ pc'[a] = "intent" /\ disk' = disk
        /\ \A b \in ActionIds \ {a} : pc'[b] = pc[b] /\ records'[b] = records[b]
    BY <1>3 DEF Submit, TypeOK, Ownership
  <2>4. DOMAIN journal = 1 .. Len(journal) /\ DOMAIN journal' = 1 .. (Len(journal) + 1)
    BY <2>1, <2>2
  <2>5. \A i \in DOMAIN journal : journal[i].action \in ActionIds \ {a}
    BY <2>3, WriteOf DEF Write, Waiting
  <2>7. disk[a].state \notin Known
    BY <1>3 DEF Submit, DiskFollows, Known
  <2>6. ASSUME NEW i \in DOMAIN journal'
        PROVE  LET b == journal'[i].action IN
                 /\ journal'[i].result = "ok" => disk'[b] = journal'[i].record
                 /\ journal'[i].result # "ok" => disk'[b].state \notin Known
                 /\ pc'[b] = "running" => journal'[i].record.state = "RUNNING"
                 /\ pc'[b] = "final" => journal'[i].record = records'[b]
                 /\ pc'[b] = "intent" => journal'[i].record.state = "ACCEPTED"
    <3>1. CASE i \in DOMAIN journal
      BY <2>2, <2>3, <2>4, <2>5, <3>1 DEF QueueContents
    <3>2. CASE i = Len(journal) + 1
      BY <2>2, <2>3, <2>7, <3>2
    <3> QED
      BY <2>1, <2>4, <3>1, <3>2
  <2> QED
    BY <2>6 DEF QueueContents
<1>4. ASSUME JournalWrite PROVE QueueContents'
  <2>1. PICK i \in DOMAIN journal, result \in {"ok", "failed"} :
          /\ journal' = [journal EXCEPT ![i].result = result]
          /\ disk' = IF result = "ok" THEN [disk EXCEPT ![journal[i].action] = journal[i].record]
                     ELSE disk
          /\ journal[i].result = "queued"
    BY <1>4 DEF JournalWrite
  <2>2. UNCHANGED <<pc, records>>
    BY <1>4 DEF JournalWrite
  <2>3. \A j \in DOMAIN journal :
          journal[j] \in Write /\ (journal[j].action = journal[i].action => j = i)
    BY WriteOf
  <2>4. /\ DOMAIN journal' = DOMAIN journal
        /\ \A j \in DOMAIN journal : /\ journal'[j].action = journal[j].action
                                     /\ journal'[j].record = journal[j].record
                                     /\ j # i => journal'[j] = journal[j]
    BY <2>1, <2>3 DEF TypeOK, Write
  <2>5. journal'[i].result = result
    BY <2>1, <2>3 DEF TypeOK, Write
  <2>6. \A j \in DOMAIN journal : journal[j].action \in ActionIds
    BY <2>3 DEF Write
  <2>7. ASSUME NEW j \in DOMAIN journal, journal'[j].result = "ok"
        PROVE  disk'[journal[j].action] = journal[j].record
    <3>1. CASE j = i
      BY <2>1, <2>5, <2>6, <2>7, <3>1 DEF TypeOK
    <3>2. CASE j # i
      <4>1. disk'[journal[j].action] = disk[journal[j].action]
        BY <2>1, <2>3, <2>6, <3>2 DEF TypeOK
      <4> QED
        BY <2>4, <2>7, <3>2, <4>1 DEF QueueContents
    <3> QED
      BY <3>1, <3>2
  <2>8. ASSUME NEW j \in DOMAIN journal, journal'[j].result # "ok"
        PROVE  disk'[journal[j].action].state \notin Known
    <3>1. CASE j = i
      BY <2>1, <2>5, <2>8, <3>1 DEF QueueContents
    <3>2. CASE j # i
      <4>1. disk'[journal[j].action] = disk[journal[j].action]
        BY <2>1, <2>3, <2>6, <3>2 DEF TypeOK
      <4> QED
        BY <2>4, <2>8, <3>2, <4>1 DEF QueueContents
    <3> QED
      BY <3>1, <3>2
  <2> QED
    BY <2>2, <2>4, <2>7, <2>8 DEF QueueContents
<1>5. ASSUME NEW a \in ActionIds, Ends(a) PROVE QueueContents'
  <2>1. PICK t \in Terminal : Persist(a, t, <<>>, "final")
    BY <1>5, EndsEffect
  <2>2. known(a) /\ disk' = disk /\ disk[a].state \notin Known
    BY <1>5, EndsEffect DEF Ownership, Owning, DiskFollows, Pending, Known
  <2> QED
    BY <2>1, <2>2, ContentsAlone DEF States
<1>6. ASSUME NEW a \in ActionIds, IntentAdmitted(a) PROVE QueueContents'
  <2>1. /\ known(a) /\ Persist(a, "RUNNING", <<>>, "running") /\ disk' = disk
        /\ pc[a] \in Owning
    BY <1>6, OwnerAlone DEF IntentAdmitted, Ownership
  <2>2. disk[a].state \notin Known
    BY <2>1 DEF Ownership, DiskFollows, Pending, Known
  <2> QED
    BY <2>1, <2>2, ContentsAlone DEF States
<1>7. ASSUME NEW a \in ActionIds, StartHandler(a) PROVE QueueContents'
  BY <1>7, OwnerAlone DEF StartHandler, QueueContents
<1>8. ASSUME NEW a \in ActionIds, FinalSaved(a) \/ SaveLost(a) PROVE QueueContents'
  <2>1. /\ \A b \in ActionIds \ {a} : pc'[b] = pc[b]
        /\ journal' = Tail(journal) /\ disk' = disk
    BY <1>8 DEF FinalSaved, SaveLost, TypeOK
  <2>2. \A b \in ActionIds \ {a} : records'[b] = records[b]
    BY <1>8 DEF FinalSaved, SaveLost, _status, TypeOK
  <2>3. PICK where \in {"intent", "final"}, result \in {"ok", "failed"} :
          SavedAs(a, where, {result})
    BY <1>8 DEF FinalSaved, SaveLost, Saved
  <2>4. /\ Len(journal) \in {1, 2}
        /\ journal' \in Seq(Write) /\ Len(journal') = Len(journal) - 1
        /\ \A i \in 1 .. Len(journal') : journal'[i] = journal[i + 1]
        /\ Len(journal) = 2 => journal[2].action # a
    BY <2>1, <2>3, AtHead
  <2>5. CASE Len(journal) = 1
    BY <2>4, <2>5 DEF QueueContents
  <2>6. CASE Len(journal) = 2
    <3>1. DOMAIN journal' = {1} /\ journal'[1] = journal[2] /\ 2 \in DOMAIN journal
      BY <2>4, <2>6 DEF TypeOK
    <3>2. journal[2].action \in ActionIds \ {a}
      BY <2>4, <2>6, <3>1, WriteOf DEF Write
    <3> QED
      BY <2>1, <2>2, <3>1, <3>2 DEF QueueContents
  <2> QED
    BY <2>4, <2>5, <2>6
<1>9. ASSUME Restart PROVE QueueContents'
  BY <1>9 DEF Restart, QueueContents
<1>10. ASSUME NEW a \in ActionIds, Progress(a) PROVE QueueContents'
  BY <1>10, <1>1 DEF Progress, Progress_after_stop, _status, TypeOK
<1>11. ASSUME CloseActive PROVE QueueContents'
  BY <1>11, <1>1, <1>2 DEF CloseActive
<1> QED
  <2>1. ASSUME NEW l \in LeaseIds, GrantLease(l) \/ ExpireLease(l) PROVE QueueContents'
    BY <1>1, <2>1 DEF GrantLease, ExpireLease
  <2>2. ASSUME AllowActions \/ CloseStep \/ UNCHANGED vars PROVE QueueContents'
    BY <1>1, <2>2 DEF AllowActions, CloseStep, vars
  <2>3. ASSUME NEW a \in ActionIds, BackendMoves(a) PROVE QueueContents'
    BY <1>1, <2>3 DEF BackendMoves
  <2>4. ASSUME Hold PROVE QueueContents'
    BY <1>2, <2>4 DEF Hold
  <2>5. ASSUME NEW target \in ActionIds \cup {None}, Cancel(target) PROVE QueueContents'
    BY <1>2, <2>5 DEF Cancel
  <2> QED
    BY <1>3, <1>4, <1>5, <1>6, <1>7, <1>8, <1>9, <1>10, <1>11, <2>1, <2>2, <2>3, <2>4, <2>5
       DEF Next, Resume, Ends

-------------------------------------------------------------------------------
(* The stop and the effects.                                               *)

LEMMA TrackedStep ==
  ASSUME TypeOK, Ownership, QueueShape, Tracked, [Next]_vars
  PROVE  Tracked'
<1> USE DEF life, gate, grants, work, ledger
<1>1. ASSUME UNCHANGED <<active, admission, stopConfirmed>>,
             \A a \in ActionIds :
               pc'[a] \in {"running", "handler"} => pc[a] \in {"running", "handler"}
      PROVE  Tracked'
  BY <1>1 DEF Tracked, StopIsTrue
<1>2. ASSUME NEW kind, Fence(kind), UNCHANGED <<pc, active>> PROVE Tracked'
  BY <1>2 DEF Fence, HeldAdmission, HoldConfirmed, _finish_cancel, Tracked, StopIsTrue
<1>3. ASSUME NEW a \in ActionIds, NEW l \in LeaseIds, Submit(a, l) PROVE Tracked'
  <2>1. \A b \in ActionIds : pc'[b] \in {"running", "handler"} => pc[b] = pc'[b]
    BY <1>3 DEF Submit, TypeOK
  <2> QED
    BY <1>3, <2>1 DEF Submit, Tracked, StopIsTrue
<1>4. ASSUME NEW a \in ActionIds, Ends(a) PROVE Tracked'
  <2>1. PICK t \in Terminal : Persist(a, t, <<>>, "final")
    BY <1>4, EndsEffect
  <2>2. \A b \in ActionIds : pc'[b] \notin {"running", "handler"}
    BY <1>4, <2>1, EndsEffect DEF Persist, TypeOK, Owning
  <2>3. active' = None
    BY <1>4, EndsEffect
  <2>4. stopConfirmed' => admission' # "UNKNOWN"
    <3>1. CASE IntentFenced(a)
      BY <3>1 DEF IntentFenced, _finish_cancel
    <3>2. CASE RunningLost(a)
      BY <3>2 DEF RunningLost, FinishUnknown
    <3>3. CASE StoppedBeforeHandler(a)
      <4>1. pc[a] = "running"
        BY <3>3, OwnerAlone DEF StoppedBeforeHandler
      <4> QED
        BY <3>3, <4>1 DEF StoppedBeforeHandler, FinishStopped, _finish_cancel, Tracked
    <3>4. CASE HandlerEnds(a)
      BY <3>4 DEF HandlerEnds, FinishStopped, FinishUnknown, _finish_cancel, Tracked
    <3> QED
      BY <1>4, <3>1, <3>2, <3>3, <3>4 DEF Ends
  <2> QED
    BY <2>2, <2>3, <2>4 DEF Tracked, StopIsTrue
<1>5. ASSUME NEW a \in ActionIds, IntentAdmitted(a) PROVE Tracked'
  BY <1>5 DEF IntentAdmitted, Authorised, Tracked, StopIsTrue
<1>6. ASSUME NEW a \in ActionIds, SaveLost(a) PROVE Tracked'
  <2>1. PICK where \in {"intent", "final"} : SavedAs(a, where, {"failed"})
    BY <1>6 DEF SaveLost, Saved
  <2>2. \A b \in ActionIds : pc[b] \notin {"running", "handler"}
    <3>1. /\ pc[a] = where /\ Len(journal) \in {1, 2} /\ journal[1].action = a
          /\ DOMAIN journal = 1 .. Len(journal)
      BY <2>1, AtHead DEF TypeOK
    <3>2. \A b \in ActionIds : pc[b] # "handler"
      BY <3>1 DEF QueueShape
    <3>3. ASSUME NEW b \in ActionIds, pc[b] = "running" PROVE FALSE
      <4>1. PICK i \in DOMAIN journal : journal[i].action = b
        BY <3>3 DEF QueueShape, Waiting
      <4>2. CASE i = 1
        BY <3>1, <3>3, <4>1, <4>2
      <4>3. CASE i = 2
        BY <3>1, <3>3, <4>1, <4>3 DEF QueueShape
      <4> QED
        BY <3>1, <4>1, <4>2, <4>3
    <3> QED
      BY <3>2, <3>3
  <2>3. \A b \in ActionIds : pc'[b] \notin {"running", "handler"}
    BY <1>6, <2>2 DEF SaveLost, TypeOK
  <2> QED
    BY <1>6, <2>3 DEF SaveLost, Tracked, StopIsTrue
<1>7. ASSUME AllowActions PROVE Tracked'
  BY <1>7 DEF AllowActions, Tracked, StopIsTrue
<1>8. ASSUME Restart PROVE Tracked'
  BY <1>8 DEF Restart, Tracked, StopIsTrue
<1>9. ASSUME NEW a \in ActionIds, StartHandler(a) PROVE Tracked'
  BY <1>9, <1>1, OwnerAlone DEF StartHandler, TypeOK
<1>10. ASSUME NEW a \in ActionIds, FinalSaved(a) PROVE Tracked'
  BY <1>10, <1>1 DEF FinalSaved, TypeOK
<1>11. ASSUME CloseActive PROVE Tracked'
  BY <1>11, <1>1, <1>2 DEF CloseActive
<1> QED
  <2>1. ASSUME NEW l \in LeaseIds, GrantLease(l) \/ ExpireLease(l) PROVE Tracked'
    BY <1>1, <2>1 DEF GrantLease, ExpireLease
  <2>2. ASSUME JournalWrite \/ CloseStep \/ UNCHANGED vars PROVE Tracked'
    BY <1>1, <2>2 DEF JournalWrite, CloseStep, vars
  <2>3. ASSUME NEW a \in ActionIds, BackendMoves(a) \/ Progress(a) PROVE Tracked'
    BY <1>1, <2>3 DEF BackendMoves, Progress, Progress_after_stop
  <2>4. ASSUME Hold PROVE Tracked'
    BY <1>2, <2>4 DEF Hold
  <2>5. ASSUME NEW target \in ActionIds \cup {None}, Cancel(target) PROVE Tracked'
    BY <1>2, <2>5 DEF Cancel
  <2> QED
    BY <1>3, <1>4, <1>5, <1>6, <1>7, <1>8, <1>9, <1>10, <1>11, <2>1, <2>2, <2>3, <2>4, <2>5
       DEF Next, Resume, Ends

\* An action known before a step within one process is known after it.
LEMMA KnownStays ==
  ASSUME TypeOK, Ownership, QueueShape, [Next]_vars, boot' = boot,
         NEW a \in ActionIds, known(a)
  PROVE  known(a)'
<1> USE DEF life, gate, grants, work, ledger
<1>1. ASSUME NEW b \in ActionIds, Ends(b) PROVE known(a)'
  <2>1. PICK t \in Terminal : Persist(b, t, <<>>, "final")
    BY <1>1, EndsEffect
  <2>2. t # "ABSENT"
    BY DEF Terminal, Known
  <2>3. records' = [records EXCEPT ![b] = [records[b] EXCEPT !.state = t]]
    BY <2>1 DEF Persist, _status
  <2>4. known(b) /\ records[b] \in Record
    BY <1>1, EndsEffect, StatusType DEF Ownership, Owning, States
  <2> QED
    BY <2>2, <2>3, <2>4 DEF TypeOK, known, Record
<1>2. ASSUME NEW b \in ActionIds, NEW t \in {"RUNNING", "UNKNOWN"}, known(b),
             records' = _status(b, t)
      PROVE  known(a)'
  <2>1. records[b] \in Record
    BY <1>2, StatusType DEF States, Terminal
  <2> QED
    BY <1>2, <2>1 DEF _status, TypeOK, known, Record
<1>3. ASSUME NEW b \in ActionIds, IntentAdmitted(b) PROVE known(a)'
  <2>1. known(b) /\ records' = _status(b, "RUNNING")
    BY <1>3, OwnerAlone DEF IntentAdmitted, Persist, Ownership
  <2> QED
    BY <1>2, <2>1
<1>4. ASSUME NEW b \in ActionIds, SaveLost(b) PROVE known(a)'
  <2>1. pc[b] \in {"intent", "final"} /\ records' = _status(b, "UNKNOWN")
    BY <1>4 DEF SaveLost, Saved, SavedAs
  <2> QED
    BY <1>2, <2>1 DEF Ownership
<1>5. ASSUME NEW b \in ActionIds, Progress(b) PROVE known(a)'
  <2>1. pc[b] = "handler" /\ records' = _status(b, "RUNNING")
    BY <1>5 DEF Progress, Progress_after_stop
  <2> QED
    BY <1>2, <2>1 DEF Ownership
<1>6. ASSUME NEW kind, Fence(kind) PROVE known(a)'
  BY <1>6, FenceRecords DEF known
<1>7. ASSUME records' = records PROVE known(a)'
  BY <1>7 DEF known
<1>8. ASSUME CloseActive PROVE known(a)'
  BY <1>8, <1>6, <1>7 DEF CloseActive
<1>9. ASSUME NEW b \in ActionIds, NEW l \in LeaseIds, Submit(b, l) PROVE known(a)'
  BY <1>9 DEF Submit, known, TypeOK
<1>10. ~Restart
  BY DEF Restart, TypeOK
<1> QED
  <2>1. ASSUME NEW l \in LeaseIds, GrantLease(l) \/ ExpireLease(l) PROVE known(a)'
    BY <1>7, <2>1 DEF GrantLease, ExpireLease
  <2>2. ASSUME JournalWrite \/ AllowActions \/ CloseStep \/ UNCHANGED vars
        PROVE  known(a)'
    BY <1>7, <2>2 DEF JournalWrite, AllowActions, CloseStep, vars
  <2>3. ASSUME NEW b \in ActionIds, BackendMoves(b) \/ StartHandler(b) \/ FinalSaved(b)
        PROVE  known(a)'
    BY <1>7, <2>3 DEF BackendMoves, StartHandler, FinalSaved
  <2>4. ASSUME Hold PROVE known(a)'
    BY <1>6, <2>4 DEF Hold
  <2>5. ASSUME NEW target \in ActionIds \cup {None}, Cancel(target) PROVE known(a)'
    BY <1>6, <2>5 DEF Cancel
  <2> QED
    BY <1>1, <1>3, <1>4, <1>5, <1>8, <1>9, <1>10, <2>1, <2>2, <2>3, <2>4, <2>5
       DEF Next, Resume, Ends

LEMMA EffectsStep ==
  ASSUME TypeOK, Ownership, QueueShape, QueueContents, Effects, [Next]_vars
  PROVE  Effects'
<1> USE DEF life, gate, grants, work, ledger
<1>1. ASSUME runs' = runs, boot' = boot,
             \A a \in ActionIds : runs[a] > 0 =>
               disk'[a].state # "ABSENT" /\ pc'[a] \notin {"intent", "running"}
      PROVE  Effects'
  BY <1>1, KnownStays DEF Effects, AtMostOnce
<1>2. ASSUME UNCHANGED <<runs, boot, pc, disk>> PROVE Effects'
  BY <1>1, <1>2 DEF Effects
<1>3. ASSUME NEW a \in ActionIds, NEW l \in LeaseIds, Submit(a, l) PROVE Effects'
  BY <1>3, <1>1 DEF Submit, Effects, TypeOK
<1>4. ASSUME JournalWrite PROVE Effects'
  <2>1. PICK i \in DOMAIN journal, result \in {"ok", "failed"} :
          disk' = IF result = "ok" THEN [disk EXCEPT ![journal[i].action] = journal[i].record]
                  ELSE disk
    BY <1>4 DEF JournalWrite
  <2>2. journal[i].record.state # "ABSENT"
    BY WriteOf DEF Write, Record, States, Terminal, Known
  <2>3. \A a \in ActionIds : disk[a].state # "ABSENT" => disk'[a].state # "ABSENT"
    BY <2>1, <2>2 DEF TypeOK
  <2> QED
    BY <1>4, <1>1, <2>3 DEF JournalWrite, Effects
<1>5. ASSUME NEW a \in ActionIds, Ends(a) PROVE Effects'
  <2>1. PICK t \in Terminal : Persist(a, t, <<>>, "final")
    BY <1>5, EndsEffect
  <2> QED
    BY <1>5, <1>1, <2>1, EndsEffect DEF Persist, TypeOK, Effects
<1>6. ASSUME NEW a \in ActionIds, IntentAdmitted(a) PROVE Effects'
  <2>1. pc[a] = "intent"
    BY <1>6, OwnerAlone DEF IntentAdmitted
  <2> QED
    BY <1>6, <1>1, <2>1 DEF IntentAdmitted, Persist, TypeOK, Effects
<1>7. ASSUME NEW a \in ActionIds, StartHandler(a) PROVE Effects'
  <2>1. /\ pc[a] = "running" /\ 1 \in DOMAIN journal
        /\ journal[1].action = a /\ journal[1].result = "ok"
    BY <1>7, OwnerAlone DEF StartHandler
  <2>2. disk[a].state = "RUNNING"
    BY <2>1 DEF QueueContents
  <2>3. runs[a] = 0
    BY <2>1 DEF Effects, TypeOK
  <2>4. /\ runs'[a] = 1 /\ \A b \in ActionIds \ {a} : runs'[b] = runs[b]
        /\ pc'[a] = "handler" /\ \A b \in ActionIds \ {a} : pc'[b] = pc[b]
        /\ UNCHANGED <<disk, records>>
    BY <1>7, <2>3 DEF StartHandler, TypeOK
  <2> QED
    BY <2>1, <2>2, <2>4 DEF Effects, AtMostOnce, Ownership, known
<1>8. ASSUME NEW a \in ActionIds, FinalSaved(a) \/ SaveLost(a) PROVE Effects'
  BY <1>8, <1>1 DEF FinalSaved, SaveLost, TypeOK, Effects
<1>9. ASSUME Restart PROVE Effects'
  <2>1. runs' = runs /\ \A a \in ActionIds : pc'[a] = "idle"
    BY <1>9 DEF Restart
  <2>2. \A a \in ActionIds : disk[a].state # "ABSENT" => known(a)' /\ disk'[a].state # "ABSENT"
    BY <1>9, RestartRows DEF known, Terminal, Known
  <2> QED
    BY <2>1, <2>2 DEF Effects, AtMostOnce
<1>10. ASSUME CloseActive PROVE Effects'
  BY <1>10, <1>2 DEF CloseActive
<1> QED
  <2>1. ASSUME NEW l \in LeaseIds, GrantLease(l) \/ ExpireLease(l) PROVE Effects'
    BY <1>2, <2>1 DEF GrantLease, ExpireLease
  <2>2. ASSUME Hold \/ AllowActions \/ CloseStep \/ UNCHANGED vars PROVE Effects'
    BY <1>2, <2>2 DEF Hold, AllowActions, CloseStep, vars
  <2>3. ASSUME NEW a \in ActionIds, BackendMoves(a) \/ Progress(a) PROVE Effects'
    BY <1>2, <2>3 DEF BackendMoves, Progress, Progress_after_stop
  <2>4. ASSUME NEW target \in ActionIds \cup {None}, Cancel(target) PROVE Effects'
    BY <1>2, <2>4 DEF Cancel
  <2> QED
    BY <1>3, <1>4, <1>5, <1>6, <1>7, <1>8, <1>9, <1>10, <2>1, <2>2, <2>3, <2>4
       DEF Next, Resume, Ends

\* The record of the one action an ending step writes.
LEMMA EndsRecord ==
  ASSUME TypeOK, Ownership, QueueShape, NEW a \in ActionIds, Ends(a)
  PROVE  /\ records'[a].state \in Terminal
         /\ records'[a].state = "UNKNOWN" => admission' = "UNKNOWN"
         /\ pc'[a] = "final"
         /\ \A b \in ActionIds \ {a} : records'[b] = records[b] /\ pc'[b] = pc[b]
<1>1. PICK t \in Terminal : /\ Persist(a, t, <<>>, "final")
                            /\ t = "UNKNOWN" => admission' = "UNKNOWN"
  BY EndsEffect
<1>2. records[a] \in Record
  BY EndsEffect, StatusType DEF Ownership, Owning, States
<1>3. /\ records' = [records EXCEPT ![a] = [records[a] EXCEPT !.state = t]]
      /\ pc' = [pc EXCEPT ![a] = "final"]
  BY <1>1 DEF Persist, _status
<1> QED
  BY <1>1, <1>2, <1>3 DEF TypeOK, Record

LEMMA AccountedStep ==
  ASSUME TypeOK, Ownership, QueueShape, Effects, Accounted, [Next]_vars
  PROVE  Accounted'
<1> USE DEF life, gate, grants, work, ledger
<1>1. ASSUME runs' = runs, admission = "UNKNOWN" => admission' = "UNKNOWN",
             \A a \in ActionIds : runs[a] > 0 /\ active' # a =>
               active # a /\ records'[a] = records[a],
             \A a \in ActionIds : records'[a].state = "UNKNOWN" => records[a].state = "UNKNOWN"
      PROVE  Accounted'
  BY <1>1 DEF Accounted
<1>2. ASSUME NEW kind, Fence(kind), UNCHANGED <<active, runs>> PROVE Accounted'
  <2>1. admission = "UNKNOWN" => admission' = "UNKNOWN"
    BY <1>2 DEF Fence, HeldAdmission, _finish_cancel
  <2> QED
    BY <1>2, <1>1, <2>1, FenceRecords
<1>3. ASSUME NEW a \in ActionIds, NEW l \in LeaseIds, Submit(a, l) PROVE Accounted'
  <2>1. ~(runs[a] > 0) /\ active = None
    BY <1>3 DEF Submit, Effects
  <2> QED
    BY <1>3, <1>1, <2>1, NoneAssumption DEF Submit, TypeOK
<1>4. ASSUME NEW a \in ActionIds, Ends(a) PROVE Accounted'
  BY <1>4, EndsEffect, EndsRecord DEF Accounted, Terminal
<1>5. ASSUME NEW a \in ActionIds, IntentAdmitted(a) PROVE Accounted'
  <2>1. pc[a] \in Owning /\ active = a /\ records[a] \in Record
    BY <1>5, OwnerAlone, StatusType DEF IntentAdmitted, Ownership, OneOwner, Owning, States
  <2>2. records'[a].state = "RUNNING" /\ \A b \in ActionIds \ {a} : records'[b] = records[b]
    BY <1>5, <2>1 DEF IntentAdmitted, Persist, _status, TypeOK, Record
  <2> QED
    BY <1>5, <1>1, <2>1, <2>2 DEF IntentAdmitted
<1>6. ASSUME NEW a \in ActionIds, StartHandler(a) PROVE Accounted'
  <2>1. pc[a] \in Owning /\ active = a
    BY <1>6, OwnerAlone DEF StartHandler, Ownership, OneOwner
  <2> QED
    BY <1>6, <2>1 DEF StartHandler, Accounted, TypeOK
<1>7. ASSUME NEW a \in ActionIds, Progress(a) PROVE Accounted'
  <2>1. active = a /\ records[a] \in Record
    BY <1>7, StatusType
       DEF Progress, Progress_after_stop, Ownership, OneOwner, Owning, States
  <2>2. records'[a].state = "RUNNING" /\ \A b \in ActionIds \ {a} : records'[b] = records[b]
    BY <1>7, <2>1 DEF Progress, Progress_after_stop, _status, TypeOK, Record
  <2> QED
    BY <1>7, <1>1, <2>1, <2>2 DEF Progress, Progress_after_stop
<1>8. ASSUME NEW a \in ActionIds, SaveLost(a) PROVE Accounted'
  BY <1>8 DEF SaveLost, Accounted
<1>9. ASSUME Restart PROVE Accounted'
  <2>1. SUFFICES ASSUME admission' # "UNKNOWN", NEW a \in ActionIds, runs'[a] > 0
                 PROVE  records'[a].state \in Known
    <3>1. admission' # "UNKNOWN" => \A b \in ActionIds : records'[b].state # "UNKNOWN"
      BY <1>9 DEF Restart, BootAdmission
    <3> QED
      BY <3>1 DEF Accounted
  <2>2. \A b \in ActionIds : disk'[b].state # "UNKNOWN"
    BY <1>9, <2>1 DEF Restart, BootAdmission
  <2>3. disk[a].state # "ABSENT"
    BY <1>9, <2>1 DEF Restart, Effects
  <2> QED
    BY <1>9, <2>2, <2>3, RestartRows DEF Terminal
<1>10. ASSUME CloseActive PROVE Accounted'
  BY <1>10, <1>1, <1>2 DEF CloseActive
<1>11. ASSUME AllowActions PROVE Accounted'
  BY <1>11, <1>1 DEF AllowActions
<1> QED
  <2>1. ASSUME NEW l \in LeaseIds, GrantLease(l) \/ ExpireLease(l) PROVE Accounted'
    BY <1>1, <2>1 DEF GrantLease, ExpireLease
  <2>2. ASSUME JournalWrite \/ CloseStep \/ UNCHANGED vars PROVE Accounted'
    BY <1>1, <2>2 DEF JournalWrite, CloseStep, vars
  <2>3. ASSUME NEW a \in ActionIds, BackendMoves(a) \/ FinalSaved(a) PROVE Accounted'
    BY <1>1, <2>3 DEF BackendMoves, FinalSaved
  <2>4. ASSUME Hold PROVE Accounted'
    BY <1>2, <2>4 DEF Hold
  <2>5. ASSUME NEW target \in ActionIds \cup {None}, Cancel(target) PROVE Accounted'
    BY <1>2, <2>5 DEF Cancel
  <2> QED
    BY <1>3, <1>4, <1>5, <1>6, <1>7, <1>8, <1>9, <1>10, <1>11, <2>1, <2>2, <2>3, <2>4, <2>5
       DEF Next, Resume, Ends

LEMMA DiskFollowsStep ==
  ASSUME TypeOK, Ownership, QueueShape, QueueContents, DiskFollows, [Next]_vars
  PROVE  DiskFollows'
<1> USE DEF life, gate, grants, work, ledger
<1>1. ASSUME disk' = disk, pc' = pc, admission = "UNKNOWN" => admission' = "UNKNOWN",
             \A a \in ActionIds :
               \/ records'[a] = records[a]
               \/ records'[a].state \in Pending /\ pc[a] \in Owning
      PROVE  DiskFollows'
  BY <1>1 DEF DiskFollows, Pending, Owning, Known, Ownership, known
<1>2. ASSUME NEW kind, Fence(kind), UNCHANGED <<active, pc, disk>> PROVE DiskFollows'
  <2>1. admission = "UNKNOWN" => admission' = "UNKNOWN"
    BY <1>2 DEF Fence, HeldAdmission, _finish_cancel
  <2> QED
    BY <1>2, <1>1, <2>1, FenceRecords DEF Ownership, OneOwner, Pending
<1>3. ASSUME NEW a \in ActionIds, NEW l \in LeaseIds, Submit(a, l) PROVE DiskFollows'
  <2>1. /\ pc'[a] = "intent" /\ records'[a].state = "ACCEPTED"
        /\ \A b \in ActionIds \ {a} : pc'[b] = pc[b] /\ records'[b] = records[b]
        /\ UNCHANGED <<disk, admission>>
    BY <1>3 DEF Submit, TypeOK
  <2>2. disk[a].state = "ABSENT"
    BY <1>3 DEF Submit, DiskFollows
  <2> QED
    BY <2>1, <2>2 DEF DiskFollows, Known, known
<1>4. ASSUME JournalWrite PROVE DiskFollows'
  <2>1. PICK i \in DOMAIN journal, result \in {"ok", "failed"} :
          disk' = IF result = "ok" THEN [disk EXCEPT ![journal[i].action] = journal[i].record]
                  ELSE disk
    BY <1>4 DEF JournalWrite
  <2> DEFINE b == journal[i].action
  <2>2. b \in ActionIds /\ pc[b] \in Waiting /\ journal # <<>>
    BY WriteOf DEF Write
  <2>3. /\ \A c \in ActionIds \ {b} : disk'[c] = disk[c]
        /\ disk'[b] = disk[b] \/ disk'[b] = journal[i].record
    BY <2>1, <2>2 DEF TypeOK
  <2>4. /\ pc[b] = "running" => journal[i].record.state = "RUNNING"
        /\ pc[b] = "final" => journal[i].record = records[b]
        /\ pc[b] = "intent" => journal[i].record.state = "ACCEPTED"
        /\ journal[i].record.state # "ABSENT" /\ known(b)
    BY <2>2, WriteOf DEF QueueContents, Write, Record, States, Terminal, Known, Ownership,
       Waiting
  <2>5. records[b].state \in Known => pc[b] = "final"
    BY <2>2 DEF Ownership, Owning, Waiting, Pending, Known
  <2>6. \A c \in ActionIds : pc[c] # "handler"
    BY <2>2 DEF QueueShape
  <2>7. UNCHANGED <<pc, records, admission>>
    BY <1>4 DEF JournalWrite
  <2> HIDE DEF b
  <2> QED
    BY <2>2, <2>3, <2>4, <2>5, <2>6, <2>7 DEF DiskFollows, Waiting, known, Known
<1>5. ASSUME NEW a \in ActionIds, Ends(a) PROVE DiskFollows'
  <2>1. disk[a].state \in {"ACCEPTED", "RUNNING"}
    <3>1. CASE IntentFenced(a)
      BY <3>1, OwnerAlone DEF IntentFenced, QueueContents
    <3>2. CASE RunningLost(a) \/ StoppedBeforeHandler(a)
      BY <3>2, OwnerAlone DEF RunningLost, StoppedBeforeHandler, DiskFollows
    <3>3. CASE HandlerEnds(a)
      BY <3>3 DEF HandlerEnds, DiskFollows
    <3> QED
      BY <1>5, <3>1, <3>2, <3>3 DEF Ends
  <2>2. disk' = disk /\ (admission = "UNKNOWN" => admission' = "UNKNOWN")
    BY <1>5, EndsEffect
  <2> QED
    BY <1>5, <2>1, <2>2, EndsRecord DEF DiskFollows, known, Known, Terminal
<1>6. ASSUME NEW a \in ActionIds, IntentAdmitted(a) PROVE DiskFollows'
  <2>0. /\ pc[a] = "intent" /\ 1 \in DOMAIN journal /\ journal[1].action = a
        /\ journal[1].result = "ok" /\ Persist(a, "RUNNING", <<>>, "running")
    BY <1>6, OwnerAlone DEF IntentAdmitted
  <2>1. disk[a].state = "ACCEPTED" /\ Persist(a, "RUNNING", <<>>, "running")
    BY <2>0 DEF QueueContents
  <2>2. records[a] \in Record
    BY <2>0, StatusType DEF States, Ownership
  <2>3. /\ records'[a].state = "RUNNING" /\ pc'[a] = "running"
        /\ \A b \in ActionIds \ {a} : records'[b] = records[b] /\ pc'[b] = pc[b]
    BY <2>1, <2>2 DEF Persist, _status, TypeOK, Record
  <2>4. UNCHANGED <<disk, admission>>
    BY <1>6 DEF IntentAdmitted
  <2> QED
    BY <2>1, <2>3, <2>4 DEF DiskFollows, Known, known
<1>7. ASSUME NEW a \in ActionIds, StartHandler(a) PROVE DiskFollows'
  <2>1. disk[a].state = "RUNNING" /\ pc[a] = "running"
    BY <1>7, OwnerAlone DEF StartHandler, QueueContents
  <2> QED
    BY <1>7, <2>1 DEF StartHandler, DiskFollows, TypeOK, known
<1>8. ASSUME NEW a \in ActionIds, Progress(a) PROVE DiskFollows'
  <2>1. pc[a] = "handler" /\ records' = _status(a, "RUNNING") /\ UNCHANGED <<pc, disk, admission>>
    BY <1>8 DEF Progress, Progress_after_stop
  <2>2. records[a] \in Record
    BY <2>1, StatusType DEF States, Ownership
  <2> QED
    BY <1>1, <2>1, <2>2 DEF _status, TypeOK, Record, Pending, Owning
<1>9. ASSUME NEW a \in ActionIds, FinalSaved(a) PROVE DiskFollows'
  <2>1. SavedAs(a, "final", {"ok"})
    BY <1>9 DEF FinalSaved, Saved
  <2>2. pc[a] = "final" /\ journal[1].action = a /\ journal[1].result = "ok"
        /\ 1 \in DOMAIN journal
    BY <2>1, AtHead DEF TypeOK
  <2>3. disk[a] = records[a]
    BY <2>2 DEF QueueContents
  <2> QED
    BY <1>9, <2>3 DEF FinalSaved, DiskFollows, TypeOK, known
<1>10. ASSUME NEW a \in ActionIds, SaveLost(a) PROVE DiskFollows'
  <2>1. /\ pc'[a] = "done" /\ \A b \in ActionIds \ {a} : pc'[b] = pc[b]
        /\ disk' = disk /\ admission' = "UNKNOWN"
    BY <1>10 DEF SaveLost, TypeOK
  <2>2. pc[a] \in {"intent", "final"}
    BY <1>10 DEF SaveLost, Saved, SavedAs
  <2>3. records[a] \in Record
    BY <2>2, StatusType DEF Ownership, States
  <2>4. /\ records'[a].state = "UNKNOWN"
        /\ \A b \in ActionIds \ {a} : records'[b] = records[b]
    BY <1>10, <2>3 DEF SaveLost, _status, TypeOK, Record
  <2>5. disk[a].state \notin Known
    <3>1. SavedAs(a, "intent", {"failed"}) \/ SavedAs(a, "final", {"failed"})
      BY <1>10 DEF SaveLost, Saved
    <3>2. journal[1].action = a /\ journal[1].result = "failed" /\ 1 \in DOMAIN journal
      BY <3>1, AtHead DEF TypeOK
    <3> QED
      BY <3>2 DEF QueueContents
  <2> QED
    BY <2>1, <2>4, <2>5 DEF DiskFollows, Known, known
<1>11. ASSUME Restart PROVE DiskFollows'
  <2>1. \A a \in ActionIds : pc'[a] = "idle" /\ disk'[a] = records'[a]
    BY <1>11, RestartRows DEF Restart
  <2> QED
    BY <2>1 DEF DiskFollows, known, Known
<1>12. ASSUME CloseActive PROVE DiskFollows'
  BY <1>12, <1>1, <1>2 DEF CloseActive
<1>13. ASSUME AllowActions PROVE DiskFollows'
  BY <1>13, <1>1 DEF AllowActions
<1> QED
  <2>1. ASSUME NEW l \in LeaseIds, GrantLease(l) \/ ExpireLease(l) PROVE DiskFollows'
    BY <1>1, <2>1 DEF GrantLease, ExpireLease
  <2>2. ASSUME CloseStep \/ UNCHANGED vars PROVE DiskFollows'
    BY <1>1, <2>2 DEF CloseStep, vars
  <2>3. ASSUME NEW a \in ActionIds, BackendMoves(a) PROVE DiskFollows'
    BY <1>1, <2>3 DEF BackendMoves
  <2>4. ASSUME Hold PROVE DiskFollows'
    BY <1>2, <2>4 DEF Hold
  <2>5. ASSUME NEW target \in ActionIds \cup {None}, Cancel(target) PROVE DiskFollows'
    BY <1>2, <2>5 DEF Cancel
  <2> QED
    BY <1>3, <1>4, <1>5, <1>6, <1>7, <1>8, <1>9, <1>10, <1>11, <1>12, <1>13,
       <2>1, <2>2, <2>3, <2>4, <2>5 DEF Next, Resume, Ends

\* A request keeps its lease, and what clients know of a lease never changes.
LEMMA LeaseKept ==
  ASSUME TypeOK, Ownership, QueueShape, [Next]_vars, boot' = boot,
         NEW a \in ActionIds, known(a)
  PROVE  /\ records'[a].lease = records[a].lease
         /\ \A l \in LeaseIds : contexts[l] # None => contexts'[l] = contexts[l]
<1> USE DEF life, gate, grants, work, ledger
<1>1. ASSUME NEW b \in ActionIds, NEW t \in States, known(b), records' = _status(b, t)
      PROVE  records'[a].lease = records[a].lease
  <2>1. records[b] \in Record
    BY <1>1, StatusType
  <2> QED
    BY <1>1, <2>1 DEF _status, TypeOK, Record
<1>2. ASSUME NEW kind, Fence(kind) PROVE records'[a].lease = records[a].lease
  <2>1. records[a] \in Record
    BY StatusType DEF States
  <2> QED
    BY <1>2, <2>1, FenceRecords DEF Record
<1>3. ASSUME NEW b \in ActionIds, Ends(b) PROVE records'[a].lease = records[a].lease
  <2>1. \E t \in States : records' = _status(b, t)
    BY <1>3, EndsEffect DEF Persist, States
  <2> QED
    BY <1>1, <1>3, <2>1, EndsEffect DEF Ownership, Owning
<1>4. ASSUME NEW b \in ActionIds, IntentAdmitted(b) \/ SaveLost(b) \/ Progress(b)
      PROVE  records'[a].lease = records[a].lease
  <2>1. pc[b] # "idle" /\ \E t \in States : records' = _status(b, t)
    BY <1>4 DEF IntentAdmitted, SaveLost, Progress, Progress_after_stop, Saved, SavedAs,
                Persist, States, Terminal
  <2> QED
    BY <1>1, <2>1 DEF Ownership
<1>5. ASSUME NEW b \in ActionIds, NEW l \in LeaseIds, Submit(b, l)
      PROVE  records'[a].lease = records[a].lease
  BY <1>5 DEF Submit, known, TypeOK
<1>6. ASSUME CloseActive PROVE records'[a].lease = records[a].lease
  BY <1>6, <1>2 DEF CloseActive
<1>7. ~Restart
  BY DEF Restart, TypeOK
<1>8. records'[a].lease = records[a].lease
  <2>1. ASSUME NEW l \in LeaseIds, GrantLease(l) \/ ExpireLease(l)
        PROVE  records'[a].lease = records[a].lease
    BY <2>1 DEF GrantLease, ExpireLease
  <2>2. ASSUME JournalWrite \/ AllowActions \/ CloseStep \/ UNCHANGED vars
        PROVE  records'[a].lease = records[a].lease
    BY <2>2 DEF JournalWrite, AllowActions, CloseStep, vars
  <2>3. ASSUME NEW b \in ActionIds, BackendMoves(b) \/ StartHandler(b) \/ FinalSaved(b)
        PROVE  records'[a].lease = records[a].lease
    BY <2>3 DEF BackendMoves, StartHandler, FinalSaved
  <2>4. ASSUME Hold PROVE records'[a].lease = records[a].lease
    BY <1>2, <2>4 DEF Hold
  <2>5. ASSUME NEW target \in ActionIds \cup {None}, Cancel(target)
        PROVE  records'[a].lease = records[a].lease
    BY <1>2, <2>5 DEF Cancel
  <2> QED
    BY <1>3, <1>4, <1>5, <1>6, <1>7, <2>1, <2>2, <2>3, <2>4, <2>5 DEF Next, Resume, Ends
<1>9. ASSUME NEW l \in LeaseIds, contexts[l] # None PROVE contexts'[l] = contexts[l]
  <2>1. CASE \E m \in LeaseIds : GrantLease(m)
    BY <1>9, <2>1 DEF GrantLease, TypeOK
  <2>2. CASE contexts' = contexts
    BY <2>2
  <2>3. CASE \E b \in ActionIds : Ends(b)
    BY <2>3, EndsEffect
  <2> QED
    BY <2>1, <2>2, <2>3 DEF Next, Resume, Ends, vars, ExpireLease, Submit, JournalWrite,
       IntentAdmitted, StartHandler, Progress, Progress_after_stop, BackendMoves, FinalSaved,
       SaveLost, Hold, Cancel, AllowActions, CloseActive, CloseStep, Restart
<1> QED
  BY <1>8, <1>9

LEMMA AuthorityStep ==
  ASSUME TypeOK, Ownership, QueueShape, Authority, [Next]_vars
  PROVE  Authority'
<1> USE DEF life, gate, grants, work, ledger
<1>1. ASSUME UNCHANGED <<boot, version>>,
             \A a \in ActionIds : pc'[a] \in {"intent", "running"} => pc'[a] = pc[a]
      PROVE  Authority'
  <2>1. SUFFICES ASSUME NEW a \in ActionIds, pc'[a] \in {"intent", "running"}
                 PROVE  contexts'[records'[a].lease] = contexts[records[a].lease]
    BY <1>1 DEF Authority
  <2>2. known(a) /\ contexts[records[a].lease] # None
    BY <1>1, <2>1 DEF Ownership, Authority
  <2>3. records[a].lease \in LeaseIds
    BY <2>2, StatusType DEF Record, States
  <2> QED
    BY <1>1, <2>2, <2>3, LeaseKept
<1>2. ASSUME NEW a \in ActionIds, NEW l \in LeaseIds, Submit(a, l) PROVE Authority'
  <2>1. \A b \in ActionIds : pc[b] \notin {"intent", "running"}
    BY <1>2, NoneAssumption DEF Submit, Ownership, OneOwner, Owning
  <2>2. /\ pc'[a] = "intent" /\ records'[a].lease = l /\ contexts' = contexts
        /\ contexts[l] # None
        /\ \A b \in ActionIds \ {a} : pc'[b] = pc[b]
    BY <1>2 DEF Submit, TypeOK
  <2> QED
    BY <2>1, <2>2 DEF Authority
<1>3. ASSUME NEW a \in ActionIds, Ends(a) PROVE Authority'
  <2>1. \A b \in ActionIds : pc'[b] \notin {"intent", "running"}
    BY <1>3, EndsEffect, EndsRecord DEF Owning
  <2> QED
    BY <2>1 DEF Authority
<1>4. ASSUME NEW a \in ActionIds, IntentAdmitted(a) PROVE Authority'
  <2>1. pc[a] = "intent" /\ \A b \in ActionIds \ {a} : pc[b] \notin Waiting
    BY <1>4, OwnerAlone DEF IntentAdmitted
  <2>2. records[a] \in Record
    BY <2>1, StatusType DEF Ownership, States
  <2>3. /\ pc' = [pc EXCEPT ![a] = "running"] /\ records' = _status(a, "RUNNING")
        /\ contexts' = contexts /\ boot' = boot /\ version' = version
        /\ Authorised(records[a].lease)
    BY <1>4 DEF IntentAdmitted, Persist
  <2>4. records'[a].lease = records[a].lease
    BY <2>2, <2>3 DEF _status, TypeOK, Record
  <2>5. pc'[a] = "running" /\ \A b \in ActionIds \ {a} : pc'[b] = pc[b]
    BY <2>3 DEF TypeOK
  <2>6. contexts[records[a].lease] # None
    BY <2>1 DEF Authority
  <2> QED
    BY <2>1, <2>3, <2>4, <2>5, <2>6 DEF Authority, Authorised, Waiting
<1>5. ASSUME NEW a \in ActionIds, BackendMoves(a) PROVE Authority'
  <2>1. \A b \in ActionIds : pc[b] \notin {"intent", "running"}
    BY <1>5 DEF BackendMoves, Ownership, OneOwner, Owning
  <2> QED
    BY <1>5, <2>1 DEF BackendMoves, Authority
<1>6. ASSUME Restart PROVE Authority'
  BY <1>6 DEF Restart, Authority
<1>7. ASSUME NEW a \in ActionIds, StartHandler(a) \/ FinalSaved(a) \/ SaveLost(a)
      PROVE  Authority'
  BY <1>1, <1>7 DEF StartHandler, FinalSaved, SaveLost, TypeOK
<1> QED
  <2>1. ASSUME NEW l \in LeaseIds, GrantLease(l) \/ ExpireLease(l) PROVE Authority'
    BY <1>1, <2>1 DEF GrantLease, ExpireLease
  <2>2. ASSUME JournalWrite \/ Hold \/ AllowActions \/ CloseActive \/ CloseStep
               \/ UNCHANGED vars
        PROVE  Authority'
    BY <1>1, <2>2 DEF JournalWrite, Hold, AllowActions, CloseActive, CloseStep, vars
  <2>3. ASSUME NEW a \in ActionIds, Progress(a) PROVE Authority'
    BY <1>1, <2>3 DEF Progress, Progress_after_stop
  <2>4. ASSUME NEW target \in ActionIds \cup {None}, Cancel(target) PROVE Authority'
    BY <1>1, <2>4 DEF Cancel
  <2> QED
    BY <1>2, <1>3, <1>4, <1>5, <1>6, <1>7, <2>1, <2>2, <2>3, <2>4 DEF Next, Resume, Ends

LEMMA SignalledStep ==
  ASSUME TypeOK, Ownership, QueueShape, Signalled, [Next]_vars
  PROVE  Signalled'
<1> USE DEF life, gate, grants, work, ledger
<1>1. ASSUME stopSignal => stopSignal', \A a \in ActionIds :
               \/ records'[a].state # "CANCELLING"
               \/ records'[a] = records[a] /\ (pc[a] \in Owning => pc'[a] \in Owning)
      PROVE  Signalled'
  BY <1>1 DEF Signalled
<1>2. ASSUME NEW kind, Fence(kind), UNCHANGED <<pc, active>> PROVE Signalled'
  BY <1>2, FenceRecords, NoneAssumption DEF Fence, Signalled, Ownership, OneOwner
<1>3. ASSUME NEW a \in ActionIds, NEW l \in LeaseIds, Submit(a, l) PROVE Signalled'
  <2>1. \A b \in ActionIds : records[b].state # "CANCELLING"
    BY <1>3, NoneAssumption DEF Submit, Ownership, OneOwner, Pending
  <2> QED
    BY <1>3, <2>1 DEF Submit, Signalled, TypeOK
<1>4. ASSUME NEW a \in ActionIds, Ends(a) PROVE Signalled'
  <2>1. stopSignal => stopSignal'
    BY <1>4 DEF Ends, IntentFenced, RunningLost, StoppedBeforeHandler, HandlerEnds
  <2> QED
    BY <1>1, <1>4, <2>1, EndsRecord DEF Terminal, Known
<1>5. ASSUME NEW a \in ActionIds, NEW t \in {"RUNNING", "UNKNOWN"}, pc[a] # "idle",
             records' = _status(a, t), stopSignal => stopSignal',
             \A b \in ActionIds \ {a} : pc'[b] = pc[b]
      PROVE  Signalled'
  <2>1. records[a] \in Record
    BY <1>5, StatusType DEF Ownership, States
  <2> QED
    BY <1>5, <2>1 DEF _status, TypeOK, Record, Signalled
<1>6. ASSUME NEW a \in ActionIds, IntentAdmitted(a) \/ SaveLost(a) \/ Progress(a)
      PROVE  Signalled'
  <2>1. \A b \in ActionIds \ {a} : pc'[b] = pc[b]
    BY <1>6 DEF IntentAdmitted, SaveLost, Progress, Progress_after_stop, Persist, TypeOK
  <2>2. pc[a] # "idle" /\ (stopSignal => stopSignal')
    BY <1>6 DEF IntentAdmitted, SaveLost, Progress, Progress_after_stop, Saved, SavedAs
  <2>3. records' = _status(a, "RUNNING") \/ records' = _status(a, "UNKNOWN")
    BY <1>6 DEF IntentAdmitted, SaveLost, Progress, Progress_after_stop, Persist
  <2> QED
    BY <1>5, <2>1, <2>2, <2>3
<1>7. ASSUME NEW a \in ActionIds, StartHandler(a) PROVE Signalled'
  BY <1>7, <1>1 DEF StartHandler, TypeOK, Owning
<1>8. ASSUME NEW a \in ActionIds, FinalSaved(a) PROVE Signalled'
  <2>1. pc[a] \notin Owning
    BY <1>8 DEF FinalSaved, Saved, SavedAs, Owning
  <2> QED
    BY <1>8, <1>1, <2>1 DEF FinalSaved, TypeOK
<1>9. ASSUME Restart PROVE Signalled'
  <2>1. ASSUME NEW a \in ActionIds PROVE records'[a].state # "CANCELLING"
    BY <1>9, RestartRows DEF Terminal, Known
  <2> QED
    BY <2>1 DEF Signalled
<1>10. ASSUME CloseActive PROVE Signalled'
  BY <1>10, <1>1, <1>2 DEF CloseActive
<1> QED
  <2>1. ASSUME NEW l \in LeaseIds, GrantLease(l) \/ ExpireLease(l) PROVE Signalled'
    BY <1>1, <2>1 DEF GrantLease, ExpireLease
  <2>2. ASSUME JournalWrite \/ AllowActions \/ CloseStep \/ UNCHANGED vars PROVE Signalled'
    BY <1>1, <2>2 DEF JournalWrite, AllowActions, CloseStep, vars
  <2>3. ASSUME NEW a \in ActionIds, BackendMoves(a) PROVE Signalled'
    BY <1>1, <2>3 DEF BackendMoves
  <2>4. ASSUME Hold PROVE Signalled'
    BY <1>2, <2>4 DEF Hold
  <2>5. ASSUME NEW target \in ActionIds \cup {None}, Cancel(target) PROVE Signalled'
    BY <1>2, <2>5 DEF Cancel
  <2> QED
    BY <1>3, <1>4, <1>6, <1>7, <1>8, <1>9, <1>10, <2>1, <2>2, <2>3, <2>4, <2>5
       DEF Next, Resume, Ends

LEMMA ReceiptsStep ==
  ASSUME TypeOK, Ownership, QueueShape, Receipts, [Next]_vars
  PROVE  Receipts'
<1> USE DEF life, gate, grants, work, ledger
<1> SUFFICES ASSUME RobotControls PROVE Receipts'
  BY DEF Receipts
<1>1. ASSUME controls' = controls, active = None => active' = None,
             admission # "OPEN" => admission' # "OPEN"
      PROVE  Receipts'
  BY <1>1 DEF Receipts
<1>2. ASSUME NEW kind \in {"hold", "cancel"}, Fence(kind), active' = active PROVE Receipts'
  <2>1. admission' # "OPEN"
    BY <1>2 DEF Fence, HeldAdmission, _finish_cancel
  <2>2. controls' = Append(controls, [kind |-> kind, phase |-> ReceiptPhase])
    BY <1>2 DEF Fence
  <2>3. ReceiptPhase = "STOPPED" => active = None
    BY DEF ReceiptPhase
  <2>4. PICK n \in Nat :
          /\ DOMAIN controls = 1 .. n /\ DOMAIN controls' = 1 .. (n + 1)
          /\ \A i \in 1 .. n : controls'[i] = controls[i]
          /\ controls'[n + 1] = [kind |-> kind, phase |-> ReceiptPhase]
    BY <2>2 DEF TypeOK
  <2>5. ASSUME NEW i \in DOMAIN controls', controls'[i].phase = "STOPPED",
               \A j \in DOMAIN controls' : j > i => controls'[j].kind # "allow_actions"
        PROVE  active' = None
    <3>1. CASE i \in DOMAIN controls
      BY <1>2, <2>4, <2>5, <3>1 DEF Receipts
    <3>2. CASE i = n + 1
      BY <1>2, <2>3, <2>4, <2>5, <3>2
    <3> QED
      BY <2>4, <3>1, <3>2
  <2> QED
    BY <2>1, <2>5 DEF Receipts
<1>3. ASSUME AllowActions PROVE Receipts'
  <2>1. controls' = Append(controls, [kind |-> "allow_actions", phase |-> "ACTIONS_ALLOWED"])
    BY <1>3 DEF AllowActions
  <2>2. controls \in Seq(Receipt) /\ Len(controls) \in Nat
    BY DEF TypeOK
  <2>3. DOMAIN controls' = 1 .. (Len(controls) + 1)
        /\ controls'[Len(controls) + 1].phase = "ACTIONS_ALLOWED"
        /\ controls'[Len(controls) + 1].kind = "allow_actions"
    BY <2>1, <2>2
  <2>4. ASSUME NEW i \in DOMAIN controls', controls'[i].phase = "STOPPED",
               \A j \in DOMAIN controls' : j > i => controls'[j].kind # "allow_actions"
        PROVE  FALSE
    <3>1. i # Len(controls) + 1
      BY <2>3, <2>4
    <3>2. Len(controls) + 1 \in DOMAIN controls' /\ Len(controls) + 1 > i
      BY <2>2, <2>3, <3>1
    <3> QED
      BY <2>3, <2>4, <3>2
  <2> QED
    BY <2>4 DEF Receipts
<1>4. ASSUME NEW a \in ActionIds, Ends(a) PROVE Receipts'
  <2>1. controls' = controls
    BY <1>4 DEF Ends, IntentFenced, RunningLost, StoppedBeforeHandler, HandlerEnds
  <2>2. admission # "OPEN" => admission' # "OPEN"
    BY <1>4 DEF Ends, IntentFenced, RunningLost, StoppedBeforeHandler, HandlerEnds,
                FinishStopped, FinishUnknown, _finish_cancel
  <2> QED
    BY <1>1, <1>4, <2>1, <2>2, EndsEffect
<1>5. ASSUME NEW a \in ActionIds, NEW l \in LeaseIds, Submit(a, l) PROVE Receipts'
  BY <1>5 DEF Submit, Authorised, Receipts
<1>6. ASSUME Restart PROVE Receipts'
  BY <1>6 DEF Restart, Receipts
<1>7. ASSUME CloseActive PROVE Receipts'
  BY <1>7, <1>1, <1>2 DEF CloseActive
<1>8. ASSUME NEW a \in ActionIds, SaveLost(a) PROVE Receipts'
  BY <1>8, <1>1 DEF SaveLost
<1> QED
  <2>1. ASSUME NEW l \in LeaseIds, GrantLease(l) \/ ExpireLease(l) PROVE Receipts'
    BY <1>1, <2>1 DEF GrantLease, ExpireLease
  <2>2. ASSUME JournalWrite \/ CloseStep \/ UNCHANGED vars PROVE Receipts'
    BY <1>1, <2>2 DEF JournalWrite, CloseStep, vars
  <2>3. ASSUME NEW a \in ActionIds,
               IntentAdmitted(a) \/ StartHandler(a) \/ Progress(a) \/ BackendMoves(a)
                 \/ FinalSaved(a)
        PROVE  Receipts'
    BY <1>1, <2>3 DEF IntentAdmitted, StartHandler, Progress, Progress_after_stop,
                      BackendMoves, FinalSaved
  <2>4. ASSUME Hold PROVE Receipts'
    BY <1>2, <2>4 DEF Hold
  <2>5. ASSUME NEW target \in ActionIds \cup {None}, Cancel(target) PROVE Receipts'
    BY <1>2, <2>5 DEF Cancel
  <2> QED
    BY <1>3, <1>4, <1>5, <1>6, <1>7, <1>8, <2>1, <2>2, <2>3, <2>4, <2>5
       DEF Next, Resume, Ends

-------------------------------------------------------------------------------
(* The theorems.                                                           *)

LEMMA InitIInv == Init => IInv
<1> SUFFICES ASSUME Init PROVE IInv
  OBVIOUS
<1> USE DEF Init
<1>1. TypeOK
  <2>1. /\ boot \in Nat /\ epoch \in Nat /\ version \in Nat
        /\ leases \in Seq(LeaseIds) /\ journal \in Seq(Write) /\ controls \in Seq(Receipt)
        /\ runs \in [ActionIds -> Nat]
    OBVIOUS
  <2>2. /\ contexts \in [LeaseIds -> Context \cup {None}]
        /\ records \in [ActionIds -> Record \cup {NoRecord}]
        /\ disk \in [ActionIds -> Record \cup {NoRecord}]
    OBVIOUS
  <2> QED
    BY <2>1, <2>2 DEF TypeOK
<1>2. Ownership
  BY NoneAssumption DEF Ownership, OneOwner, Owning, known, Pending, NoRecord
<1>3. QueueShape /\ QueueContents
  BY DEF QueueShape, QueueContents, Waiting
<1>4. Tracked
  BY DEF Tracked, StopIsTrue
<1>5. Effects /\ Accounted
  BY DEF Effects, AtMostOnce, Accounted, NoRecord
<1>6. DiskFollows
  BY DEF DiskFollows, NoRecord, Known, known
<1>7. Authority /\ Signalled /\ Receipts
  BY DEF Authority, Signalled, Receipts, NoRecord
<1> QED
  BY <1>1, <1>2, <1>3, <1>4, <1>5, <1>6, <1>7 DEF IInv

LEMMA StepIInv == IInv /\ [Next]_vars => IInv'
BY TypeStep, OwnershipStep, QueueShapeStep, QueueContentsStep, TrackedStep, EffectsStep,
   AccountedStep, DiskFollowsStep, AuthorityStep, SignalledStep, ReceiptsStep DEF IInv

\* The inductive invariant holds in every reachable state of the executor, for
\* any number of actions, leases, controls, restarts and versions.
THEOREM Inductive == Spec => []IInv
BY InitIInv, StepIInv, PTL DEF Spec

\* Every variable keeps its type: _status and the journal are only ever
\* called for actions that submit() has recorded.
THEOREM TypeCorrect == Spec => []TypeOK
<1>1. IInv => TypeOK
  BY DEF IInv
<1> QED
  BY <1>1, Inductive, PTL

\* active_action is the one coroutine between acceptance and its last status.
THEOREM SingleOwner == Spec => []OneOwner
<1>1. IInv => OneOwner
  BY DEF IInv, Ownership
<1> QED
  BY <1>1, Inductive, PTL

\* stop_confirmed is only shown when no coroutine can reach a backend and the
\* node has not lost track of one.
THEOREM ConfirmedStopIsTrue == Spec => []StopIsTrue
<1>1. IInv => StopIsTrue
  BY DEF IInv, Tracked
<1> QED
  BY <1>1, Inductive, PTL

\* The handler of an action id runs at most once over all restarts.
THEOREM HandlerAtMostOnce == Spec => []AtMostOnce
<1>1. IInv => AtMostOnce
  BY DEF IInv, Effects
<1> QED
  BY <1>1, Inductive, PTL

\* While a handler runs, its intent and the last status of every other action
\* are on disk.
THEOREM IntentIsOnDisk == Spec => []WriteAhead
<1>1. ASSUME IInv, NEW a \in ActionIds, pc[a] = "handler"
      PROVE  disk[a].state = "RUNNING" /\ \A b \in ActionIds \ {a} : disk[b] = records[b]
  <2>1. disk[a].state = "RUNNING" /\ admission # "UNKNOWN" /\ journal = <<>>
    BY <1>1 DEF IInv, DiskFollows, Tracked, QueueShape
  <2>2. ASSUME NEW b \in ActionIds \ {a} PROVE disk[b] = records[b]
    <3>1. pc[b] \notin Waiting /\ pc[b] # "handler"
      BY <1>1, <2>1 DEF IInv, QueueShape, Ownership, OneOwner, Owning
    <3>2. pc[b] \in {"idle", "done"}
      BY <1>1, <3>1 DEF IInv, TypeOK, Waiting
    <3> QED
      BY <1>1, <2>1, <3>2 DEF IInv, DiskFollows
  <2> QED
    BY <2>1, <2>2
<1>2. IInv => WriteAhead
  BY <1>1 DEF WriteAhead
<1> QED
  BY <1>2, Inductive, PTL

\* An open node knows how every past effect ended, across restarts and failed
\* writes.
THEOREM OpenMeansAccounted == Spec => []NoBlindReopen
<1>1. IInv => NoBlindReopen
  BY DEF IInv, Accounted, NoBlindReopen
<1> QED
  BY <1>1, Inductive, PTL

\* A handler is only called for a request of the present process, epoch and
\* state version, through an open admission.
THEOREM EffectsAreAuthorised == Spec => EffectUnderAuthority
<1> USE DEF life, gate, grants, work, ledger
<1> DEFINE A == \A a \in ActionIds : runs'[a] # runs[a] =>
                  /\ contexts[records[a].lease] =
                       [boot |-> boot, epoch |-> epoch, version |-> version]
                  /\ admission = "OPEN"
<1>1. ASSUME IInv, [Next]_vars PROVE A
  <2>1. CASE runs' = runs
    BY <2>1
  <2>2. ASSUME NEW a \in ActionIds, StartHandler(a) PROVE A
    <3>1. /\ pc[a] = "running" /\ ~Stopped(a)
          /\ \A b \in ActionIds \ {a} : runs'[b] = runs[b]
      BY <1>1, <2>2, OwnerAlone DEF StartHandler, IInv, TypeOK
    <3> DEFINE c == contexts[records[a].lease]
    <3>2. known(a) /\ records[a].lease \in LeaseIds
      BY <1>1, <3>1, StatusType DEF IInv, Ownership, Record, States
    <3>3. c # None /\ c.boot = boot /\ c.version = version
      BY <1>1, <3>1 DEF IInv, Authority
    <3>4. c.epoch = epoch /\ admission = "OPEN"
      BY <3>1 DEF Stopped
    <3>5. c \in Context
      BY <1>1, <3>2, <3>3 DEF IInv, TypeOK
    <3>6. c = [boot |-> boot, epoch |-> epoch, version |-> version]
      BY <3>3, <3>4, <3>5 DEF Context
    <3> QED
      BY <3>1, <3>4, <3>6
  <2>3. CASE \E a \in ActionIds : Ends(a)
    BY <1>1, <2>1, <2>3, EndsEffect DEF IInv
  <2> QED
    BY <1>1, <2>1, <2>2, <2>3 DEF Next, Resume, Ends, vars, GrantLease, ExpireLease, Submit,
       JournalWrite, IntentAdmitted, Progress, Progress_after_stop, BackendMoves, FinalSaved,
       SaveLost, Hold, Cancel, AllowActions, CloseActive, CloseStep, Restart
<1>2. A => [A]_vars
  OBVIOUS
<1> QED
  BY <1>1, Inductive, PTL DEF Spec, EffectUnderAuthority

\* A STOPPED receipt stays true until a later allow_actions.
THEOREM ReceiptsStayTrue == Spec => []StoppedReceiptHolds
<1>1. IInv => StoppedReceiptHolds
  BY DEF IInv, Receipts, StoppedReceiptHolds
<1> QED
  BY <1>1, Inductive, PTL

\* What a step can make of the record of one action.
LEMMA RecordStep ==
  ASSUME IInv, [Next]_vars, boot' = boot, NEW a \in ActionIds, known(a)
  PROVE  \/ records'[a].state = records[a].state
         \/ records'[a].state = "UNKNOWN"
         \/ pc[a] \in Owning /\ records'[a].state \in {"CANCELLING", "CANCELLED", "FAILED"}
         \/ pc[a] \in Owning /\ ~stopSignal
<1> USE DEF life, gate, grants, work, ledger
<1>0. TypeOK /\ Ownership /\ QueueShape /\ records[a] \in Record
  BY StatusType DEF IInv, States
<1>1. ASSUME NEW b \in ActionIds, Ends(b)
      PROVE  \/ records'[a] = records[a]
             \/ records'[a].state = "UNKNOWN"
             \/ pc[a] \in Owning /\ records'[a].state \in {"CANCELLED", "FAILED"}
             \/ pc[a] \in Owning /\ ~stopSignal
  <2>1. CASE b # a
    BY <1>0, <1>1, <2>1, EndsRecord
  <2>2. CASE b = a
    <3>1. pc[a] \in Owning
      BY <1>0, <1>1, <2>2, EndsEffect
    <3>2. \A s : records' = _status(a, s) => records'[a].state = s
      BY <1>0 DEF _status, TypeOK, Record
    <3>3. CASE ~stopSignal
      BY <3>1, <3>3
    <3>4. CASE stopSignal
      BY <1>1, <2>2, <3>1, <3>2, <3>4
         DEF Ends, IntentFenced, RunningLost, StoppedBeforeHandler, HandlerEnds, Stopped,
             FinishStopped, FinishUnknown, Finish, Persist
    <3> QED
      BY <3>3, <3>4
  <2> QED
    BY <2>1, <2>2
<1>2. ASSUME NEW b \in ActionIds, IntentAdmitted(b) \/ Progress(b)
      PROVE  records'[a] = records[a] \/ (pc[a] \in Owning /\ ~stopSignal)
  BY <1>0, <1>2 DEF IntentAdmitted, Progress, Progress_after_stop, Saved, SavedAs, Persist,
                    _status, TypeOK, Owning
<1>3. ASSUME NEW b \in ActionIds, SaveLost(b)
      PROVE  records'[a] = records[a] \/ records'[a].state = "UNKNOWN"
  BY <1>0, <1>3 DEF SaveLost, _status, TypeOK, Record
<1>4. ASSUME NEW kind, Fence(kind)
      PROVE  \/ records'[a] = records[a]
             \/ pc[a] \in Owning /\ records'[a].state = "CANCELLING"
  BY <1>0, <1>4, FenceRecords DEF Ownership, OneOwner
<1>5. ASSUME NEW b \in ActionIds, NEW l \in LeaseIds, Submit(b, l)
      PROVE  records'[a] = records[a]
  BY <1>0, <1>5 DEF Submit, known, TypeOK
<1>6. ASSUME CloseActive
      PROVE  \/ records'[a] = records[a]
             \/ pc[a] \in Owning /\ records'[a].state = "CANCELLING"
  BY <1>4, <1>6 DEF CloseActive
<1>7. ~Restart
  BY <1>0 DEF Restart, TypeOK
<1> QED
  <2>1. ASSUME NEW l \in LeaseIds, GrantLease(l) \/ ExpireLease(l) PROVE records' = records
    BY <2>1 DEF GrantLease, ExpireLease
  <2>2. ASSUME JournalWrite \/ AllowActions \/ CloseStep \/ UNCHANGED vars
        PROVE  records' = records
    BY <2>2 DEF JournalWrite, AllowActions, CloseStep, vars
  <2>3. ASSUME NEW b \in ActionIds, BackendMoves(b) \/ StartHandler(b) \/ FinalSaved(b)
        PROVE  records' = records
    BY <2>3 DEF BackendMoves, StartHandler, FinalSaved
  <2>4. ASSUME Hold \/ \E target \in ActionIds \cup {None} : Cancel(target)
        PROVE  \/ records'[a] = records[a]
               \/ pc[a] \in Owning /\ records'[a].state = "CANCELLING"
    BY <1>4, <2>4 DEF Hold, Cancel
  <2> QED
    BY <1>1, <1>2, <1>3, <1>5, <1>6, <1>7, <2>1, <2>2, <2>3, <2>4 DEF Next, Resume, Ends

\* No step within a process, and no restart, replaces a known outcome.
THEOREM OutcomesStand == Spec => OutcomeStands
<1> DEFINE A == \A a \in ActionIds : records[a].state \in Known =>
                  records'[a].state \in {records[a].state, "UNKNOWN"}
<1>1. ASSUME IInv, [Next]_vars PROVE A
  <2>1. SUFFICES ASSUME NEW a \in ActionIds, records[a].state \in Known
                 PROVE  records'[a].state \in {records[a].state, "UNKNOWN"}
    OBVIOUS
  <2>2. known(a) /\ pc[a] \notin Owning
    BY <1>1, <2>1 DEF IInv, Ownership, Pending, Known, known
  <2>3. CASE boot' = boot
    BY <1>1, <2>2, <2>3, RecordStep
  <2>4. CASE boot' # boot
    <3>1. Restart
      <4>1. ASSUME NEW b \in ActionIds, Ends(b) PROVE FALSE
        BY <1>1, <2>4, <4>1, EndsEffect DEF IInv
      <4> QED
        BY <1>1, <2>4, <4>1
           DEF Next, Resume, Ends, vars, life, GrantLease, ExpireLease, Submit, JournalWrite,
               IntentAdmitted, StartHandler, Progress, Progress_after_stop, BackendMoves,
               FinalSaved, SaveLost, Hold, Cancel, AllowActions, CloseActive, CloseStep
    <3>2. /\ disk[a].state \in Known => records[a].state = disk[a].state
          /\ disk[a].state # "ABSENT"
      BY <1>1, <2>1 DEF IInv, DiskFollows
    <3>3. CASE disk[a].state \in Terminal
      BY <1>1, <3>1, <3>2, <3>3, RestartRows DEF IInv, Terminal
    <3>4. CASE disk[a].state \notin Terminal
      BY <1>1, <3>1, <3>2, <3>4, RestartRows DEF IInv
    <3> QED
      BY <3>3, <3>4
  <2> QED
    BY <2>3, <2>4
<1> QED
  BY <1>1, Inductive, PTL DEF Spec, OutcomeStands

\* CANCELLING is never taken back within a process.
THEOREM StopsAreNotTakenBack == Spec => StopNotTakenBack
<1> DEFINE A == \A a \in ActionIds : records[a].state = "CANCELLING" =>
                  records'[a].state \in {"CANCELLING", "CANCELLED", "FAILED", "UNKNOWN"}
                    \/ boot' # boot
<1>1. ASSUME IInv, [Next]_vars PROVE A
  <2>1. SUFFICES ASSUME NEW a \in ActionIds, records[a].state = "CANCELLING", boot' = boot
                 PROVE  records'[a].state \in {"CANCELLING", "CANCELLED", "FAILED", "UNKNOWN"}
    OBVIOUS
  <2>2. known(a) /\ stopSignal
    BY <1>1, <2>1 DEF IInv, Signalled, known
  <2> QED
    BY <1>1, <2>1, <2>2, RecordStep
<1> QED
  BY <1>1, Inductive, PTL DEF Spec, StopNotTakenBack

\* Only a new process reopens a node that lost track of its backend.
THEOREM UnknownStays == Spec => UnknownIsFinal
<1> USE DEF life, gate, grants, work, ledger
<1> DEFINE A == admission = "UNKNOWN" /\ admission' # "UNKNOWN" => boot' # boot
<1>1. ASSUME IInv, [Next]_vars PROVE A
  <2>1. SUFFICES ASSUME admission = "UNKNOWN", boot' = boot PROVE admission' = "UNKNOWN"
    OBVIOUS
  <2>2. ASSUME NEW a \in ActionIds, Ends(a) PROVE admission' = "UNKNOWN"
    BY <1>1, <2>1, <2>2, EndsEffect DEF IInv
  <2>3. ASSUME NEW kind, Fence(kind) PROVE admission' = "UNKNOWN"
    BY <2>1, <2>3 DEF Fence, HeldAdmission, _finish_cancel
  <2>4. ~Restart
    BY <1>1, <2>1 DEF Restart, IInv, TypeOK
  <2>5. ~AllowActions
    BY <2>1 DEF AllowActions
  <2>6. ASSUME CloseActive PROVE admission' = "UNKNOWN"
    BY <2>1, <2>3, <2>6 DEF CloseActive
  <2>7. ASSUME Hold \/ \E target \in ActionIds \cup {None} : Cancel(target)
        PROVE  admission' = "UNKNOWN"
    BY <2>3, <2>7 DEF Hold, Cancel
  <2> QED
    BY <1>1, <2>1, <2>2, <2>4, <2>5, <2>6, <2>7
       DEF Next, Resume, Ends, vars, GrantLease, ExpireLease, Submit, JournalWrite,
           IntentAdmitted, StartHandler, Progress, Progress_after_stop, BackendMoves,
           FinalSaved, SaveLost, CloseStep
<1> QED
  BY <1>1, Inductive, PTL DEF Spec, UnknownIsFinal

\* Nothing the node has reported is taken back: the three facts above together,
\* as the run executor_robot checks them.
THEOREM NothingIsTakenBack == Spec => NothingTakenBack
  BY OutcomesStand, StopsAreNotTakenBack, UnknownStays DEF NothingTakenBack
===============================================================================
