-------------------------- MODULE ExecutorInvariant ---------------------------
(***************************************************************************)
(* The inductive invariant behind the safety properties of ActionExecutor. *)
(* None of the properties is inductive alone: that a stop is true needs    *)
(* that no failed save can reach the node under a running handler, which   *)
(* needs the order of the journal, which needs who owns the node.          *)
(***************************************************************************)
EXTENDS ActionExecutor

Pending == {"ACCEPTED", "RUNNING", "CANCELLING"}
Waiting == {"intent", "running", "final"}

\* A coroutine exists for known actions only, and an action is unfinished just
\* as long as its coroutine owns the node.
Ownership ==
  /\ OneOwner
  /\ \A a \in ActionIds : /\ pc[a] # "idle" => known(a)
                          /\ pc[a] \in Owning <=> records[a].state \in Pending

\* The coroutines that wait for the journal are those with a write in it; there
\* are at most two, and then the older one is on its last save.
QueueShape ==
  /\ Len(journal) <= 2
  /\ \A a \in ActionIds :
       pc[a] \in Waiting <=> \E i \in DOMAIN journal : journal[i].action = a
  /\ Len(journal) = 2 => /\ pc[journal[1].action] = "final"
                         /\ pc[journal[2].action] = "intent"
  /\ \A a \in ActionIds : pc[a] = "handler" => journal = <<>>

\* What the writes say, and what those carried out have left on disk.
QueueContents ==
  \A i \in DOMAIN journal :
    LET a == journal[i].action IN
      /\ journal[i].result = "ok" => disk[a] = journal[i].record
      /\ journal[i].result # "ok" => disk[a].state \notin Known
      /\ pc[a] = "running" => journal[i].record.state = "RUNNING"
      /\ pc[a] = "final" => journal[i].record = records[a]
      /\ pc[a] = "intent" => journal[i].record.state = "ACCEPTED"

\* A node that lost track of its backend is not running it.
Tracked ==
  /\ StopIsTrue
  /\ \A a \in ActionIds : pc[a] \in {"running", "handler"} => admission # "UNKNOWN"

\* An action with an effect is known here and on disk, and is past its start.
Effects ==
  /\ AtMostOnce
  /\ \A a \in ActionIds : runs[a] > 0 =>
       /\ known(a) /\ disk[a].state # "ABSENT"
       /\ pc[a] \notin {"intent", "running"}

\* Unless the node is UNKNOWN, it knows how every past effect ended.
Accounted ==
  admission # "UNKNOWN" =>
    \A a \in ActionIds :
      /\ records[a].state # "UNKNOWN"
      /\ runs[a] > 0 /\ active # a => records[a].state \in Known

\* How far the disk may be behind the records: it lags, but it never holds an
\* outcome or an action that the records do not.
DiskFollows ==
  /\ \A a \in ActionIds :
       admission # "UNKNOWN" /\ pc[a] \in {"idle", "done"} => disk[a] = records[a]
  /\ \A a \in ActionIds : pc[a] = "running" => disk[a].state = "ACCEPTED"
                                               \/ disk[a].state = "RUNNING"
  /\ \A a \in ActionIds : pc[a] = "handler" => disk[a].state = "RUNNING"
  /\ \A a \in ActionIds :
       /\ disk[a].state \in Known => records[a].state = disk[a].state
       /\ disk[a].state # "ABSENT" => known(a)
       /\ records[a].state \in Known => disk[a].state # "ABSENT"

\* A request was built from an issued context.  Between the second fence check
\* and the handler nothing but a control, which raises the epoch, takes its
\* authority away.
Authority ==
  \A a \in ActionIds :
    LET c == contexts[records[a].lease] IN
      /\ pc[a] \in {"intent", "running"} => c # None
      /\ pc[a] = "running" => c.boot = boot /\ c.version = version

\* The stop_signal of an action that is CANCELLING is set.
Signalled ==
  \A a \in ActionIds : records[a].state = "CANCELLING" => stopSignal

\* A STOPPED receipt no later allow_actions has overruled: the robot is idle,
\* and no action can be admitted.
Receipts ==
  RobotControls =>
    \A i \in DOMAIN controls :
      /\ controls[i].phase = "STOPPED"
      /\ \A j \in DOMAIN controls : j > i => controls[j].kind # "allow_actions"
      => active = None /\ admission # "OPEN"

\* All of these together are preserved by every step.
IInv ==
  /\ TypeOK
  /\ Ownership
  /\ QueueShape
  /\ QueueContents
  /\ Tracked
  /\ Effects
  /\ Accounted
  /\ DiskFollows
  /\ Authority
  /\ Signalled
  /\ Receipts
===============================================================================
