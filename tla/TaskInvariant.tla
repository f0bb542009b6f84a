----------------------------- MODULE TaskInvariant -----------------------------
(* The inductive invariant of TaskExecution, in named parts.               *)
EXTENDS TaskExecution

Running == {"RUNNING", "CANCELLING"}
Submits == {m \in wire : m.kind = "submit"}

\* The node is beyond the authority e: it was restarted or fenced since, and what
\* was sent under e is refused.
Past(n, e) == boot[n] > e.boot \/ (boot[n] = e.boot /\ epoch[n] > e.epoch)
Reached(n, e) == Past(n, e) \/ SameAuthority(n, e.boot, e.epoch)

\* Of two authorities of one node, d is the later one.
NotBefore(d, e) == d.boot > e.boot \/ (d.boot = e.boot /\ d.epoch >= e.epoch)

\* The attempt of s has been sent, or is given up.
Tried(s, att) ==
  \/ att = job[s].attempt /\ job[s].pc \notin {"waiting", "context"}
  \/ att = "first" /\ job[s].attempt # "first"
  \/ att = "observe" /\ job[s].attempt = "retry"

-------------------------------------------------------------------------------
\* What is under way on a node is what owns it.
Owners ==
  /\ \A n \in Nodes : active[n] # None =>
       Home[active[n]] = n /\ status[active[n]] \in Running
  /\ \A a \in Actions : status[a] \in Running => active[Home[a]] = a

\* The task acts under authorities its nodes had.
Captured ==
  /\ \A n \in Nodes : authority[n] # None => Reached(n, authority[n])
  /\ executing = "steps" => \A n \in Nodes : authority[n] # None
  /\ \A s \in Steps : job[s].pc # "waiting" =>
       executing # "preflight" /\ \A n \in Nodes : authority[n] # None

\* A step goes as planned: its dependencies have succeeded; an outcome is written
\* once; the recovery's steps belong to the one step that recovers.
DependsOn(s) == \A i \in DOMAIN plan[s] : Succeeded(plan[s][i])
Jobs ==
  \A s \in Steps :
    /\ job[s].pc \notin {"waiting", "done"} => DependsOn(s)
    /\ outcome[s] # "none" <=> job[s].pc \in {"fence", "hold", "done"}
    /\ job[s].pc \in {"fence", "hold"} => outcome[s] = "UNKNOWN"
    /\ job[s].pc \in {"waiting", "recover"} => job[s].attempt = "first"
    /\ job[s].pc = "again" => job[s].attempt = "observe"

\* A call is its caller's, and nobody else's; once answered it is off the wire.
Calls ==
  /\ \A x \in Steps \cup Nodes : call[x] # None /\ call[x].answer # "none" =>
       call[x].msg \notin wire
  /\ \A s \in Steps :
       /\ call[s] # None <=> job[s].pc \in {"submit", "hold"}
       /\ call[s] # None =>
            call[s].msg.from = s /\ call[s].msg.node = NodeOf[s]
            /\ call[s].msg.kind = job[s].pc
       /\ job[s].pc = "submit" => call[s].msg.action = Id(s)
  /\ \A n \in Nodes :
       /\ call[n] # None <=> side[n].pc \in {"hold", "allow"}
       /\ call[n] # None =>
            call[n].msg.from = n /\ call[n].msg.node = n /\ call[n].msg.kind = side[n].pc

\* A submission carries the authority of the preflight, and is the only one of its
\* action; once answered it is gone.
Submissions ==
  /\ \A m \in Submits :
       /\ m.from \in Steps /\ m.node = NodeOf[m.from]
       /\ \E att \in Attempts : m.action = <<m.from, att>> /\ Tried(m.from, att)
       /\ authority[m.node] = [boot |-> m.boot, epoch |-> m.epoch]
       /\ DependsOn(m.from)
       /\ status[m.action] = "absent"
  /\ \A m, k \in Submits : m.action = k.action => m = k
  /\ \A s \in Steps, att \in Attempts : status[<<s, att>>] # "absent" => Tried(s, att)
  /\ \A s \in Steps : job[s].pc = "submit" /\ call[s].answer # "none" =>
       /\ \A m \in Submits : m.action # Id(s)
       /\ call[s].answer = "refused" => status[Id(s)] = "absent"

\* A fence is asked of a state the task has seen, and once answered it stands.
Fences ==
  /\ \A m \in wire : m.kind # "submit" =>
       authority[m.node] # None /\ NotBefore(m, authority[m.node])
  /\ \A x \in Steps \cup Nodes : call[x] # None /\ call[x].msg.kind = "hold" =>
       /\ authority[call[x].msg.node] # None
       /\ NotBefore(call[x].msg, authority[call[x].msg.node])
       /\ Reached(call[x].msg.node, call[x].msg)
       /\ call[x].answer \in {"accepted", "unknown"} => Past(call[x].msg.node, call[x].msg)

-------------------------------------------------------------------------------
\* While the task runs, what is under way is a step's whose job waits for it, or
\* whose outcome is UNKNOWN.
Accounted ==
  Active =>
    /\ \A m \in Submits :
         \/ job[m.from].pc = "submit" /\ call[m.from].msg = m
         \/ outcome[m.from] = "UNKNOWN"
    /\ \A s \in Steps, att \in Attempts : status[<<s, att>>] \in Running =>
         \/ att = job[s].attempt /\ job[s].pc \in {"submit", "poll"}
         \/ outcome[s] = "UNKNOWN"

\* _finish_cancel goes from fenced nodes to stopped ones, and the task is not
\* running.
Cancelled ==
  /\ \A n \in Nodes :
       /\ side[n].pc \in {"fenced", "stopped", "allow", "done"} =>
            authority[n] # None /\ Past(n, authority[n])
       /\ side[n].pc \in {"stopped", "allow", "done"} => active[n] = None
  /\ finish # "none" => state = "CANCELLING"
  /\ finish = "none" => AllAt({"fence", "done"})
  /\ finish = "fence" => AllAt({"fence", "hold", "fenced", "failed"})
  /\ finish = "wait" => AllAt({"fenced", "stopped"})
  /\ finish = "release" => AllAt({"stopped", "allow", "done"})
  /\ finish \in {"wait", "release"} => Submitting = {}

\* The last action of s bears out the result r.
Last(s) == IF status[<<s, "retry">>] # "absent" THEN status[<<s, "retry">>]
           ELSE status[<<s, "first">>]
BorneOut(s, r) ==
  /\ r = "SUCCEEDED" => Last(s) \in {"SUCCEEDED", "UNKNOWN"}
  /\ Last(s) = "SUCCEEDED" => r = "SUCCEEDED"

\* Every action that may have begun is in task.actions, or is being submitted, and
\* nothing else is there; a success is of an action that is there.
OnRecord(s, att) ==
  \/ <<s, att>> \in actions
  \/ att = "first" /\ <<s, "retry">> \in actions
  \/ att = job[s].attempt /\ job[s].pc = "submit"
Recording ==
  /\ \A s \in Steps, att \in Attempts : <<s, att>> \in actions => Tried(s, att)
  /\ \A s \in Steps, att \in Attempts : status[<<s, att>>] # "absent" => OnRecord(s, att)
  /\ \A m \in Submits, att \in Attempts : m.action = <<m.from, att>> => OnRecord(m.from, att)
  /\ \A s \in Steps :
       /\ job[s].pc = "poll" => Id(s) \in actions
       /\ "SUCCEEDED" \in {outcome[s], results[s]} =>
            <<s, "first">> \in actions \/ <<s, "retry">> \in actions

\* A repeated step has failed first.
Failures ==
  \A s \in Steps : job[s].pc = "recover" \/ job[s].attempt # "first" =>
    status[<<s, "first">>] \in {"FAILED", "UNKNOWN"}

Reports ==
  /\ Active =>
       \A s \in Steps : job[s].pc = "done" =>
         /\ results[s] = outcome[s]
         /\ outcome[s] # "UNKNOWN" => BorneOut(s, outcome[s])
  /\ finish = "release" => \A s \in Steps : BorneOut(s, tally[s])
  /\ state \in Settled =>
       /\ \A s \in Steps : BorneOut(s, results[s])
       /\ \A a \in Actions : status[a] \notin Running
       /\ \A m \in Submits : Past(m.node, m)

-------------------------------------------------------------------------------
\* The node has lost track, or has left the authority of the task.
Blind(n) == admission[n] = "UNKNOWN" \/ Past(n, authority[n])

\* One step recovers, on the node that observes, while it holds its lock; it has
\* failed, and before it is repeated it has observed.
Recovery ==
  /\ \A s, r \in Steps : NodeOf[s] = NodeOf[r] /\ HoldsLock(s) /\ HoldsLock(r) => s = r
  /\ \A s, r \in Steps : job[s].attempt # "first" /\ job[r].attempt # "first" => s = r
  /\ \A s \in Steps :
       /\ job[s].attempt # "first" => recovered
       /\ job[s].pc = "recover" => ~recovered /\ s \in Recoverable
       /\ job[s].pc = "recover" \/ job[s].attempt # "first" =>
            status[<<s, "first">>] = "FAILED" \/ Blind(NodeOf[s])
       /\ job[s].pc = "again" \/ job[s].attempt = "retry" =>
            status[<<s, "observe">>] = "SUCCEEDED" \/ Blind(NodeOf[s])

\* If the node has not moved since the fence of the task's own authority, the task
\* has closed it, or the node has lost track.
OwnFence(n) ==
  /\ n \in Robots /\ authority[n] # None /\ Past(n, authority[n])
  /\ SameAuthority(n, authority[n].boot, authority[n].epoch + 1) =>
       closedBy[n] = "task" \/ admission[n] = "UNKNOWN"
Releasing ==
  /\ \A x \in Steps \cup Nodes : call[x] # None /\ call[x].msg.kind = "hold" =>
       LET n == call[x].msg.node IN
       /\ /\ n \in Robots /\ call[x].open /\ call[x].answer = "none"
          /\ SameAuthority(n, call[x].msg.boot, call[x].msg.epoch)
          => admission[n] \in {"OPEN", "UNKNOWN"}
       /\ call[x].answer \in {"accepted", "unknown"} /\ Releases(call[x]) => OwnFence(n)
  /\ \A n \in Nodes : released[n] # None =>
       OwnFence(n) /\ released[n] = authority[n].epoch + 1
  /\ \A m \in wire : m.kind = "allow" =>
       /\ released[m.node] = m.epoch
       /\ m.boot = authority[m.node].boot

-------------------------------------------------------------------------------
\* All of it: what holds between any two steps of a task, its nodes and the wire.
TaskInv ==
  /\ TypeOK /\ Owners /\ Captured /\ Jobs /\ Calls /\ Submissions /\ Fences
  /\ Accounted /\ Cancelled /\ Recording /\ Failures /\ Reports /\ Recovery /\ Releasing
===============================================================================
