----------------------------- MODULE SystemClient -----------------------------
(***************************************************************************)
(* A client of the nodes (system.py, class System; sync.py runs the same   *)
(* coroutines for scripts). It binds each role to one node for good, keeps *)
(* the connection of that node for the stop paths, and sends an action to  *)
(* the node that owns the skill after reading its catalogue and context.   *)
(*                                                                         *)
(* One role and one action() at a time: what they share with other calls   *)
(* is the registry, and the role with a _resolve() that waits.             *)
(***************************************************************************)
EXTENDS NodeDirectory

CONSTANTS Playing  \* the processes of the role's node type

VARIABLES
  role,      \* roles[role], the node bound to it
  bound,     \* _bound_buses[role]
  waiting,   \* a _resolve() in wait_for: the name it waits for, None for any
  call       \* action(), or allow_actions() or set_robot_mode() with the skill None,
             \* between its awaits, and what it sends

client == <<role, bound, waiting, call>>
vars == <<dirVars, client>>

NoCall == [at |-> "none"]
Calls == [at : {"features", "context", "sent"}, name : Names, proc : Procs,
          skill : Skills \cup {None}]

TypeOK ==
  /\ DirTypeOK
  /\ role \in Names \cup {None} /\ bound \in Targets \cup {None}
  /\ waiting \in [on : {FALSE}] \cup [on : {TRUE}, name : Names \cup {None}]
  /\ call \in Calls \cup {NoCall}

Init ==
  /\ DirInit
  /\ role = None /\ bound = None /\ waiting = [on |-> FALSE]
  /\ call = NoCall

-------------------------------------------------------------------------------
(* Roles.                                                                  *)

\* node_for_role: the only described and routed node of the type.
Candidates == {n \in Names : Described(n) /\ ~Overflow /\ Sole(n) \in Playing /\ ~Conflicted(n)}
ForRole(n) == Candidates = {n} /\ Routed(n)

\* The round of the refresh() that precedes has ended.
RoundOver == \A n \in Names : asking[n] = None

\* nodes(): binds a role that has one candidate, and refreshes the connections.
Nodes ==
  /\ RoundOver
  /\ IF role # None THEN UNCHANGED role
     ELSE \E n \in Names : ForRole(n) /\ role' = n
  /\ bound' = IF role' # None /\ buses[role'] # None THEN buses[role'] ELSE bound
  /\ UNCHANGED <<dirVars, waiting, call>>

\* _role: binds once; a node that is known to be of another type is refused.
Plays(n) == entries[n] # None /\ entries[n].ok => entries[n].proc \in Playing \cup {None}
Role(n) == IF role # None THEN n = role /\ Plays(n) ELSE ForRole(n)

\* _resolve: the node of the role answers at once ...
Resolve ==
  /\ ~waiting.on
  /\ \E n \in Names : Role(n) /\ role' = n /\ Routed(n) /\ bound' = buses[n]
  /\ UNCHANGED <<dirVars, waiting, call>>

\* ... or the call waits for discovery, two seconds at most.
ResolveWaits ==
  /\ ~waiting.on
  /\ ~\E n \in Names : Role(n) /\ Routed(n)
  /\ waiting' = [on |-> TRUE, name |-> role]
  /\ UNCHANGED <<dirVars, role, bound, call>>

\* wait_for: the node it was asked for, or any that plays the role by then.
Found(n) == /\ IF waiting.name # None THEN n = waiting.name ELSE ForRole(n)
            /\ Routed(n) /\ Sole(n) \in Playing
ResolveFound ==
  /\ waiting.on /\ RoundOver
  /\ \E n \in Names : Found(n) /\ role' = n /\ bound' = buses[n]
  /\ waiting' = [on |-> FALSE]
  /\ UNCHANGED <<dirVars, call>>
ResolveTimeout ==
  /\ waiting.on /\ waiting' = [on |-> FALSE]
  /\ UNCHANGED <<dirVars, role, bound, call>>

\* _bound: what a stop is sent on, whatever discovery says now.
Bound ==
  /\ role # None /\ buses[role] # None
  /\ bound' = buses[role]
  /\ UNCHANGED <<dirVars, role, waiting, call>>

-------------------------------------------------------------------------------
(* action(), allow_actions() and set_robot_mode().                         *)

\* node_for(skill), then the request for the catalogue. A catalogue that is
\* cached for this boot and revision skips the request, not the next one.
Action(s) ==
  /\ call.at = "none"
  /\ owners[s] \in Names
  /\ LET n == owners[s] IN
     /\ Routed(n) /\ s \in SkillsOf[Sole(n)]
     /\ \E at \in {"features", "context"} :
          call' = [at |-> at, name |-> n, proc |-> Sole(n), skill |-> s]
  /\ UNCHANGED <<dirVars, role, bound, waiting>>

\* allow_actions, set_robot_mode: of the robot, or of a node that was named;
\* then the request for its snapshot.
Control(n) ==
  /\ call.at = "none" /\ Routed(n) /\ Sole(n) \in Acting
  /\ call' = [at |-> "context", name |-> n, proc |-> Sole(n), skill |-> None]
  /\ UNCHANGED <<dirVars, role, bound, waiting>>

\* The answer is of the live instance of the node; that of an action is of the
\* instance that was asked first.
\* Fault: the answer is trusted.
Answers_unchecked(q) == TRUE
Answers(q) == NameOf[q] = call.name /\ Current(q) /\ (call.skill # None => q = call.proc)

\* Any process at the target of the connection may answer.
Responds(q) == q \in Acting /\ buses[call.name] # None /\ TargetOf[q] = buses[call.name]

Featured(q) ==
  /\ call.at = "features" /\ Responds(q)
  /\ call' = IF Answers(q) THEN [call EXCEPT !.at = "context"] ELSE NoCall
  /\ UNCHANGED <<dirVars, role, bound, waiting>>

\* What is sent carries the boot id of the answer: it is for q alone.
Submitted(q) ==
  /\ call.at = "context" /\ Responds(q)
  /\ call' = IF Answers(q) THEN [call EXCEPT !.at = "sent", !.proc = q] ELSE NoCall
  /\ UNCHANGED <<dirVars, role, bound, waiting>>

CallEnds ==
  /\ call.at # "none" /\ call' = NoCall
  /\ UNCHANGED <<dirVars, role, bound, waiting>>

ClientNext ==
  \/ Nodes \/ Resolve \/ ResolveWaits \/ ResolveFound \/ ResolveTimeout \/ Bound
  \/ \E s \in Skills : Action(s)
  \/ \E n \in Names : Control(n)
  \/ \E q \in Procs : Featured(q) \/ Submitted(q)
  \/ CallEnds

Next ==
  \/ DirNext /\ UNCHANGED client
  \/ ClientNext

Spec == Init /\ [][Next]_vars

-------------------------------------------------------------------------------
(* Properties.                                                             *)

\* A name is routed to the target of its one live instance, which described
\* itself, and an action node shares that target with no other action node in
\* the view: the services at a target do not say which node they belong to.
RoutedToCurrent ==
  \A n \in Names : Routed(n) =>
    LET p == Sole(n) IN
    /\ buses[n] = TargetOf[p] /\ known[n] = p
    /\ p \in Acting =>
         \A m \in Names \ {n} : \A q \in live[m] :
           TargetOf[q] = TargetOf[p] => q \notin Acting

\* A skill is never taken over: the node that was first seen to provide it
\* keeps it, or it becomes ambiguous, whoever comes and goes.
NeverTakenOver ==
  [][\A s \in Skills : owners[s] # None => owners'[s] \in {owners[s], Many}]_vars

\* An action is submitted to an instance that provides the skill, at its own
\* target, and, like allow_actions and set_robot_mode, only when it is the one
\* live instance of the node in the view; nothing of the node before a restart
\* is used (system.py).
SentToProvider ==
  [][call'.at = "sent" /\ call.at # "sent" =>
       LET p == call'.proc IN
       /\ call'.skill # None => call'.skill \in SkillsOf[p]
       /\ buses[call'.name] = TargetOf[p] /\ NameOf[p] = call'.name
       /\ Sole(call'.name) = p /\ ~Overflow]_vars

\* "Bind once: a disappearing peer must not silently select another device."
\* (system.py:54)
KeepsItsPeer == [][role # None => role' = role]_vars
===============================================================================
