---------------------------- MODULE Registry_proofs ----------------------------
(* Proofs about the registry and its client, for any number of processes,  *)
(* names, addresses, targets and skills: the view is true, a name leads to *)
(* its one live instance, and what is sent reaches an instance that        *)
(* provides it, whatever the view does between the awaits.                 *)
EXTENDS Registry, FiniteSetTheorems, TLAPS

(***************************************************************************)
(* The client.                                                             *)
(***************************************************************************)

\* The view keeps processes under their names, and a request for a descriptor
\* is for an instance of the name.
OwnNames ==
  /\ \A n \in Names : live[n] # Many => \A p \in live[n] : NameOf[p] = n
  /\ \A n \in Names : asking[n] # None => NameOf[asking[n]] = n

\* A description, its connection and the instance that is known go together.
DescriptionOf(n) ==
  LET p == entries[n].proc IN
  entries[n] # None /\ entries[n].ok /\ p # None =>
    NameOf[p] = n /\ buses[n] = TargetOf[p] /\ known[n] = p
Descriptions == \A n \in Names : DescriptionOf(n)

\* A call under way was made for a skill of the instance it is for.
CallIsProvided ==
  call.at \in {"features", "context"} /\ call.skill # None =>
    call.skill \in SkillsOf[call.proc]

ClientInv == TypeOK /\ OwnNames /\ Descriptions /\ CallIsProvided

-------------------------------------------------------------------------------
(* The only live instance.                                                 *)

\* It is what the view lists, and nothing else is.
LEMMA SoleIsLive ==
  ASSUME DirTypeOK, NEW n \in Names, Sole(n) # None
  PROVE  live[n] # Many /\ live[n] = {Sole(n)} /\ Sole(n) \in Procs
<1>1. live[n] # Many /\ Cardinality(live[n]) = 1 /\ live[n] \subseteq Procs
  BY DEF Sole, DirTypeOK
<1>2. IsFiniteSet(live[n])
  BY <1>1, PlacesAssumption, FS_Subset
<1>3. PICK p : live[n] = {p}
  BY <1>1, <1>2, FS_Singleton
<1>4. Sole(n) = CHOOSE q \in live[n] : TRUE
  BY <1>1 DEF Sole
<1> QED
  BY <1>1, <1>3, <1>4

-------------------------------------------------------------------------------
(* The steps.                                                              *)

LEMMA DirectoryStep ==
  ASSUME ClientInv, DirNext, UNCHANGED client
  PROVE  ClientInv'
<1> USE DEF ClientInv
<1>1. (/\ role \in Names \cup {None} /\ bound \in Targets \cup {None}
       /\ waiting \in [on : {FALSE}] \cup [on : {TRUE}, name : Names \cup {None}]
       /\ call \in Calls \cup {NoCall})'
  BY DEF TypeOK, client
<1>2. CallIsProvided'
  BY DEF CallIsProvided, client
<1>3. DirTypeOK
  BY DEF TypeOK
<1>4. CASE ViewChanges
  <2>1. /\ live' \in [Names -> (SUBSET Procs) \cup {Many}]
        /\ \A n \in Names : live'[n] # Many => \A p \in live'[n] : NameOf[p] = n
    BY <1>4 DEF ViewChanges
  <2>2. UNCHANGED <<asking, entries, known, buses, owners>>
    BY <1>4 DEF ViewChanges, directory
  <2>3. DirTypeOK'
    BY <1>3, <2>1, <2>2 DEF DirTypeOK
  <2>4. OwnNames'
    BY <2>1, <2>2 DEF OwnNames
  <2>5. Descriptions'
    BY <2>2 DEF Descriptions, DescriptionOf
  <2> QED
    BY <1>1, <1>2, <2>3, <2>4, <2>5 DEF TypeOK
<1>5. CASE Round
  <2>1. PICK admit \in SUBSET Names, gone \in SUBSET Names :
          /\ entries' = [n \in Names |->
               IF n \in admit THEN [proc |-> None, ok |-> TRUE]
               ELSE IF n \in gone THEN None ELSE entries[n]]
          /\ known' = Forget(known, gone) /\ buses' = Forget(buses, gone)
          /\ asking' = [n \in Names |-> IF entries'[n] # None /\ ~Overflow THEN Sole(n)
                                        ELSE None]
    <3> DEFINE held == {n \in Names : entries[n] # None}
               wanted == {n \in Names : live[n] # {}} \ held
               left == {n \in held : live[n] = {}}
    <3>1. wanted \subseteq Names /\ left \subseteq Names
      OBVIOUS
    <3>2. \E admit \in SUBSET wanted, gone \in SUBSET left :
          /\ entries' = [n \in Names |->
               IF n \in admit THEN [proc |-> None, ok |-> TRUE]
               ELSE IF n \in gone THEN None ELSE entries[n]]
          /\ known' = Forget(known, gone) /\ buses' = Forget(buses, gone)
          /\ asking' = [n \in Names |-> IF entries'[n] # None /\ ~Overflow THEN Sole(n)
                                        ELSE None]
      BY <1>5 DEF Round
    <3> HIDE DEF wanted, left
    <3> QED
      BY <3>1, <3>2
  <2>2. UNCHANGED <<live, owners>>
    BY <1>5 DEF Round
  <2>3. \A n \in Names : asking'[n] # None => asking'[n] = Sole(n)
    BY <2>1
  <2>4. \A n \in Names : Sole(n) # None => Sole(n) \in Procs /\ NameOf[Sole(n)] = n
    BY <1>3, SoleIsLive DEF OwnNames
  <2>5. DirTypeOK'
    <3>1. entries' \in [Names -> [proc : Procs \cup {None}, ok : BOOLEAN] \cup {None}]
      BY <1>3, <2>1 DEF DirTypeOK
    <3>2. /\ known' \in [Names -> Procs \cup {None}]
          /\ buses' \in [Names -> Targets \cup {None}]
      BY <1>3, <2>1 DEF DirTypeOK, Forget
    <3>3. asking' \in [Names -> Procs \cup {None}]
      BY <2>1, <2>4
    <3> QED
      BY <1>3, <2>2, <3>1, <3>2, <3>3 DEF DirTypeOK
  <2>6. OwnNames'
    BY <2>2, <2>3, <2>4 DEF OwnNames
  <2>7. Descriptions'
    <3> SUFFICES ASSUME NEW n \in Names PROVE DescriptionOf(n)'
      BY DEF Descriptions
    <3>1. CASE n \in admit
      BY <2>1, <3>1 DEF DescriptionOf
    <3>2. CASE n \notin admit /\ n \in gone
      BY <2>1, <3>2 DEF DescriptionOf
    <3>3. CASE n \notin admit /\ n \notin gone
      <4>1. entries'[n] = entries[n] /\ known'[n] = known[n] /\ buses'[n] = buses[n]
        BY <2>1, <3>3 DEF Forget
      <4> QED
        BY <4>1 DEF Descriptions, DescriptionOf
    <3> QED
      BY <3>1, <3>2, <3>3
  <2> QED
    BY <1>1, <1>2, <2>5, <2>6, <2>7 DEF TypeOK
<1>6. ASSUME NEW n \in Names, Describe(n) PROVE ClientInv'
  <2> DEFINE p == asking[n]
             ok == StillSole(p)
  <2>1. /\ p \in Procs /\ NameOf[p] = n
        /\ entries' = [entries EXCEPT ![n] = [proc |-> p, ok |-> ok]]
        /\ asking' = [asking EXCEPT ![n] = None] /\ UNCHANGED live
    BY <1>3, <1>6 DEF Describe, DirTypeOK, OwnNames
  <2>2. IF ~ok THEN UNCHANGED <<known, buses, owners>>
        ELSE /\ known' = [known EXCEPT ![n] = p]
             /\ buses' = [buses EXCEPT ![n] = TargetOf[p]]
             /\ owners' = IF p \in Acting THEN Owners(p) ELSE owners
    BY <1>6 DEF Describe
  <2>3. ok \in BOOLEAN
    BY DEF StillSole
  <2>4. Owners(p) \in [Skills -> Names \cup {None, Many}]
    BY <1>3, <2>1 DEF Owners, DirTypeOK
  <2> HIDE DEF ok
  <2>5. DirTypeOK'
    <3>1. entries' \in [Names -> [proc : Procs \cup {None}, ok : BOOLEAN] \cup {None}]
      BY <1>3, <2>1, <2>3 DEF DirTypeOK
    <3>2. /\ known' \in [Names -> Procs \cup {None}]
          /\ buses' \in [Names -> Targets \cup {None}]
          /\ owners' \in [Skills -> Names \cup {None, Many}]
      BY <1>3, <2>1, <2>2, <2>4, PlacesAssumption DEF DirTypeOK
    <3>3. asking' \in [Names -> Procs \cup {None}]
      BY <1>3, <2>1 DEF DirTypeOK
    <3> QED
      BY <1>3, <2>1, <3>1, <3>2, <3>3 DEF DirTypeOK
  <2>6. OwnNames'
    BY <1>3, <2>1 DEF OwnNames, DirTypeOK
  <2>7. Descriptions'
    <3> SUFFICES ASSUME NEW m \in Names PROVE DescriptionOf(m)'
      BY DEF Descriptions
    <3>1. CASE m = n
      <4>1. entries'[m] = [proc |-> p, ok |-> ok]
        BY <1>3, <2>1, <3>1 DEF DirTypeOK
      <4>2. ok => buses'[m] = TargetOf[p] /\ known'[m] = p
        BY <1>3, <2>2, <3>1 DEF DirTypeOK
      <4> QED
        BY <2>1, <3>1, <4>1, <4>2 DEF DescriptionOf
    <3>2. CASE m # n
      <4>1. entries'[m] = entries[m] /\ buses'[m] = buses[m] /\ known'[m] = known[m]
        BY <1>3, <2>1, <2>2, <3>2 DEF DirTypeOK
      <4> QED
        BY <4>1 DEF Descriptions, DescriptionOf
    <3> QED
      BY <3>1, <3>2
  <2> QED
    BY <1>1, <1>2, <2>5, <2>6, <2>7 DEF TypeOK
<1>7. ASSUME NEW n \in Names, DescribeFails(n) PROVE ClientInv'
  <2>1. /\ asking[n] \in Procs /\ UNCHANGED <<live, known, buses, owners>>
        /\ entries' = [entries EXCEPT ![n] = [proc |-> asking[n], ok |-> FALSE]]
        /\ asking' = [asking EXCEPT ![n] = None]
    BY <1>3, <1>7 DEF DescribeFails, DirTypeOK
  <2>2. DirTypeOK'
    BY <1>3, <2>1 DEF DirTypeOK
  <2>3. OwnNames'
    BY <1>3, <2>1 DEF OwnNames, DirTypeOK
  <2>4. Descriptions'
    BY <1>3, <2>1 DEF Descriptions, DescriptionOf, DirTypeOK
  <2> QED
    BY <1>1, <1>2, <2>2, <2>3, <2>4 DEF TypeOK
<1> QED
  BY <1>4, <1>5, <1>6, <1>7 DEF DirNext

\* A routed name has one live instance.
LEMMA RoutedIsLive ==
  ASSUME DirTypeOK, NEW n \in Names, Routed(n)
  PROVE  Sole(n) \in Procs
BY SoleIsLive DEF Routed

LEMMA ClientStep ==
  ASSUME ClientInv, ClientNext
  PROVE  ClientInv'
<1> USE DEF ClientInv
<1>1. DirTypeOK
  BY DEF TypeOK
<1>2. ASSUME UNCHANGED dirVars PROVE DirTypeOK' /\ OwnNames' /\ Descriptions'
  BY <1>1, <1>2 DEF dirVars, directory, DirTypeOK, OwnNames, Descriptions, DescriptionOf
<1>3. \A n \in Names : buses[n] \in Targets \cup {None}
  BY <1>1 DEF DirTypeOK
<1> DEFINE Others == [on : {FALSE}] \cup [on : {TRUE}, name : Names \cup {None}]
<1>4. waiting \in Others /\ role \in Names \cup {None}
  BY DEF TypeOK
<1>5. [on |-> FALSE] \in Others
  OBVIOUS
<1>6. \A n \in Names \cup {None} : [on |-> TRUE, name |-> n] \in Others
  OBVIOUS
<1> HIDE DEF Others
<1>7. CASE Nodes \/ Resolve \/ ResolveFound \/ Bound
  <2>1. role' \in Names \cup {None} /\ bound' \in Targets \cup {None}
    BY <1>3, <1>7 DEF Nodes, Resolve, ResolveFound, Bound, TypeOK
  <2>2. UNCHANGED <<dirVars, call>> /\ waiting' \in {waiting, [on |-> FALSE]}
    BY <1>7 DEF Nodes, Resolve, ResolveFound, Bound
  <2>3. waiting' \in Others
    BY <1>4, <1>5, <2>2
  <2> QED
    BY <1>2, <2>1, <2>2, <2>3 DEF TypeOK, CallIsProvided, Others
<1>8. CASE ResolveWaits \/ ResolveTimeout
  <2>1. UNCHANGED <<dirVars, role, bound, call>>
    BY <1>8 DEF ResolveWaits, ResolveTimeout
  <2>2. waiting' \in Others
    BY <1>8, <1>4, <1>5, <1>6 DEF ResolveWaits, ResolveTimeout
  <2> QED
    BY <1>2, <2>1, <2>2 DEF TypeOK, CallIsProvided, Others
<1>9. ASSUME NEW s \in Skills, Action(s) PROVE ClientInv'
  <2> DEFINE n == owners[s]
  <2>1. /\ n \in Names /\ Routed(n) /\ s \in SkillsOf[Sole(n)]
        /\ UNCHANGED <<dirVars, role, bound, waiting>>
    BY <1>9 DEF Action
  <2>2. PICK at \in {"features", "context"} :
          call' = [at |-> at, name |-> n, proc |-> Sole(n), skill |-> s]
    BY <1>9 DEF Action
  <2>3. Sole(n) \in Procs
    BY <1>1, <2>1, RoutedIsLive
  <2> QED
    BY <1>2, <2>1, <2>2, <2>3 DEF TypeOK, CallIsProvided, Calls
<1>10. ASSUME NEW n \in Names, Control(n) PROVE ClientInv'
  <2>1. Sole(n) \in Procs
    BY <1>1, <1>10, RoutedIsLive DEF Control
  <2>2. /\ call' = [at |-> "context", name |-> n, proc |-> Sole(n), skill |-> None]
        /\ UNCHANGED <<dirVars, role, bound, waiting>>
    BY <1>10 DEF Control
  <2>3. call' \in Calls /\ call'.skill = None
    BY <2>1, <2>2 DEF Calls
  <2> QED
    BY <1>2, <2>2, <2>3 DEF TypeOK, CallIsProvided
<1>11. ASSUME NEW q \in Procs, Featured(q) PROVE ClientInv'
  <2>1. /\ call.at = "features" /\ UNCHANGED <<dirVars, role, bound, waiting>>
        /\ call' \in {[call EXCEPT !.at = "context"], NoCall}
    BY <1>11 DEF Featured
  <2>2. call \in Calls
    BY <2>1 DEF TypeOK, NoCall
  <2>3. CASE call' = [call EXCEPT !.at = "context"]
    <3>1. /\ call' \in Calls
          /\ call'.skill = call.skill /\ call'.proc = call.proc
      BY <2>2, <2>3 DEF Calls
    <3> QED
      BY <1>2, <2>1, <3>1 DEF TypeOK, CallIsProvided
  <2>4. CASE call' = NoCall
    BY <1>2, <2>1, <2>4 DEF TypeOK, CallIsProvided, NoCall
  <2> QED
    BY <2>1, <2>3, <2>4
<1>12. ASSUME NEW q \in Procs, Submitted(q) PROVE ClientInv'
  <2>1. /\ call.at = "context" /\ UNCHANGED <<dirVars, role, bound, waiting>>
        /\ call' \in {[call EXCEPT !.at = "sent", !.proc = q], NoCall}
    BY <1>12 DEF Submitted
  <2>2. call \in Calls
    BY <2>1 DEF TypeOK, NoCall
  <2>3. CASE call' = [call EXCEPT !.at = "sent", !.proc = q]
    <3>1. call' \in Calls /\ call'.at = "sent"
      BY <2>2, <2>3 DEF Calls
    <3> QED
      BY <1>2, <2>1, <3>1 DEF TypeOK, CallIsProvided
  <2>4. CASE call' = NoCall
    BY <1>2, <2>1, <2>4 DEF TypeOK, CallIsProvided, NoCall
  <2> QED
    BY <2>1, <2>3, <2>4
<1>13. CASE CallEnds
  BY <1>2, <1>13 DEF CallEnds, TypeOK, CallIsProvided, NoCall
<1> QED
  BY <1>7, <1>8, <1>9, <1>10, <1>11, <1>12, <1>13 DEF ClientNext

-------------------------------------------------------------------------------
(* The theorems.                                                           *)

LEMMA ClientInit == Init => ClientInv
BY PlacesAssumption
DEF Init, DirInit, ClientInv, TypeOK, DirTypeOK, OwnNames, Descriptions, DescriptionOf,
    CallIsProvided, NoCall

LEMMA SystemStep == ClientInv /\ [Next]_vars => ClientInv'
<1> SUFFICES ASSUME ClientInv, [Next]_vars PROVE ClientInv'
  OBVIOUS
<1>1. CASE DirNext /\ UNCHANGED client
  BY <1>1, DirectoryStep
<1>2. CASE ClientNext
  BY <1>2, ClientStep
<1>3. CASE UNCHANGED vars
  BY <1>3
  DEF vars, dirVars, directory, client, ClientInv, TypeOK, DirTypeOK, OwnNames,
      Descriptions, DescriptionOf, CallIsProvided
<1> QED
  BY <1>1, <1>2, <1>3 DEF Next

\* The invariant of every step of the registry and of its client.
THEOREM ClientInvariant == Spec => []ClientInv
BY ClientInit, SystemStep, PTL DEF Spec

\* Every variable has its type.
THEOREM TypeCorrect == Spec => []TypeOK
<1>1. ClientInv => TypeOK
  BY DEF ClientInv
<1> QED
  BY <1>1, ClientInvariant, PTL

\* A name is routed to the target of its one live instance, as it described
\* itself, and no other action node of the view is at that target (registry.py,
\* routes and _endpoint_conflicts).
THEOREM RoutesAreCurrent == Spec => []RoutedToCurrent
<1>1. ClientInv => RoutedToCurrent
  <2> SUFFICES ASSUME ClientInv, NEW n \in Names, Routed(n)
               PROVE  LET p == Sole(n) IN
                      /\ buses[n] = TargetOf[p] /\ known[n] = p
                      /\ p \in Acting =>
                           \A m \in Names \ {n} : \A q \in live[m] :
                             TargetOf[q] = TargetOf[p] => q \notin Acting
    BY DEF RoutedToCurrent
  <2> DEFINE p == Sole(n)
  <2>1. DirTypeOK
    BY DEF ClientInv, TypeOK
  <2>2. Described(n) /\ Current(p) /\ live[n] = {p} /\ p \in Procs /\ p # None
    BY <2>1, SoleIsLive DEF Routed
  <2>3. NameOf[p] = n
    BY <2>1, <2>2, SoleIsLive DEF ClientInv, OwnNames, Routed
  <2>4. buses[n] = TargetOf[p] /\ known[n] = p
    BY <2>2 DEF ClientInv, Descriptions, DescriptionOf, Described
  <2>5. ~Overflow /\ ~Conflicted(n)
    BY <2>2, <2>3 DEF Current
  <2>6. ASSUME p \in Acting, NEW m \in Names \ {n}, NEW q \in live[m],
               TargetOf[q] = TargetOf[p]
        PROVE  q \notin Acting
    <3>1. live[m] # Many
      BY <2>5 DEF Overflow
    <3>2. ~Conflict(m)
      BY <2>2, <2>5, <2>6, <3>1 DEF Conflicted
    <3>3. Described(m) /\ Sole(m) \notin Acting
      BY <3>2 DEF Conflict
    <3>4. live[m] = {Sole(m)}
      BY <2>1, <3>3, SoleIsLive DEF Described
    <3> QED
      BY <3>3, <3>4
  <2> QED
    BY <2>4, <2>6
<1> QED
  BY <1>1, ClientInvariant, PTL

\* A skill stays with the node that was first seen to provide it, or becomes
\* ambiguous (registry.py, query).
THEOREM OwnersStand == Spec => NeverTakenOver
<1> DEFINE Kept == \A s \in Skills : owners[s] # None => owners'[s] \in {owners[s], Many}
<1>1. ClientInv /\ [Next]_vars => [Kept]_vars
  <2> SUFFICES ASSUME ClientInv, Next PROVE Kept
    BY DEF vars
  <2>1. CASE UNCHANGED owners
    BY <2>1
  <2>2. ASSUME NEW n \in Names, Describe(n) PROVE Kept
    <3>1. UNCHANGED owners \/ owners' = Owners(asking[n])
      BY <2>2 DEF Describe
    <3> QED
      BY <3>1 DEF Owners
  <2>3. DirNext => UNCHANGED owners \/ \E n \in Names : Describe(n)
    BY DEF DirNext, ViewChanges, Round, DescribeFails, directory
  <2>4. ClientNext => UNCHANGED owners
    BY DEF ClientNext, Nodes, Resolve, ResolveWaits, ResolveFound, ResolveTimeout, Bound,
           Action, Control, Featured, Submitted, CallEnds, dirVars, directory
  <2> QED
    BY <2>1, <2>2, <2>3, <2>4 DEF Next
<1>2. []ClientInv /\ [][Next]_vars => [][Kept]_vars
  BY <1>1, PTL
<1> QED
  BY <1>2, ClientInvariant DEF Spec, NeverTakenOver

\* What is sent goes to the one live instance of the node, at its own target,
\* and that instance provides the skill (system.py, action, allow_actions and
\* set_robot_mode).
THEOREM CallsReachProviders == Spec => SentToProvider
<1> DEFINE Reached ==
      call'.at = "sent" /\ call.at # "sent" =>
        LET p == call'.proc IN
        /\ call'.skill # None => call'.skill \in SkillsOf[p]
        /\ buses[call'.name] = TargetOf[p] /\ NameOf[p] = call'.name
        /\ Sole(call'.name) = p /\ ~Overflow
<1>1. ClientInv /\ [Next]_vars => [Reached]_vars
  <2> SUFFICES ASSUME ClientInv, Next, call'.at = "sent", call.at # "sent" PROVE Reached
    BY DEF vars
  <2>1. ASSUME NEW q \in Procs, Submitted(q) PROVE Reached
    <3>1. Responds(q) /\ call.at = "context" /\ call \in Calls
      BY <2>1 DEF Submitted, ClientInv, TypeOK, NoCall
    <3>2. Answers(q) /\ call' = [call EXCEPT !.at = "sent", !.proc = q]
      BY <2>1 DEF Submitted, NoCall
    <3>3. /\ call'.proc = q /\ call'.name = call.name /\ call'.skill = call.skill
      BY <3>1, <3>2 DEF Calls
    <3> QED
      BY <3>1, <3>2, <3>3 DEF Answers, Responds, Current, ClientInv, CallIsProvided
  <2>2. ~DirNext \/ ~UNCHANGED client
    BY DEF client
  <2>3. ~Nodes /\ ~Resolve /\ ~ResolveWaits /\ ~ResolveFound /\ ~ResolveTimeout /\ ~Bound
    BY DEF Nodes, Resolve, ResolveWaits, ResolveFound, ResolveTimeout, Bound
  <2>4. /\ \A s \in Skills : ~Action(s)
        /\ \A n \in Names : ~Control(n)
        /\ \A q \in Procs : ~Featured(q)
        /\ ~CallEnds
    BY DEF Action, Control, Featured, CallEnds, NoCall, ClientInv, TypeOK, Calls
  <2> QED
    BY <2>1, <2>2, <2>3, <2>4 DEF Next, ClientNext
<1>2. []ClientInv /\ [][Next]_vars => [][Reached]_vars
  BY <1>1, PTL
<1> QED
  BY <1>2, ClientInvariant DEF Spec, SentToProvider

(***************************************************************************)
(* The view of the live nodes.                                             *)
(***************************************************************************)

\* p is in a view.
Listed(view, p) == view[NameOf[p]] # Many /\ p \in view[NameOf[p]]

\* Every process is listed under its own name; no name has lost its list.
Named(view) == \A n \in Names : view[n] # Many => \A q \in view[n] : NameOf[q] = n
NoMany(view) == \A n \in Names : view[n] # Many

\* A change is reported once it has happened, the start before the end; only a
\* process that ran may answer.
Lives ==
  \A p \in Procs :
    /\ up[p] = "new" => told[p] = "nothing" /\ p \notin Old /\ p \notin answers
    /\ told[p] = "delete" => up[p] = "gone"

\* A view lists processes of the name that ran, and none whose end was reported;
\* an answer that is older than the report of the end is known to be.
NoGhosts(view) ==
  /\ view \in Presence!View /\ Named(view)
  /\ \A p \in Procs : Listed(view, p) => up[p] # "new" /\ told[p] # "delete"

\* A view that lost something says so; one that is whole lists whoever is known
\* to be up.
NobodyMissed ==
  whole /\ ~overflow =>
    \A p \in Procs : up[p] = "up" /\ (p \in Old \/ told[p] = "put") => Listed(live, p)
LiveView == NoGhosts(live) /\ NobodyMissed
QueryView ==
  queried # None =>
    /\ ~closed /\ NoGhosts(queried)
    /\ NoMany(queried) \/ queryLost
    /\ \A p \in answers : told[p] = "delete" => p \in touched

VInv ==
  /\ Presence!TypeOK /\ Lives
  /\ ~closed => LiveView
  /\ NoMany(live) \/ overflow
  /\ QueryView

-------------------------------------------------------------------------------
(* One change of one view.                                                 *)

\* A report of p lists it, or ends it, or says that something was lost; nothing
\* else of the view changes unless it was lost.
UpdateOf(view, p, present, new, lost) ==
  /\ new \in Presence!View /\ Named(new)
  /\ \A q \in Procs : Listed(new, q) => Listed(view, q) \/ (present /\ q = p)
  /\ ~present => ~Listed(new, p)
  /\ \A q \in Procs : Listed(view, q) /\ (present \/ q # p) => Listed(new, q) \/ lost
  /\ present /\ NoMany(view) => Listed(new, p) \/ lost
  /\ NoMany(view) => NoMany(new) \/ lost

LEMMA UpdatedView ==
  ASSUME Presence!Places, NEW view \in Presence!View, NEW p \in Procs, NEW present \in BOOLEAN, Named(view)
  PROVE  UpdateOf(view, p, present, Presence!Updated(view, p, present), Presence!Loses(view, p, present))
<1> DEFINE name == NameOf[p]
<1>1. /\ name \in Names
      /\ \A q \in Procs : NameOf[q] \in Names
      /\ \A n \in Names : view[n] = Many \/ view[n] \subseteq Procs
  BY DEF Presence!Places, Presence!View
<1>2. CASE view[name] = Many \/ (present /\ Presence!Unlisted(view, name))
  <2>1. Presence!Updated(view, p, present) = view
    BY <1>2 DEF Presence!Updated
  <2>2. present /\ NoMany(view) => Presence!Loses(view, p, present)
    BY <1>1, <1>2 DEF Presence!Loses, NoMany
  <2>3. ~present => ~Listed(view, p)
    BY <1>2 DEF Listed
  <2> QED
    BY <2>1, <2>2, <2>3 DEF UpdateOf
<1>3. CASE view[name] # Many /\ ~present
  <2> DEFINE less == view[name] \ {p}
  <2>1. Presence!Updated(view, p, present) = [view EXCEPT ![name] = less]
    BY <1>3 DEF Presence!Updated
  <2>2. less \in SUBSET Procs /\ less # Many
    BY <1>1, <1>3 DEF Presence!Places
  <2> DEFINE new == [view EXCEPT ![name] = less]
  <2>3. new \in Presence!View /\ new[name] = less /\ \A n \in Names : n # name => new[n] = view[n]
    BY <1>1, <2>2 DEF Presence!View
  <2> HIDE DEF new
  <2>4. Named(new)
    BY <1>1, <1>3, <2>3 DEF Named
  <2>5. /\ \A q \in Procs : Listed(new, q) => Listed(view, q)
        /\ ~Listed(new, p)
        /\ \A q \in Procs : Listed(view, q) /\ q # p => Listed(new, q)
    BY <1>1, <1>3, <2>2, <2>3 DEF Listed
  <2>6. NoMany(view) => NoMany(new)
    BY <2>2, <2>3 DEF NoMany
  <2>7. Presence!Updated(view, p, present) = new
    BY <2>1 DEF new
  <2> QED
    BY <1>3, <2>3, <2>4, <2>5, <2>6, <2>7 DEF UpdateOf
<1>4. CASE view[name] # Many /\ present /\ ~Presence!Unlisted(view, name)
  <2> DEFINE more == view[name] \cup {p}
             full == Presence!Cardinality(more) > MaxAddresses
             value == IF full THEN Many ELSE more
  <2>1. /\ Presence!Updated(view, p, present) = [view EXCEPT ![name] = value]
        /\ Presence!Loses(view, p, present) <=> full
    BY <1>4 DEF Presence!Updated, Presence!Loses
  <2>2. /\ more \in SUBSET Procs /\ more # Many
        /\ \A q \in more : NameOf[q] = name
        /\ view[name] \subseteq more /\ p \in more /\ \A q \in more : q = p \/ q \in view[name]
    <3>1. more \in SUBSET Procs
      BY <1>1, <1>4
    <3>2. more # Many
      BY <3>1 DEF Presence!Places
    <3> QED
      BY <1>1, <1>4, <3>1, <3>2 DEF Named
  <2> DEFINE new == [view EXCEPT ![name] = value]
  <2> HIDE DEF full, more
  <2>3. /\ new \in Presence!View
        /\ full => new[name] = Many
        /\ ~full => new[name] = more
        /\ \A n \in Names : n # name => new[n] = view[n]
    BY <1>1, <2>2 DEF Presence!View
  <2>4. Presence!Updated(view, p, present) = new
    BY <2>1
  <2> HIDE DEF new
  <2>5. Named(new)
    BY <1>1, <2>2, <2>3 DEF Named
  <2>6. /\ \A q \in Procs : Listed(new, q) => Listed(view, q) \/ q = p
        /\ \A q \in Procs : Listed(view, q) => Listed(new, q) \/ full
        /\ Listed(new, p) \/ full
    BY <1>1, <1>4, <2>2, <2>3 DEF Listed
  <2>7. NoMany(view) => NoMany(new) \/ full
    BY <2>2, <2>3 DEF NoMany
  <2> QED
    BY <1>4, <2>1, <2>3, <2>4, <2>5, <2>6, <2>7 DEF UpdateOf
<1> QED
  BY <1>2, <1>3, <1>4

-------------------------------------------------------------------------------
(* The steps.                                                              *)

\* What the subscription reports.
LEMMA DeliverStep ==
  ASSUME Presence!Places, VInv, NEW p \in Procs, Presence!Deliver(p)
  PROVE  VInv'
<1> USE DEF VInv
<1>1. PICK last \in {"put", "delete"} :
        /\ IF last = "put" THEN up[p] # "new" /\ told[p] = "nothing" /\ p \notin Old
           ELSE up[p] = "gone" /\ told[p] = IF p \in Old THEN "nothing" ELSE "put"
        /\ told' = [told EXCEPT ![p] = last]
        /\ IF closed THEN UNCHANGED Presence!views ELSE Presence!Change(p, last = "put")
  BY DEF Presence!Deliver
<1>2. /\ UNCHANGED <<up, answers, closed>>
      /\ told' \in [Procs -> {"nothing", "put", "delete"}]
      /\ told'[p] = last /\ \A q \in Procs : q # p => told'[q] = told[q]
      /\ up[p] # "new" /\ (last = "delete" => up[p] = "gone") /\ last \in {"put", "delete"}
  BY <1>1 DEF Presence!Deliver, Presence!TypeOK
<1>3. Lives'
  BY <1>2 DEF Lives
<1>4. CASE closed
  <2>1. UNCHANGED Presence!views
    BY <1>1, <1>4
  <2>2. Presence!TypeOK' /\ closed' /\ (NoMany(live) \/ overflow)'
    BY <1>2, <1>4, <2>1 DEF Presence!TypeOK, NoMany, Presence!views
  <2>3. QueryView'
    BY <1>2, <1>4, <2>1 DEF QueryView, Presence!views
  <2> QED
    BY <1>3, <2>2, <2>3
<1>5. CASE ~closed
  <2> DEFINE present == last = "put"
  <2>1. Presence!Change(p, present)
    BY <1>1, <1>5
  <2> DEFINE lost == Presence!Loses(live, p, present)
  <2>2. UpdateOf(live, p, present, live', lost)
    BY <1>5, <2>1, UpdatedView DEF LiveView, NoGhosts, Presence!Change
  <2>3. /\ overflow' = (overflow \/ lost) /\ UNCHANGED <<whole, initialized>>
        /\ touched' = Presence!Touched(p)
    BY <2>1 DEF Presence!Change
  <2>4. \A view, new : NoGhosts(view) /\ (\E l : UpdateOf(view, p, present, new, l)) =>
          /\ new \in Presence!View /\ Named(new)
          /\ \A q \in Procs : Listed(new, q) => up'[q] # "new" /\ told'[q] # "delete"
    BY <1>2 DEF NoGhosts, UpdateOf
  <2>5. NoGhosts(live)'
    BY <1>5, <2>2, <2>4 DEF LiveView, NoGhosts, Listed, Named
  <2>6. NoMany(live') \/ overflow'
    BY <2>2, <2>3 DEF UpdateOf
  <2>7. NobodyMissed'
    <3> SUFFICES ASSUME whole, ~overflow, ~lost, NEW q \in Procs,
                        up[q] = "up", q \in Old \/ told'[q] = "put"
                 PROVE  Listed(live', q)
      BY <1>2, <2>3 DEF NobodyMissed, Listed
    <3>1. CASE q = p
      BY <1>2, <2>2, <3>1 DEF UpdateOf
    <3>2. CASE q # p
      <4>1. Listed(live, q)
        BY <1>2, <1>5, <3>2 DEF LiveView, NobodyMissed
      <4> QED
        BY <2>2, <3>2, <4>1 DEF UpdateOf
    <3> QED
      BY <3>1, <3>2
  <2>8. Presence!TypeOK' /\ QueryView'
    <3>1. CASE queried = None
      BY <1>2, <2>1, <2>3, <2>2, <3>1 DEF Presence!TypeOK, QueryView, Presence!Touched, UpdateOf, Presence!Change
    <3>2. CASE queried # None
      <4> DEFINE missed == Presence!Loses(queried, p, present)
      <4>1. UpdateOf(queried, p, present, queried', missed)
        BY <2>1, <3>2, UpdatedView DEF QueryView, NoGhosts, Presence!Change, Presence!Queried
      <4>2. queryLost' = (queryLost \/ missed) /\ touched' = touched \cup {p}
        BY <2>1, <3>2 DEF Presence!Change, Presence!Queried, Presence!Touched
      <4>3. NoGhosts(queried)'
        BY <3>2, <4>1, <2>4 DEF QueryView, NoGhosts, Listed, Named
      <4>4. NoMany(queried') \/ queryLost'
        BY <3>2, <4>1, <4>2 DEF UpdateOf, QueryView
      <4>5. \A q \in answers : told'[q] = "delete" => q \in touched'
        BY <1>2, <3>2, <4>2 DEF QueryView, Presence!TypeOK
      <4>6. QueryView'
        BY <1>2, <1>5, <4>3, <4>4, <4>5 DEF QueryView, NoMany
      <4>7. Presence!TypeOK'
        BY <1>2, <2>2, <2>3, <4>1, <4>2 DEF Presence!TypeOK, UpdateOf, Presence!Loses
      <4> QED
        BY <4>6, <4>7
    <3> QED
      BY <3>1, <3>2
  <2> QED
    BY <1>3, <2>5, <2>6, <2>7, <2>8 DEF LiveView, NoMany
<1> QED
  BY <1>4, <1>5

\* What the query answers.
LEMMA ReplyStep ==
  ASSUME Presence!Places, VInv, NEW p \in Procs, Presence!Reply(p)
  PROVE  VInv'
<1> USE DEF VInv
<1>1. /\ queried # None /\ ~closed /\ p \in answers /\ answers' = answers \ {p}
      /\ UNCHANGED <<up, told, live, overflow, touched, whole, initialized, closed>>
  BY DEF Presence!Reply, QueryView
<1>2. Lives'
  BY <1>1 DEF Lives
<1>3. LiveView' /\ (NoMany(live) \/ overflow)'
  BY <1>1 DEF LiveView, NoGhosts, NobodyMissed, Named, Listed, NoMany
<1>4. CASE p \in touched
  <2>1. UNCHANGED <<queried, queryLost>>
    BY <1>4 DEF Presence!Reply
  <2> QED
    BY <1>1, <1>2, <1>3, <2>1
    DEF Presence!TypeOK, QueryView, NoGhosts, Named, Listed, NoMany
<1>5. CASE p \notin touched
  <2> DEFINE missed == Presence!Loses(queried, p, TRUE)
  <2>1. UpdateOf(queried, p, TRUE, queried', missed) /\ queryLost' = (queryLost \/ missed)
    BY <1>1, <1>5, UpdatedView DEF QueryView, NoGhosts, Presence!Reply, Presence!Queried
  <2>2. up[p] # "new" /\ told[p] # "delete"
    BY <1>1, <1>5 DEF Lives, QueryView
  <2>3. NoGhosts(queried)'
    BY <1>1, <2>1, <2>2 DEF QueryView, UpdateOf, NoGhosts, Listed, Named
  <2>4. NoMany(queried') \/ queryLost'
    BY <1>1, <2>1 DEF UpdateOf, QueryView
  <2>5. QueryView'
    BY <1>1, <2>3, <2>4 DEF QueryView, NoMany
  <2>6. Presence!TypeOK'
    BY <1>1, <2>1 DEF Presence!TypeOK, UpdateOf, Presence!Loses
  <2> QED
    BY <1>1, <1>2, <1>3, <2>5, <2>6
<1> QED
  BY <1>4, <1>5

\* The query's view takes the place of the other.
LEMMA QueryDoneStep ==
  ASSUME Presence!Places, VInv, Presence!QueryDone
  PROVE  VInv'
<1> USE DEF VInv
<1>1. /\ queried # None /\ ~closed /\ live' = queried /\ overflow' = queryLost
      /\ queried' = None /\ touched' = {} /\ answers' = {} /\ initialized' = TRUE
      /\ UNCHANGED <<up, told, queryLost, closed>>
      /\ whole' \in BOOLEAN
      /\ whole' => \A p \in Procs : up[p] = "up" =>
                     \/ queryLost \/ p \in queried[NameOf[p]]
                     \/ p \notin Old /\ told[p] = "nothing"
  BY DEF Presence!QueryDone, QueryView
<1>2. NoGhosts(queried) /\ (NoMany(queried) \/ queryLost)
  BY <1>1 DEF QueryView
<1>3. Presence!TypeOK' /\ Lives' /\ QueryView'
  BY <1>1, <1>2 DEF Presence!TypeOK, Lives, QueryView, NoGhosts
<1>4. NoGhosts(live)' /\ (NoMany(live) \/ overflow)'
  BY <1>1, <1>2 DEF NoGhosts, Named, Listed, NoMany
<1>5. NobodyMissed'
  <2> SUFFICES ASSUME whole', ~queryLost, NEW p \in Procs,
                      up[p] = "up", p \in Old \/ told[p] = "put"
               PROVE  Listed(queried, p)
    BY <1>1 DEF NobodyMissed, Listed
  <2>1. p \in queried[NameOf[p]]
    BY <1>1
  <2>2. queried[NameOf[p]] # Many
    BY <1>2 DEF NoMany, Presence!Places
  <2> QED
    BY <2>1, <2>2 DEF Listed
<1> QED
  BY <1>3, <1>4, <1>5 DEF LiveView

LEMMA ViewStep ==
  ASSUME Presence!Places, VInv, [Presence!Next]_Presence!vars
  PROVE  VInv'
<1> USE DEF VInv
<1> USE DEF Presence!TypeOK, Lives, LiveView, QueryView, NoGhosts, NobodyMissed, Named, Listed, NoMany
<1>1. ASSUME NEW p \in Procs, Presence!Start(p) PROVE VInv'
  <2>1. /\ up[p] = "new" /\ up' = [up EXCEPT ![p] = "up"]
        /\ UNCHANGED <<told, Presence!views, closed>>
        /\ answers' \subseteq Procs /\ \A q \in answers' : q \in answers \/ q = p
    BY <1>1 DEF Presence!Start
  <2>2. Presence!TypeOK' /\ Lives'
    BY <2>1 DEF Presence!views
  <2>3. (~closed => LiveView)' /\ (NoMany(live) \/ overflow)'
    BY <2>1 DEF Presence!views
  <2>4. QueryView'
    BY <2>1 DEF Presence!views
  <2> QED
    BY <2>2, <2>3, <2>4
<1>2. ASSUME NEW p \in Procs, Presence!Die(p) PROVE VInv'
  <2>1. /\ up[p] = "up" /\ up' = [up EXCEPT ![p] = "gone"]
        /\ UNCHANGED <<told, answers, Presence!views, closed>>
    BY <1>2 DEF Presence!Die
  <2>2. Presence!TypeOK' /\ Lives'
    BY <2>1 DEF Presence!views
  <2>3. (~closed => LiveView)' /\ (NoMany(live) \/ overflow)'
    BY <2>1 DEF Presence!views
  <2>4. QueryView'
    BY <2>1 DEF Presence!views
  <2> QED
    BY <2>2, <2>3, <2>4
<1>3. ASSUME NEW p \in Procs, Presence!Deliver(p) PROVE VInv'
  BY <1>3, DeliverStep
<1>4. ASSUME NEW p \in Procs, Presence!Reply(p) PROVE VInv'
  BY <1>4, ReplyStep
<1>5. ASSUME Presence!QueryStart PROVE VInv'
  <2>1. queried' \in Presence!View /\ queried' # None /\ \A n \in Names : queried'[n] = {}
    BY <1>5 DEF Presence!QueryStart, Presence!View, Presence!Places
  <2>2. {} # Many
    BY DEF Presence!Places
  <2>3. Presence!TypeOK' /\ Lives' /\ (~closed => LiveView)' /\ (NoMany(live) \/ overflow)'
    BY <1>5, <2>1 DEF Presence!QueryStart
  <2>4. QueryView'
    BY <1>5, <2>1, <2>2 DEF Presence!QueryStart, Presence!Places
  <2> QED
    BY <2>3, <2>4
<1>6. ASSUME Presence!QueryDone PROVE VInv'
  BY <1>6, QueryDoneStep
<1>7. ASSUME Presence!Close PROVE VInv'
  <2>1. Presence!TypeOK' /\ Lives' /\ closed' /\ (NoMany(live) \/ overflow)' /\ QueryView'
    BY <1>7 DEF Presence!Close
  <2> QED
    BY <2>1
<1>8. ASSUME UNCHANGED Presence!vars PROVE VInv'
  BY <1>8 DEF Presence!vars, Presence!world, Presence!views
<1> QED
  BY <1>1, <1>2, <1>3, <1>4, <1>5, <1>6, <1>7, <1>8 DEF Presence!Next

-------------------------------------------------------------------------------
(* The registry and its client, side by side.                              *)

LEMMA PresenceInit == Presence!Init => VInv
<1> SUFFICES ASSUME Presence!Init PROVE VInv
  OBVIOUS
<1>1. {} # Many
  BY PresencePlaces DEF Presence!Places
<1>2. live \in Presence!View /\ \A n \in Names : live[n] = {}
  BY DEF Presence!Init, Presence!View
<1>3. Presence!TypeOK /\ Lives /\ QueryView
  BY <1>2, PresencePlaces
     DEF Presence!Init, Presence!TypeOK, Lives, QueryView, Presence!Places
<1>4. NoMany(live) /\ NoGhosts(live) /\ NobodyMissed
  BY <1>1, <1>2, PresencePlaces
     DEF Presence!Init, NoMany, NoGhosts, Named, Listed, NobodyMissed, Presence!Places
<1> QED
  BY <1>2, <1>3, <1>4 DEF VInv, LiveView

LEMMA TrueView == VInv => Presence!ViewIsTrue
<1> SUFFICES ASSUME VInv, Presence!Delivered, ~overflow, ~closed, NEW n \in Names
             PROVE  LET truth == {p \in Procs : NameOf[p] = n /\ up[p] = "up"} IN
                    live[n] \subseteq truth /\ (whole => live[n] = truth)
  BY DEF Presence!ViewIsTrue, VInv, NoMany
<1> DEFINE truth == {p \in Procs : NameOf[p] = n /\ up[p] = "up"}
<1>1. live[n] # Many /\ live[n] \subseteq Procs /\ \A p \in live[n] : NameOf[p] = n
  BY DEF VInv, NoMany, LiveView, NoGhosts, Presence!View, Named
<1>2. live[n] \subseteq truth
  <2> SUFFICES ASSUME NEW p \in live[n] PROVE up[p] = "up"
    BY <1>1
  <2>1. Listed(live, p) /\ p \in Procs
    BY <1>1 DEF Listed
  <2> QED
    BY <2>1 DEF VInv, LiveView, NoGhosts, Presence!Delivered, Presence!TypeOK
<1>3. whole => truth \subseteq live[n]
  BY <1>1 DEF VInv, LiveView, NobodyMissed, Presence!Delivered, Listed
<1> QED
  BY <1>2, <1>3


\* What a step of the registry does to the view is what a client is prepared for.
LEMMA ViewChange ==
  ASSUME VInv, VInv', Presence!Next
  PROVE  live' = live \/ \E now \in [Names -> (SUBSET Procs) \cup {Many}] :
                           /\ \A n \in Names :
                                now[n] # Many => \A p \in now[n] : NameOf[p] = n
                           /\ live' = now
<1>1. CASE ~closed'
  BY <1>1 DEF VInv, LiveView, NoGhosts, Named, Presence!View
<1>2. CASE closed'
  <2>1. ASSUME NEW p \in Procs, Presence!Start(p) \/ Presence!Die(p) \/ Presence!Reply(p)
        PROVE  live' = live
    BY <2>1 DEF Presence!Start, Presence!Die, Presence!Reply, Presence!views
  <2>2. ASSUME NEW p \in Procs, Presence!Deliver(p) PROVE live' = live
    BY <1>2, <2>2 DEF Presence!Deliver, Presence!views
  <2>3. CASE Presence!QueryStart \/ Presence!Close
    BY <2>3 DEF Presence!QueryStart, Presence!Close
  <2>4. ~Presence!QueryDone
    BY <1>2 DEF Presence!QueryDone, VInv, QueryView
  <2> QED
    BY <2>1, <2>2, <2>3, <2>4 DEF Presence!Next
<1> QED
  BY <1>1, <1>2

\* A client on the view that the registry has is a client as SystemClient has it,
\* and the registry is not disturbed by it: what is proved of either holds of both
\* together (system.py, registry.py).
THEOREM ClientOfTheRegistry == FedSpec => Spec /\ Presence!Spec
<1>1. VInv /\ VInv' /\ [FedNext]_<<presence, vars>> => [Next]_vars
  <2> SUFFICES ASSUME VInv, VInv', FedNext PROVE [Next]_vars
    BY DEF vars
  <2>1. CASE Presence!Next /\ UNCHANGED <<asking, directory, client>>
    <3>1. CASE live' = live
      BY <2>1, <3>1 DEF vars, dirVars
    <3>2. CASE live' # live
      <4>1. ViewChanges
        BY <2>1, <3>2, ViewChange DEF ViewChanges
      <4> QED
        BY <2>1, <4>1 DEF Next, DirNext
    <3> QED
      BY <3>1, <3>2
  <2>2. CASE (Round \/ \E n \in Names : Describe(n) \/ DescribeFails(n))
             /\ UNCHANGED <<presence, client>>
    BY <2>2 DEF Next, DirNext
  <2>3. CASE ClientNext /\ UNCHANGED presence
    BY <2>3 DEF Next
  <2> QED
    BY <2>1, <2>2, <2>3 DEF FedNext
<1>2. [FedNext]_<<presence, vars>> => [Presence!Next]_Presence!vars
  <2> SUFFICES ASSUME FedNext PROVE [Presence!Next]_Presence!vars
    BY DEF vars, dirVars, presence, Presence!vars, Presence!world, Presence!views
  <2>1. CASE (Round \/ \E n \in Names : Describe(n) \/ DescribeFails(n))
             /\ UNCHANGED <<presence, client>>
    <3>1. live' = live
      BY <2>1 DEF Round, Describe, DescribeFails
    <3> QED
      BY <2>1, <3>1 DEF presence, Presence!vars, Presence!world, Presence!views
  <2>2. CASE ClientNext /\ UNCHANGED presence
    <3>1. live' = live
      BY <2>2 DEF ClientNext, Nodes, Resolve, ResolveWaits, ResolveFound, ResolveTimeout, Bound,
                  Action, Control, Featured, Submitted, CallEnds, dirVars
    <3> QED
      BY <2>2, <3>1 DEF presence, Presence!vars, Presence!world, Presence!views
  <2> QED
    BY <2>1, <2>2 DEF FedNext
<1>3. VInv /\ [Presence!Next]_Presence!vars => VInv'
  BY ViewStep, PresencePlaces
<1> QED
  BY <1>1, <1>2, <1>3, PresenceInit, PTL DEF FedSpec, Spec, Presence!Spec

\* What holds of the registry's own variables while the client runs, and of the
\* client's while the registry does, is their types.
RegistryInv ==
  /\ part \in {"presence", "client"} /\ RegistryTypeOK
  /\ part = "presence" => VInv
  /\ part = "client" => ClientInv

LEMMA RegistryStep ==
  ASSUME RegistryInv, [RegistryNext]_<<part, presence, vars>>
  PROVE  RegistryInv'
<1>1. CASE part = "presence" /\ Presence!Next /\ UNCHANGED <<part, asking, directory, client>>
  <2>1. VInv'
    BY <1>1, ViewStep, PresencePlaces DEF RegistryInv
  <2>2. Presence!TypeOK'
    BY <2>1 DEF VInv
  <2>3. TypeOK'
    BY <1>1, <2>2 DEF RegistryInv, RegistryTypeOK, TypeOK, DirTypeOK, Presence!TypeOK,
                      Presence!View, directory, client
  <2> QED
    BY <1>1, <2>1, <2>2, <2>3 DEF RegistryInv, RegistryTypeOK
<1>2. CASE part = "client" /\ Next /\ UNCHANGED <<part, presence>>
  <2>1. ClientInv'
    BY <1>2, SystemStep DEF RegistryInv
  <2>2. TypeOK' /\ live' \in Presence!View
    BY <2>1 DEF ClientInv, TypeOK, DirTypeOK, Presence!View
  <2>3. Presence!TypeOK'
    BY <1>2, <2>2 DEF RegistryInv, RegistryTypeOK, Presence!TypeOK, Presence!View, presence
  <2> QED
    BY <1>2, <2>1, <2>2, <2>3 DEF RegistryInv, RegistryTypeOK
<1>3. CASE UNCHANGED <<part, presence, vars>>
  <2>1. UNCHANGED <<part, live, asking, directory, client>> /\ UNCHANGED presence
    BY <1>3 DEF vars, dirVars
  <2>2. part = "client" => ClientInv'
    BY <2>1, SystemStep DEF RegistryInv, vars, dirVars
  <2>3. part = "presence" => VInv'
    <3>1. UNCHANGED Presence!vars
      BY <2>1 DEF presence, Presence!vars, Presence!world, Presence!views
    <3> QED
      BY <3>1, ViewStep, PresencePlaces DEF RegistryInv
  <2>4. RegistryTypeOK'
    BY <2>1 DEF RegistryInv, RegistryTypeOK, TypeOK, DirTypeOK, Presence!TypeOK, Presence!View,
                directory, client, presence
  <2> QED
    BY <2>1, <2>2, <2>3, <2>4 DEF RegistryInv
<1> QED
  BY <1>1, <1>2, <1>3 DEF RegistryNext

THEOREM RegistryInvariant == RegistrySpec => []RegistryInv
<1>1. RegistryInit => RegistryInv
  <2> SUFFICES ASSUME RegistryInit PROVE RegistryInv
    OBVIOUS
  <2>1. VInv
    BY PresenceInit DEF RegistryInit
  <2>2. ClientInv
    BY ClientInit DEF RegistryInit
  <2> QED
    BY <2>1, <2>2 DEF RegistryInit, RegistryInv, RegistryTypeOK, VInv, ClientInv
<1> QED
  BY <1>1, RegistryStep, PTL DEF RegistrySpec

\* Type correctness of the registry and its client.
THEOREM RegistryTypes == RegistrySpec => []RegistryTypeOK
<1>1. RegistryInv => RegistryTypeOK
  BY DEF RegistryInv
<1> QED
  BY <1>1, RegistryInvariant, PTL

\* Once every change has been delivered, the view holds nobody who is gone, and
\* everybody who is up if the query had all its answers; what was lost is said
\* (registry.py, _change and _initial_presence).
THEOREM PresenceIsTrue == RegistrySpec => []ViewIsTrue
<1>1. RegistryInv => ViewIsTrue
  BY TrueView DEF RegistryInv, ViewIsTrue
<1> QED
  BY <1>1, RegistryInvariant, PTL
===============================================================================
