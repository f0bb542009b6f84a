----------------------------- MODULE NodeDirectory -----------------------------
(***************************************************************************)
(* The descriptions of the live nodes (registry.py, refresh, transport,    *)
(* routes). A round asks every node for its descriptor over the connection *)
(* of the target its token names; meanwhile the view of the live processes *)
(* may change to any other one, which is what NodePresence may do to it    *)
(* while a coroutine awaits.                                               *)
(***************************************************************************)
EXTENDS Naturals, FiniteSets

CONSTANTS
  Procs,         \* the processes that may run, one boot id each
  Names,         \* node ids
  Targets,       \* the namespaces their services are in
  NameOf, TargetOf,
  Acting,        \* the processes with an action executor
  Skills, SkillsOf,
  MaxRecords,    \* 64 in the code: MAX_NODE_RECORDS
  Many,          \* of a name: too many addresses; of a skill: two providers
  None

ASSUME PlacesAssumption ==
  /\ NameOf \in [Procs -> Names] /\ TargetOf \in [Procs -> Targets]
  /\ SkillsOf \in [Procs -> SUBSET Skills] /\ Acting \subseteq Procs
  /\ MaxRecords \in Nat /\ IsFiniteSet(Procs)

VARIABLES
  live,       \* the live processes of every name
  asking,     \* the instance each descriptor request of the round is for
  entries,    \* entries: the instance described, and whether it answered
  known,      \* _known
  buses,      \* buses: the connection of a name, as the target it leads to
  owners      \* _owners

directory == <<entries, known, buses, owners>>
dirVars == <<live, asking, directory>>

DirTypeOK ==
  /\ live \in [Names -> (SUBSET Procs) \cup {Many}]
  /\ asking \in [Names -> Procs \cup {None}]
  /\ entries \in [Names -> [proc : Procs \cup {None}, ok : BOOLEAN] \cup {None}]
  /\ known \in [Names -> Procs \cup {None}]
  /\ buses \in [Names -> Targets \cup {None}]
  /\ owners \in [Skills -> Names \cup {None, Many}]

DirInit ==
  /\ live = [n \in Names |-> {}]
  /\ asking = [n \in Names |-> None]
  /\ entries = [n \in Names |-> None] /\ known = [n \in Names |-> None]
  /\ buses = [n \in Names |-> None]
  /\ owners = [s \in Skills |-> None]

-------------------------------------------------------------------------------
(* Addresses.                                                              *)

\* The view lost something: discovery_capacity_exceeded.
Overflow == \E n \in Names : live[n] = Many

\* The only live address of a name.
Sole(n) == IF live[n] # Many /\ Cardinality(live[n]) = 1 THEN CHOOSE p \in live[n] : TRUE
           ELSE None
Described(n) == entries[n] # None /\ entries[n].ok /\ Sole(n) # None /\ entries[n].proc = Sole(n)

\* _endpoint_conflicts: another live name at the target of an action node, not
\* described yet or an action node too.
Conflict(m) == Described(m) => Sole(m) \in Acting
Conflicted(n) ==
  /\ Described(n) /\ Sole(n) \in Acting
  /\ \E m \in Names \ {n} :
       /\ live[m] # Many /\ \E p \in live[m] : TargetOf[p] = TargetOf[Sole(n)]
       /\ Conflict(m)

\* check_instance: p is the one live instance of its name.
Current(p) == ~Overflow /\ Sole(NameOf[p]) = p /\ ~Conflicted(NameOf[p])

\* transport(): what it returns is buses[n].
\* Fault: the description may be of an earlier instance.
Routed_stale(n) == Sole(n) # None /\ Current(Sole(n)) /\ entries[n] # None /\ entries[n].ok
                   /\ buses[n] # None
Routed(n) == Sole(n) # None /\ Current(Sole(n)) /\ Described(n)

-------------------------------------------------------------------------------
(* Rounds.                                                                 *)

\* Tokens come and go, and a query replaces the whole view when it ends.
ViewChanges ==
  /\ \E now \in [Names -> (SUBSET Procs) \cup {Many}] :
       /\ \A n \in Names : now[n] # Many => \A p \in now[n] : NameOf[p] = n
       /\ live' = now
  /\ UNCHANGED <<asking, directory>>

\* refresh(): names are admitted while there are records; a name that has left
\* gives up its own for another. Then every unambiguous instance is asked.
Forget(rec, gone) == [n \in Names |-> IF n \in gone THEN None ELSE rec[n]]
Round ==
  /\ \A n \in Names : asking[n] = None
  /\ LET held == {n \in Names : entries[n] # None}
         wanted == {n \in Names : live[n] # {}} \ held
         left == {n \in held : live[n] = {}}
     IN \E admit \in SUBSET wanted, gone \in SUBSET left :
          LET used == Cardinality(held) + Cardinality(admit) - Cardinality(gone) IN
          /\ used <= MaxRecords
          /\ gone # {} \/ admit # wanted => used = MaxRecords
          /\ admit # wanted => gone = left
          /\ entries' = [n \in Names |->
               IF n \in admit THEN [proc |-> None, ok |-> TRUE]
               ELSE IF n \in gone THEN None ELSE entries[n]]
          /\ known' = Forget(known, gone) /\ buses' = Forget(buses, gone)
          /\ asking' = [n \in Names |-> IF entries'[n] # None /\ ~Overflow THEN Sole(n)
                                        ELSE None]
  /\ UNCHANGED <<live, owners>>

\* A skill belongs to the first node that was seen to provide it; it is
\* ambiguous for ever once a second node provides it.
\* Fault: the latest provider replaces the first.
Owners_latest(p) == [s \in Skills |-> IF s \in SkillsOf[p] THEN NameOf[p] ELSE owners[s]]
\* Fault: the owner is kept by instance.
Owners_instance(p) == [s \in Skills |-> IF s \in SkillsOf[p] THEN p ELSE owners[s]]
Owners(p) ==
  [s \in Skills |->
     IF s \notin SkillsOf[p] THEN owners[s]
     ELSE IF owners[s] \in {None, NameOf[p]} THEN NameOf[p] ELSE Many]

\* query(): the instance that was asked replied, and it is still the only one:
\* several awaits have passed. Otherwise the entry says what failed.
StillSole(p) == Sole(NameOf[p]) = p
Describe(n) ==
  /\ asking[n] # None
  /\ LET p == asking[n] IN
     /\ entries' = [entries EXCEPT ![n] = [proc |-> p, ok |-> StillSole(p)]]
     /\ IF ~StillSole(p) THEN UNCHANGED <<known, buses, owners>>
        ELSE /\ known' = [known EXCEPT ![n] = p]
             /\ buses' = [buses EXCEPT ![n] = TargetOf[p]]
             /\ owners' = IF p \in Acting THEN Owners(p) ELSE owners
  /\ asking' = [asking EXCEPT ![n] = None]
  /\ UNCHANGED live

\* The request, and its longer repetition for an instance that never answered,
\* time out, or another instance at the target replies.
DescribeFails(n) ==
  /\ asking[n] # None
  /\ entries' = [entries EXCEPT ![n] = [proc |-> asking[n], ok |-> FALSE]]
  /\ asking' = [asking EXCEPT ![n] = None]
  /\ UNCHANGED <<live, known, buses, owners>>

DirNext ==
  \/ ViewChanges \/ Round
  \/ \E n \in Names : Describe(n) \/ DescribeFails(n)
===============================================================================
