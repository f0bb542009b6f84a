----------------------------- MODULE NodePresence -----------------------------
(***************************************************************************)
(* Which nodes are live (registry.py, presence). Every process declares a  *)
(* liveliness token (name, target, boot id). A subscription reports the    *)
(* changes on a callback thread; a query, repeated every two seconds,      *)
(* reads the tokens that exist. Its answers are delivered by callbacks     *)
(* too, so an answer may be older than a change that was delivered first.  *)
(*                                                                         *)
(* A process stands for its token: a restart is another process with the   *)
(* same name. The subscription has no history: it reports the end, never   *)
(* the start, of a token that is older than itself.                        *)
(***************************************************************************)
EXTENDS Naturals, FiniteSets

CONSTANTS
  Procs,         \* the processes that may run, one boot id each
  Names,         \* node ids
  NameOf,
  Old,           \* the processes that may be older than the subscription
  MaxAddresses,  \* 16 in the code: live addresses of one name
  MaxNames,      \* 1024 in the code: MAX_PRESENCE
  Many,          \* a name with too many addresses to keep them (None in the code)
  None

\* What the constants are: a name per process, and two values of their own.
Places ==
  /\ NameOf \in [Procs -> Names] /\ Old \subseteq Procs
  /\ \A group \in SUBSET Procs : group # Many
  /\ \A view \in [Names -> (SUBSET Procs) \cup {Many}] : view # None

VARIABLES
  up,           \* the life of every process
  told,         \* the last change of its token the subscription delivered
  answers,      \* the tokens whose answer to the query may still be delivered
  live,         \* _live
  overflow,     \* _overflow
  queried,      \* _queried, None when no query is under way
  touched,      \* _touched
  queryLost,    \* _query_overflow
  whole,        \* history: the latest query had every answer before its timeout
  initialized,  \* _initialized
  closed        \* _closed

world == <<up, told, answers>>
views == <<live, overflow, queried, touched, queryLost, whole, initialized>>
vars == <<world, views, closed>>

View == [Names -> (SUBSET Procs) \cup {Many}]

TypeOK ==
  /\ up \in [Procs -> {"new", "up", "gone"}]
  /\ told \in [Procs -> {"nothing", "put", "delete"}]
  /\ answers \subseteq Procs /\ touched \subseteq Procs
  /\ live \in View /\ queried \in View \cup {None}
  /\ {overflow, queryLost, whole, initialized, closed} \subseteq BOOLEAN

Init ==
  /\ up \in [Procs -> {"new", "up"}] /\ \A p \in Procs : up[p] = "up" <=> p \in Old
  /\ told = [p \in Procs |-> "nothing"] /\ answers = {}
  /\ live = [n \in Names |-> {}] /\ queried = None /\ touched = {}
  /\ overflow = FALSE /\ queryLost = FALSE /\ whole = FALSE
  /\ initialized = FALSE /\ closed = FALSE

-------------------------------------------------------------------------------
\* _update_presence: the new view, and whether information was lost.
Unlisted(view, n) == view[n] = {} /\ Cardinality({m \in Names : view[m] # {}}) >= MaxNames
Updated(view, p, present) ==
  LET n == NameOf[p] IN
  IF view[n] = Many \/ (present /\ Unlisted(view, n)) THEN view
  ELSE IF ~present THEN [view EXCEPT ![n] = @ \ {p}]
  ELSE [view EXCEPT ![n] = IF Cardinality(@ \cup {p}) > MaxAddresses THEN Many ELSE @ \cup {p}]
Loses(view, p, present) ==
  LET n == NameOf[p] IN
  /\ present /\ view[n] # Many
  /\ Unlisted(view, n) \/ Cardinality(view[n] \cup {p}) > MaxAddresses

\* The query and its view, after a change or an answer.
Queried(p, present) ==
  /\ queried' = Updated(queried, p, present)
  /\ queryLost' = (queryLost \/ Loses(queried, p, present))

\* A token that changed while the query is under way no longer listens to it.
\* Fault: the answers of the query may still overwrite the change.
Touched_never(p) == touched
Touched(p) == IF queried = None THEN touched ELSE touched \cup {p}

\* _change, for the subscription: both views are told.
Change(p, present) ==
  /\ live' = Updated(live, p, present)
  /\ overflow' = (overflow \/ Loses(live, p, present))
  /\ touched' = Touched(p)
  /\ IF queried = None THEN UNCHANGED <<queried, queryLost>> ELSE Queried(p, present)
  /\ UNCHANGED <<whole, initialized>>

Deliver(p) ==
  /\ \E last \in {"put", "delete"} :
       /\ IF last = "put" THEN up[p] # "new" /\ told[p] = "nothing" /\ p \notin Old
          ELSE up[p] = "gone" /\ told[p] = IF p \in Old THEN "nothing" ELSE "put"
       /\ told' = [told EXCEPT ![p] = last]
       /\ IF closed THEN UNCHANGED views ELSE Change(p, last = "put")
  /\ UNCHANGED <<up, answers, closed>>

\* _initial_presence: every token that exists while the query runs may answer.
QueryStart ==
  /\ ~closed /\ queried = None
  /\ queried' = [n \in Names |-> {}] /\ touched' = {} /\ queryLost' = FALSE
  /\ answers' = {p \in Procs : up[p] = "up"}
  /\ UNCHANGED <<up, told, live, overflow, whole, initialized, closed>>

\* _change, for an answer.
Reply(p) ==
  /\ queried # None /\ p \in answers
  /\ answers' = answers \ {p}
  /\ IF p \in touched THEN UNCHANGED <<queried, queryLost>> ELSE Queried(p, TRUE)
  /\ UNCHANGED <<up, told, live, overflow, touched, whole, initialized, closed>>

\* The query ends when every token has answered, or after one second. Answers
\* that come later belong to no query.
QueryDone ==
  /\ queried # None
  /\ live' = queried /\ overflow' = queryLost
  /\ whole' = \A p \in Procs : up[p] = "up" =>
                 \/ queryLost \/ p \in queried[NameOf[p]]
                 \/ p \notin Old /\ told[p] = "nothing"
  /\ queried' = None /\ touched' = {} /\ answers' = {}
  /\ initialized' = TRUE
  /\ UNCHANGED <<up, told, queryLost, closed>>

\* close() cancels the query.
Close ==
  /\ ~closed /\ closed' = TRUE
  /\ queried' = None /\ touched' = {} /\ answers' = {}
  /\ UNCHANGED <<up, told, live, overflow, queryLost, whole, initialized>>

Start(p) ==
  /\ up[p] = "new" /\ up' = [up EXCEPT ![p] = "up"]
  /\ answers' = IF queried # None THEN answers \cup {p} ELSE answers
  /\ UNCHANGED <<told, views, closed>>
Die(p) ==
  /\ up[p] = "up" /\ up' = [up EXCEPT ![p] = "gone"]
  /\ UNCHANGED <<told, answers, views, closed>>

Next ==
  \/ \E p \in Procs : Start(p) \/ Die(p) \/ Deliver(p) \/ Reply(p)
  \/ QueryStart \/ QueryDone \/ Close

Spec == Init /\ [][Next]_vars

-------------------------------------------------------------------------------
\* Once every change has been delivered the view holds no process that is
\* gone, although answers of the query may be older than the changes; and it
\* holds every process that is up, if the query had all its answers in time
\* (registry.py, _change and _initial_presence). A view that lost something
\* says so (_overflow).
Delivered ==
  \A p \in Procs : /\ up[p] = "up" => p \in Old \/ told[p] = "put"
                   /\ up[p] = "gone" => told[p] = "delete"
ViewIsTrue ==
  /\ Delivered /\ queried = None /\ initialized /\ ~overflow /\ ~closed =>
       \A n \in Names :
         LET truth == {p \in Procs : NameOf[p] = n /\ up[p] = "up"} IN
         live[n] \subseteq truth /\ (whole => live[n] = truth)
  /\ (\E n \in Names : live[n] = Many) => overflow
===============================================================================
