------------------------------- MODULE Registry -------------------------------
(***************************************************************************)
(* The registry and a client of it. A behaviour is one of NodePresence or  *)
(* one of SystemClient, which takes every change of the view that          *)
(* NodePresence may make, and more.                                        *)
(***************************************************************************)
EXTENDS SystemClient

CONSTANTS Old, MaxAddresses, MaxNames
VARIABLES part, up, told, answers, overflow, queried, touched, queryLost, whole,
          initialized, closed

Presence == INSTANCE NodePresence

\* What the proofs about NodePresence assume of its constants.
ASSUME PresencePlaces == Presence!Places

presence == <<up, told, answers, overflow, queried, touched, queryLost, whole,
              initialized, closed>>

RegistryInit == part \in {"presence", "client"} /\ Presence!Init /\ Init
RegistryNext ==
  /\ UNCHANGED part
  /\ \/ part = "presence" /\ Presence!Next /\ UNCHANGED <<asking, directory, client>>
     \/ part = "client" /\ Next /\ UNCHANGED presence
RegistrySpec == RegistryInit /\ [][RegistryNext]_<<part, presence, vars>>

\* The client on the view that the registry has: no other change of it is taken.
FedNext ==
  \/ Presence!Next /\ UNCHANGED <<asking, directory, client>>
  \/ (Round \/ \E n \in Names : Describe(n) \/ DescribeFails(n)) /\ UNCHANGED <<presence, client>>
  \/ ClientNext /\ UNCHANGED presence
FedSpec == Presence!Init /\ Init /\ [][FedNext]_<<presence, vars>>

-------------------------------------------------------------------------------
RegistryTypeOK == TypeOK /\ Presence!TypeOK
ViewIsTrue == part = "presence" => Presence!ViewIsTrue
===============================================================================
