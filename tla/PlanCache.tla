------------------------------- MODULE PlanCache -------------------------------
(***************************************************************************)
(* Plans that are used again (cache.py, with runtime.py _plan): a plan     *)
(* that moved an object to a place, executed and verified, is kept with    *)
(* the conditions it was planned under; a later goal of the same intent    *)
(* gets it without asking the model, when the conditions are the same.     *)
(* The world changes between the snapshot, the execution and the next      *)
(* goal. Conditions are the object's place, and a number for calibration,  *)
(* contracts and provider together.                                        *)
(***************************************************************************)
EXTENDS Naturals, Sequences, SequencesExt

CONSTANTS
  Intents,     \* an object and its target
  Places,      \* where an object can be
  Capacity,    \* entries kept, 64 in the code
  MaxSetups,   \* bound: changes of calibration, contracts or provider
  Nowhere      \* the object was not observed, is held, or the node is not ready

VARIABLES
  place,     \* of the object of each intent
  setup,
  entries,   \* the kept plans, the least recently used first
  goal,      \* the goal being planned or executed
  verified   \* history: the conditions under which a plan for an intent succeeded

vars == <<place, setup, entries, goal, verified>>

Conditions == [place : Places, setup : 0..MaxSetups]
NoGoal == [pc |-> "none"]

TypeOK ==
  /\ place \in [Intents -> Places \cup {Nowhere}] /\ setup \in 0..MaxSetups
  /\ entries \in Seq([intent : Intents, when : Conditions]) /\ Len(entries) <= Capacity
  /\ goal = NoGoal \/ goal \in [pc : {"planning", "executing"}, intent : Intents,
                                 at : Conditions \cup {Nowhere}, transfer : BOOLEAN, cached : BOOLEAN]
  /\ verified \subseteq [intent : Intents, when : Conditions]

Init ==
  /\ place \in [Intents -> Places] /\ setup = 0
  /\ entries = <<>> /\ goal = NoGoal /\ verified = {}

\* applicability, of the snapshot the planning began with.
Applicability(intent) ==
  IF place[intent] = Nowhere THEN Nowhere ELSE [place |-> place[intent], setup |-> setup]

\* The entries are a dictionary: an intent has one at most.
Positions(intent) == {i \in DOMAIN entries : entries[i].intent = intent}
Without(intent) ==
  IF Positions(intent) = {} THEN entries
  ELSE RemoveAt(entries, CHOOSE i \in Positions(intent) : TRUE)

\* Fault: a kept plan is taken for the intent alone.
Applies_always(e, now) == now # Nowhere
Applies(e, now) == e.when = now

\* lookup: a hit is executed and moves to the end of the entries.
Lookup(intent) ==
  LET now == Applicability(intent)
      hits == {i \in Positions(intent) : now # Nowhere /\ Applies(entries[i], now)} IN
  /\ goal = NoGoal
  /\ IF hits = {}
     THEN /\ goal' = [pc |-> "planning", intent |-> intent, at |-> now,
                      transfer |-> FALSE, cached |-> FALSE]
          /\ UNCHANGED entries
     ELSE /\ goal' = [pc |-> "executing", intent |-> intent, at |-> now,
                      transfer |-> TRUE, cached |-> TRUE]
          /\ \E i \in hits : entries' = Append(Without(intent), entries[i])
  /\ UNCHANGED <<place, setup, verified>>

\* The model proposes a plan, which need not be a transfer as parameterize knows it.
Propose ==
  /\ goal.pc = "planning"
  /\ \E transfer \in BOOLEAN : goal' = [goal EXCEPT !.pc = "executing", !.transfer = transfer]
  /\ UNCHANGED <<place, setup, entries, verified>>

\* It fails or answers nothing executable; a failure forgets the intent.
NotPlanned ==
  /\ goal.pc = "planning" /\ goal' = NoGoal
  /\ entries' \in {entries, Without(goal.intent)}
  /\ UNCHANGED <<place, setup, verified>>

\* remember: with the conditions of the snapshot, not of now.
Remember ==
  IF goal.at = Nowhere \/ ~goal.transfer THEN entries
  ELSE LET kept == Append(Without(goal.intent), [intent |-> goal.intent, when |-> goal.at])
       IN IF Len(kept) > Capacity THEN Tail(kept) ELSE kept

Succeeds(to) ==
  /\ goal.pc = "executing"
  /\ entries' = Remember /\ goal' = NoGoal
  /\ place' = [place EXCEPT ![goal.intent] = to]
  /\ verified' = IF goal.at = Nowhere THEN verified
                 ELSE verified \cup {[intent |-> goal.intent, when |-> goal.at]}
  /\ UNCHANGED setup

\* invalidate: what did not succeed is not used again.
Fails ==
  /\ goal.pc = "executing" /\ goal' = NoGoal
  /\ entries' = Without(goal.intent)
  /\ verified' = {v \in verified : v.intent # goal.intent}
  /\ UNCHANGED <<place, setup>>

\* Another task has replaced this one: its outcome is not recorded.
Replaced ==
  /\ goal.pc = "executing" /\ goal' = NoGoal
  /\ UNCHANGED <<place, setup, entries, verified>>

\* The world, and those who set it up.
Moved(intent, to) ==
  /\ place[intent] # to /\ place' = [place EXCEPT ![intent] = to]
  /\ UNCHANGED <<setup, entries, goal, verified>>
SetUp ==
  /\ setup < MaxSetups /\ setup' = setup + 1
  /\ UNCHANGED <<place, entries, goal, verified>>

Next ==
  \/ \E intent \in Intents : Lookup(intent) \/ \E to \in Places \cup {Nowhere} : Moved(intent, to)
  \/ Propose \/ NotPlanned \/ Fails \/ Replaced \/ SetUp
  \/ \E to \in Places : Succeeds(to)

Spec == Init /\ [][Next]_vars

-------------------------------------------------------------------------------
\* Of a step: a plan is used again only where it has proved itself: a plan of the same
\* intent has succeeded under the very conditions that hold when it is looked
\* up, and no plan of that intent has failed since (cache.py).
CachedAsVerified ==
  goal = NoGoal /\ goal' # NoGoal /\ goal'.cached
    => [intent |-> goal'.intent, when |-> goal'.at] \in verified
===============================================================================
