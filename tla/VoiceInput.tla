------------------------------ MODULE VoiceInput ------------------------------
(***************************************************************************)
(* The operator's voice (nodes/asr/node.py, nodes/voice/node.py): a press  *)
(* of the button is recorded while it is held and recognized after the     *)
(* release; a stop of the task or of the speech is forwarded to the voice  *)
(* node, any other text is returned and may be sent by the caller. The     *)
(* voice node executes every event id once: repeated deliveries share the  *)
(* execution under way, get the confirmed result, or repeat an execution   *)
(* of unknown outcome with the request that was bound the first time.      *)
(*                                                                         *)
(* Outside: the agent, the robot and the TTS node. Others control the last *)
(* two as well: an epoch ends with every hold, cancel and reopening, and   *)
(* with the process (an epoch here is a pair of boot and control epoch).   *)
(* All answer a repeated id as they did the first time, unless they were   *)
(* restarted; their answers may be lost.                                   *)
(***************************************************************************)
EXTENDS Naturals, FiniteSets, Sequences

CONSTANTS
  Presses,         \* press ids, which are also the input ids of their texts
  Intent,          \* what is said in each press: "stop", "hush" (cancel_tts), "goal" (or a
                   \* query) or "ignore"; what a client replays as an interaction, without a
                   \* press: "hold", "barge_in" or "append"
  CaptureHistory,  \* 256 in the code
  EventCapacity,   \* 4096 in the code
  ControlCapacity, \* 4096 in the code: the controls a node keeps
  MaxEpoch,        \* bound: epochs of the robot and of the TTS node, and its utterances
  Nobody

VARIABLES
  press,      \* _press: the capture session
  heard,      \* _results, oldest first
  spoken,     \* history: the presses whose text left the node, or may have
  released,   \* history: presses released while they were the current one
  record,     \* _processed: state, stage of _execute, bound request, and of the result
              \* whether it says "accepted"
  epoch,      \* the robot's control epoch
  held,       \* the robot's gate is shut
  tts,        \* the TTS node: its epoch, its last utterance, and whether it is active
  holds,      \* <<event, time>>: the holds and cancels that were carried out
  agent,      \* what the agent found when it was interrupted: a task, or none
  first,      \* history: the time of the node when the event was bound to it
  quiet       \* history: the events that found no utterance to cancel

asr == <<press, heard, spoken, released>>
voice == <<record, first, quiet>>
peers == <<epoch, held, tts, holds, agent>>
vars == <<asr, voice, peers>>

Session == [id : Presses, worker : {"recording", "text", "nothing", "failed"},
            button : BOOLEAN, finishing : {"no", "waiting", "forwarding"}]
Stages == {"idle", "interrupting", "binding", "holding", "delivering"}

\* What a control request names: an epoch and, of the TTS node, an action.
Times == [epoch : 0..MaxEpoch, action : 0..MaxEpoch]

Replayed(e) == Intent[e] \in {"hold", "barge_in", "append"}
ToSpeech(e) == Intent[e] \in {"hush", "barge_in"}
Stops(e) == Intent[e] \in {"stop", "hush", "hold", "barge_in"}

TypeOK ==
  /\ press \in Session \cup {Nobody}
  /\ heard \in Seq(Presses)
  /\ spoken \subseteq Presses /\ released \subseteq Presses
  /\ record \in [Presses ->
       [state : {"absent", "PENDING", "UNKNOWN", "CONFIRMED"}, stage : Stages,
        bound : Times \cup {Nobody}, agentFailed : BOOLEAN, accepted : BOOLEAN]]
  /\ first \in [Presses -> Times \cup {Nobody}] /\ quiet \subseteq Presses
  /\ epoch \in 0..MaxEpoch /\ held \in BOOLEAN
  /\ tts \in [epoch : 0..MaxEpoch, action : 0..MaxEpoch, active : BOOLEAN]
  /\ holds \subseteq Presses \X Times
  /\ agent \in [Presses -> {"unasked", "task", "idle"}]

Init ==
  /\ press = Nobody /\ heard = <<>> /\ spoken = {} /\ released = {}
  /\ record = [e \in Presses |-> [state |-> "absent", stage |-> "idle", bound |-> Nobody,
                                  agentFailed |-> FALSE, accepted |-> FALSE]]
  /\ first = [e \in Presses |-> Nobody] /\ quiet = {}
  /\ epoch = 0 /\ held = FALSE /\ holds = {}
  /\ tts = [epoch |-> 0, action |-> 0, active |-> FALSE]
  /\ agent = [e \in Presses |-> "unasked"]

-------------------------------------------------------------------------------
(* The button.                                                             *)

Known(id) == \E i \in DOMAIN heard : heard[i] = id
Current(id) == press # Nobody /\ press.id = id

\* begin(): one capture at a time. A capture that ended by itself and was not
\* released is dropped.
Droppable ==
  press # Nobody => press.worker # "recording" /\ press.finishing = "no"
Begin(id) ==
  /\ ~Replayed(id) /\ ~Current(id) /\ ~Known(id) /\ Droppable
  /\ press' = [id |-> id, worker |-> "recording", button |-> TRUE, finishing |-> "no"]
  /\ UNCHANGED <<heard, spoken, released, voice, peers>>

\* The device thread ends after the release, at its limit, or with an error.
Captured ==
  /\ press # Nobody /\ press.worker = "recording"
  /\ \E how \in {"text", "nothing", "failed"} :
       /\ press.button => how # "text"
       /\ press' = [press EXCEPT !.worker = how]
  /\ UNCHANGED <<heard, spoken, released, voice, peers>>

\* end(): recognition starts once.
End(id) ==
  /\ Current(id) /\ ~Known(id) /\ press.finishing = "no"
  /\ press' = [press EXCEPT !.button = FALSE, !.finishing = "waiting"]
  /\ released' = released \cup {id}
  /\ UNCHANGED <<heard, spoken, voice, peers>>

\* _recognize: the capture has ended; only the two kinds of stop are forwarded.
Recognize ==
  /\ press # Nobody /\ press.finishing = "waiting" /\ press.worker # "recording"
  /\ IF press.worker = "text" /\ Stops(press.id)
     THEN /\ press' = [press EXCEPT !.finishing = "forwarding"]
          /\ spoken' = spoken \cup {press.id}
          /\ UNCHANGED heard
     ELSE /\ press' = Nobody
          /\ heard' = IF Len(heard) < CaptureHistory THEN Append(heard, press.id)
                      ELSE Append(Tail(heard), press.id)
          /\ spoken' = IF press.worker = "text" THEN spoken \cup {press.id} ELSE spoken
  /\ UNCHANGED <<released, voice, peers>>

\* The voice node answered, or it did not: "voice_unconfirmed".
Forwarded ==
  /\ press # Nobody /\ press.finishing = "forwarding"
  /\ press' = Nobody
  /\ heard' = IF Len(heard) < CaptureHistory THEN Append(heard, press.id)
              ELSE Append(Tail(heard), press.id)
  /\ UNCHANGED <<spoken, released, voice, peers>>

-------------------------------------------------------------------------------
(* The voice node.                                                         *)

\* _handle: a delivery, the first or a repeated one, from the recognition node
\* or from the caller that has the text.
Handle(e) ==
  /\ e \in spoken \/ Replayed(e)
  /\ record[e].stage = "idle" /\ record[e].state # "CONFIRMED"
  /\ \/ record[e].state # "absent"
     \/ Cardinality({d \in Presses : record[d].state # "absent"}) < EventCapacity
  /\ record' = [record EXCEPT
       ![e].state = IF Intent[e] = "ignore" THEN "CONFIRMED" ELSE "PENDING",
       ![e].stage = CASE Intent[e] = "stop" -> "interrupting"
                      [] Intent[e] \in {"hush", "hold", "barge_in"} -> "binding"
                      [] Intent[e] \in {"goal", "append"} -> "delivering"
                      [] OTHER -> "idle",
       ![e].agentFailed = FALSE]
  /\ UNCHANGED <<asr, first, quiet, peers>>

\* _execute ends. A refusal of what was said is an unknown outcome
\* (_dispatch_text); that of an interaction is final (_dispatch).
\* Fault: every result counts as confirmed.
Ends_confirmed(e, phase) == [record EXCEPT ![e].stage = "idle", ![e].state = "CONFIRMED"]
Ends(e, phase) ==
  LET accepted == phase = "STOPPED" /\ ~record[e].agentFailed
      final == accepted \/ (phase = "REJECTED" /\ Replayed(e))
  IN [record EXCEPT ![e].stage = "idle", ![e].accepted = accepted,
        ![e].state = IF final THEN "CONFIRMED" ELSE "UNKNOWN"]

\* _stop_current: the agent interrupts its task, or has none; it answers a
\* repeated id alike. Half a second without an answer, and the robot is held
\* all the same, but nothing is confirmed.
Interrupt(e) ==
  /\ record[e].stage = "interrupting"
  /\ \/ /\ \E found \in {"task", "idle"} :
             /\ agent[e] \in {"unasked", found}
             /\ agent' = [agent EXCEPT ![e] = found]
        /\ \/ /\ agent'[e] = "task"
              /\ \E phase \in {"STOPPED", "UNKNOWN"} : record' = Ends(e, phase)
           \/ /\ agent'[e] = "idle"
              /\ record' = [record EXCEPT ![e].stage = "binding"]
           \/ record' = [record EXCEPT ![e].stage = "binding", ![e].agentFailed = TRUE]
     \/ /\ record' = [record EXCEPT ![e].stage = "binding", ![e].agentFailed = TRUE]
        /\ UNCHANGED agent
  /\ UNCHANGED <<asr, first, quiet, epoch, held, tts, holds>>

\* _stop_node: the snapshot of the robot, or of the TTS node, is bound to the event
\* once. Where no utterance is active, there is none to cancel.
Seen(e) == IF ToSpeech(e) THEN [epoch |-> tts.epoch, action |-> tts.action]
           ELSE [epoch |-> epoch, action |-> 0]
\* Fault: a repeated stop is bound again.
Unbound_again(e) == TRUE
Unbound(e) == record[e].bound = Nobody
Silent(e) == ToSpeech(e) /\ Unbound(e) /\ ~tts.active
Bind(e) ==
  /\ record[e].stage = "binding"
  /\ \/ /\ ~Silent(e)
        /\ record' = [record EXCEPT ![e].stage = "holding",
                        ![e].bound = IF Unbound(e) THEN Seen(e) ELSE @]
        /\ first' = [first EXCEPT ![e] = IF @ = Nobody THEN Seen(e) ELSE @]
        /\ UNCHANGED quiet
     \/ /\ Silent(e) /\ quiet' = quiet \cup {e}
        /\ record' = Ends(e, "STOPPED") /\ UNCHANGED first
     \/ Unbound(e) /\ record' = Ends(e, "UNKNOWN") /\ UNCHANGED <<first, quiet>>
  /\ UNCHANGED <<asr, peers>>

\* A node carries a request out once, in no other epoch than it names and on no
\* other utterance.
Stopped(e) == \E t \in Times : <<e, t>> \in holds
\* Fault: whatever is being said is cancelled.
Effective_any(e) == record[e].bound.epoch = Seen(e).epoch /\ (ToSpeech(e) => tts.active) /\ ~Stopped(e)
Effective(e) == record[e].bound = Seen(e) /\ (ToSpeech(e) => tts.active) /\ ~Stopped(e)

\* It is refused for its epoch, for its utterance, or because too many controls are
\* kept, each of which ended an epoch; after it was carried out, only by a later process.
Refusable(e) ==
  /\ ~Effective(e) \/ Seen(e).epoch >= ControlCapacity
  /\ \A t \in Times : <<e, t>> \in holds => t.epoch + 1 < Seen(e).epoch

\* The request reaches its node, or it does not; it is carried out, refused, or
\* answered as it was before; the answer arrives, or it does not.
Hold(e) ==
  /\ record[e].stage = "holding"
  /\ \/ /\ Effective(e) /\ Seen(e).epoch < MaxEpoch
        /\ IF ToSpeech(e) THEN tts' = [tts EXCEPT !.epoch = @ + 1] /\ UNCHANGED <<epoch, held>>
           ELSE epoch' = epoch + 1 /\ held' = TRUE /\ UNCHANGED tts
        /\ holds' = holds \cup {<<e, Seen(e)>>}
        /\ \E phase \in {"STOPPED", "UNKNOWN"} : record' = Ends(e, phase)
     \/ /\ \/ Stopped(e) /\ record' = Ends(e, "STOPPED")
           \/ Refusable(e) /\ record' = Ends(e, "REJECTED")
           \/ record' = Ends(e, "UNKNOWN")
        /\ UNCHANGED <<epoch, held, tts, holds>>
  /\ UNCHANGED <<asr, first, quiet, agent>>

\* A goal is delivered to the agent, which plans a request id once; so are a query
\* and a replayed plan that is to be enqueued.
Deliver(e) ==
  /\ record[e].stage = "delivering"
  /\ \E phase \in {"STOPPED", "UNKNOWN"} : record' = Ends(e, phase)
  /\ UNCHANGED <<asr, first, quiet, peers>>

\* External: somebody else holds the robot, or opens its gate again, or it is
\* restarted.
Reopen ==
  /\ epoch < MaxEpoch /\ epoch' = epoch + 1
  /\ held' \in IF held THEN BOOLEAN ELSE {TRUE}
  /\ UNCHANGED <<asr, voice, tts, holds, agent>>

\* External: an utterance begins or ends, or somebody else cancels it, or the TTS
\* node is restarted.
Talk ==
  /\ \/ ~tts.active /\ tts.action < MaxEpoch
        /\ tts' = [tts EXCEPT !.action = @ + 1, !.active = TRUE]
     \/ tts.active /\ tts' = [tts EXCEPT !.active = FALSE]
     \/ /\ tts.epoch < MaxEpoch
        /\ \E active \in {tts.active, FALSE} :
             tts' = [tts EXCEPT !.epoch = @ + 1, !.active = active]
  /\ UNCHANGED <<asr, voice, epoch, held, holds, agent>>

Next ==
  \/ \E id \in Presses : Begin(id) \/ End(id)
  \/ Captured \/ Recognize \/ Forwarded
  \/ \E e \in Presses : Handle(e) \/ Interrupt(e) \/ Bind(e) \/ Hold(e) \/ Deliver(e)
  \/ Reopen \/ (Talk /\ \E e \in Presses : ToSpeech(e))

-------------------------------------------------------------------------------
\* A repeated stop stops nothing that was started after the operator's first
\* one was bound to its node: the robot holds at most once for it, in the epoch
\* of the first snapshot, and the TTS node cancels no other utterance than the one
\* that was active then, although the first delivery may have been lost, the gate
\* opened and another utterance begun since (voice/node.py, _stop_node).
RepeatsStopNothingNew ==
  \A e \in Presses : \A s, t \in Times :
    <<e, s>> \in holds => s = first[e] /\ (<<e, t>> \in holds => s = t)

\* A stop is recorded as confirmed only when its node has carried it out, had
\* nothing to cancel, or the agent has interrupted its task (voice/node.py,
\* _stop_current, _stop_node). The one exception is a replayed stop that was refused:
\* it is recorded as confirmed as well, with a result that does not say "accepted"
\* (voice/node.py:87). And only the text of a press that was released
\* while it was the current one is ever delivered: "drop it, never send it late"
\* (asr/node.py:96).
ConfirmedStopsStopped ==
  \A e \in Presses :
    /\ Stops(e) /\ record[e].state = "CONFIRMED" /\ (record[e].accepted \/ ~Replayed(e)) =>
         agent[e] = "task" \/ Stopped(e) \/ e \in quiet
    /\ record[e].state # "absent" => e \in released \/ Replayed(e)
===============================================================================
