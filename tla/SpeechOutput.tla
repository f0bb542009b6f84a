----------------------------- MODULE SpeechOutput -----------------------------
(***************************************************************************)
(* One utterance after another on the loudspeaker (nodes/tts/backend.py).  *)
(* The handler is a coroutine; synthesis and playback run in a worker      *)
(* thread each, which reads the threading event `stopped`. The executor    *)
(* sets its asyncio event `stop`; a relay task hands it on later. The      *)
(* coroutine may be cancelled, which does not stop a thread.               *)
(***************************************************************************)
EXTENDS Naturals

CONSTANTS
  Utterances,  \* bound: the actions, one after another
  Blocks       \* bound: the blocks of an utterance, 20 ms each in the code

VARIABLES
  stop,        \* the executor's event
  stopped,     \* the event of the worker threads
  handler,     \* where speak() is, or how it ended
  cancelled,   \* how often the coroutine was cancelled
  thread,      \* what the worker thread does, or what it returned
  block,       \* blocks written
  stream,      \* the audio device: closed, playing, or silent but not closed
  completed,   \* state.completed
  utterance,   \* how many actions have begun
  drained      \* history: utterances that were heard to their end

vars == <<stop, stopped, handler, cancelled, thread, block, stream, completed, utterance, drained>>

Settled == {"idle", "true", "false", "failed", "cancelled"}
Ends == Settled \cup {"unknown", "abandoned"}
Returned == {"audio", "nothing", "failed", "played", "silenced", "doubtful"}

TypeOK ==
  /\ {stop, stopped} \subseteq BOOLEAN
  /\ handler \in Ends \cup {"synthesizing", "playing", "unwinding"}
  /\ cancelled \in 0..2 /\ block \in 0..Blocks
  /\ thread \in {"none", "render", "open", "write", "abort", "drain", "close"} \cup Returned
  /\ stream \in {"closed", "playing", "silent"}
  /\ {completed, utterance, drained} \subseteq 0..Utterances

Init ==
  /\ stop = FALSE /\ stopped = FALSE /\ handler = "idle" /\ cancelled = 0
  /\ thread = "none" /\ block = 0 /\ stream = "closed"
  /\ completed = 0 /\ utterance = 0 /\ drained = 0

-------------------------------------------------------------------------------
(* The executor and the relay.                                             *)

\* An action begins when the one before has settled.
Speak ==
  /\ handler \in Settled \ {"cancelled"} /\ utterance < Utterances
  /\ \E early \in BOOLEAN :   \* stop.is_set() at entry
       /\ stop' = early
       /\ handler' = IF early THEN "false" ELSE "synthesizing"
       /\ thread' = IF early THEN "none" ELSE "render"
  /\ stopped' = FALSE /\ cancelled' = 0 /\ block' = 0
  /\ utterance' = utterance + 1
  /\ UNCHANGED <<stream, completed, drained>>

Running == handler \in {"synthesizing", "playing", "unwinding"}
SetStop ==
  /\ Running /\ ~stop /\ stop' = TRUE
  /\ UNCHANGED <<stopped, handler, cancelled, thread, block, stream, completed, utterance, drained>>
Relay ==
  /\ Running /\ stop /\ ~stopped /\ stopped' = TRUE
  /\ UNCHANGED <<stop, handler, cancelled, thread, block, stream, completed, utterance, drained>>

\* A cancelled coroutine waits for its thread; cancelled again, it does not.
\* Fault: it does not wait.
Unwinding_at_once == "cancelled"
Unwinding == IF cancelled = 0 THEN "unwinding" ELSE "abandoned"
CancelCoroutine ==
  /\ Running /\ cancelled < 2
  /\ cancelled' = cancelled + 1 /\ stopped' = TRUE
  /\ handler' = Unwinding
  /\ UNCHANGED <<stop, thread, block, stream, completed, utterance, drained>>

-------------------------------------------------------------------------------
(* speak, after the await of a worker.                                     *)

Unwound ==
  /\ handler = "unwinding" /\ thread \in Returned
  /\ handler' = CASE thread = "failed" -> "failed" [] thread = "doubtful" -> "unknown"
                  [] OTHER -> "cancelled"
  /\ UNCHANGED <<stop, stopped, cancelled, thread, block, stream, completed, utterance, drained>>

Synthesized ==
  /\ handler = "synthesizing" /\ thread \in Returned
  /\ IF thread = "audio" /\ ~stop /\ ~stopped
     THEN handler' = "playing" /\ thread' = "open" /\ UNCHANGED stopped
     ELSE /\ handler' = IF thread = "failed" THEN "failed" ELSE "false"
          /\ stopped' = (stopped \/ (stop /\ thread # "failed"))
          /\ UNCHANGED thread
  /\ UNCHANGED <<stop, cancelled, block, stream, completed, utterance, drained>>

\* Fault: what was stopped after its last block counts as spoken.
Spoken_anyway == thread \in {"played", "silenced"}
Spoken == thread = "played" /\ ~stop
Played ==
  /\ handler = "playing" /\ thread \in Returned
  /\ handler' = CASE thread = "failed" -> "failed" [] thread = "doubtful" -> "unknown"
                  [] Spoken -> "true"
                  [] OTHER -> "false"
  /\ completed' = IF handler' = "true" THEN completed + 1 ELSE completed
  /\ UNCHANGED <<stop, stopped, cancelled, thread, block, stream, utterance, drained>>

-------------------------------------------------------------------------------
(* The threads: render (qwen.py) and play_audio.                           *)

Frame == <<stop, stopped, handler, cancelled, completed, utterance>>

\* A renderer looks at the event between chunks; prepared phrases come from
\* the cache.
Render ==
  /\ thread = "render"
  /\ thread' \in {"audio", "nothing", "failed"}
  /\ UNCHANGED <<block, stream, drained, Frame>>

\* Unusable audio is refused before the device is opened. A device that fails
\* is aborted and closed.
Open ==
  /\ thread = "open"
  /\ \/ thread' = "failed" /\ UNCHANGED stream
     \/ stopped /\ thread' = "silenced" /\ UNCHANGED stream
     \/ /\ ~stopped
        /\ \/ thread' = "write" /\ stream' = "playing"
           \/ thread' = "doubtful" /\ stream' \in {"closed", "playing"}
  /\ UNCHANGED <<block, drained, Frame>>

\* A failure is followed by abort and close, and either may fail again.
Fails == thread' = "doubtful" /\ stream' \in {"closed", "silent", "playing"}

Write ==
  /\ thread = "write"
  /\ \/ stopped /\ thread' = "abort" /\ UNCHANGED <<block, stream>>
     \/ /\ ~stopped /\ block < Blocks
        /\ \/ block' = block + 1 /\ UNCHANGED <<thread, stream>>
           \/ Fails /\ UNCHANGED block
     \/ ~stopped /\ block = Blocks /\ thread' = "drain" /\ UNCHANGED <<block, stream>>
  /\ UNCHANGED <<drained, Frame>>

\* stream.abort, then stream.close.
\* Fault: the device is left to play what it has.
Silenced_later == "playing"
Silenced == "silent"
Abort ==
  /\ thread = "abort"
  /\ \/ thread' = "close" /\ stream' = Silenced
     \/ Fails
  /\ UNCHANGED <<block, drained, Frame>>

\* stream.stop waits for the last block.
Drain ==
  /\ thread = "drain"
  /\ \/ thread' = "close" /\ stream' = "silent" /\ drained' = drained + 1
     \/ Fails /\ UNCHANGED drained
  /\ UNCHANGED <<block, Frame>>

Closes ==
  /\ thread = "close"
  /\ \/ /\ stream' = IF stream = "silent" THEN "closed" ELSE stream
        /\ thread' = IF block = Blocks /\ ~stopped THEN "played" ELSE "silenced"
     \/ thread' = "doubtful" /\ UNCHANGED stream
  /\ UNCHANGED <<block, drained, Frame>>

Next ==
  \/ Speak \/ SetStop \/ Relay \/ CancelCoroutine \/ Unwound \/ Synthesized \/ Played
  \/ Render \/ Open \/ Write \/ Abort \/ Drain \/ Closes

Spec == Init /\ [][Next]_vars

-------------------------------------------------------------------------------
\* Whatever the moment of the stop or of the cancel, between the end of the
\* synthesis and the start of the playback or after the last block, an
\* utterance that ended with a definite result plays nothing any more, no
\* thread of it runs, and every one that counts as spoken was heard to its end
\* (tts/backend.py, speak and play_audio). Only an outcome recorded as UNKNOWN
\* may leave a device playing, and then nothing else begins.
SilentWhenSettled ==
  /\ handler \in Settled => stream = "closed" /\ thread \in Returned \cup {"none"}
  /\ completed <= drained
===============================================================================
