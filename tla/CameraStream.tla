------------------------------ MODULE CameraStream ------------------------------
(***************************************************************************)
(* Frames from a device thread to the readers (nodes/camera/node.py,       *)
(* frames.py). The capture thread opens the device, reads, and starts over *)
(* after a failure; each opening is a stream of its own. It leaves its     *)
(* latest item for the loop, which keeps the last frames of the stream.    *)
(* Time passes by expiring the oldest frames.                              *)
(***************************************************************************)
EXTENDS Naturals, Sequences

CONSTANTS
  Capacity,    \* 2 in the code
  MaxStreams,  \* bound: openings of the device
  MaxFrames,   \* bound: frames of a stream
  Broken,      \* the item of a disconnected camera
  Nothing      \* no item

VARIABLES
  capture,   \* the device thread: opening, reading, failed, paused or ended
  stream,    \* the stream it reads, as the number of the opening
  taken,     \* frames read from it
  pending,   \* _pending: Nothing, Broken, or a frame
  notified,  \* _notified
  calling,   \* _changed.set() is scheduled on the loop
  changed,   \* _changed is set
  frames,    \* cache.frames, oldest first
  current,   \* stream_id of the loop
  health,
  stopping,  \* _stop
  closed,    \* _close_capture has returned, or raised
  seen       \* history: the newest stream whose item the loop has taken

handoff == <<pending, notified, calling, changed>>
device == <<capture, stream, taken>>
view == <<frames, current, health, seen>>
vars == <<device, handoff, view, stopping, closed>>

Frames == [stream : 1..MaxStreams, number : 1..MaxFrames]

TypeOK ==
  /\ capture \in {"opening", "reading", "failed", "paused", "ended"}
  /\ stream \in 0..MaxStreams /\ taken \in 0..MaxFrames
  /\ pending \in Frames \cup {Nothing, Broken}
  /\ {notified, calling, changed, stopping} \subseteq BOOLEAN
  /\ frames \in Seq(Frames) /\ Len(frames) <= Capacity
  /\ current \in 0..MaxStreams /\ seen \in 0..MaxStreams
  /\ health \in {"connecting", "ready", "disconnected"}
  /\ closed \in {"no", "yes", "failed"}

Init ==
  /\ capture = "opening" /\ stream = 0 /\ taken = 0
  /\ pending = Nothing /\ notified = FALSE /\ calling = FALSE /\ changed = FALSE
  /\ frames = <<>> /\ current = 0 /\ health = "connecting" /\ seen = 0
  /\ stopping = FALSE /\ closed = "no"

-------------------------------------------------------------------------------
(* The device thread.                                                      *)

\* _offer: an item that was not taken is replaced.
Offer(item) ==
  /\ pending' = item /\ notified' = TRUE
  /\ calling' = (calling \/ ~notified)
  /\ UNCHANGED changed

Open ==
  /\ capture = "opening" /\ stream < MaxStreams
  /\ \/ /\ stopping /\ capture' = "ended" /\ UNCHANGED <<stream, taken, handoff>>
     \/ /\ ~stopping /\ capture' = "reading" /\ stream' = stream + 1 /\ taken' = 0
        /\ UNCHANGED handoff
     \/ ~stopping /\ capture' = "failed" /\ Offer(Broken) /\ UNCHANGED <<stream, taken>>
  /\ UNCHANGED <<view, stopping, closed>>

Read ==
  /\ capture = "reading"
  /\ \/ /\ stopping /\ capture' = "paused" /\ UNCHANGED <<taken, handoff>>
     \/ /\ taken < MaxFrames /\ taken' = taken + 1
        /\ Offer([stream |-> stream, number |-> taken + 1]) /\ UNCHANGED capture
     \/ capture' = "failed" /\ Offer(Broken) /\ UNCHANGED taken
  /\ UNCHANGED <<stream, view, stopping, closed>>

\* The driver is closed, which may fail too; a missing library ends the thread.
CloseDriver ==
  /\ capture = "failed" /\ capture' \in {"paused", "ended"}
  /\ UNCHANGED handoff \/ Offer(Broken)
  /\ UNCHANGED <<stream, taken, view, stopping, closed>>
Resume ==
  /\ capture = "paused" /\ capture' = IF stopping THEN "ended" ELSE "opening"
  /\ UNCHANGED <<stream, taken, handoff, view, stopping, closed>>

-------------------------------------------------------------------------------
(* The loop. Its pump is cancelled before the camera is closed.            *)

Called ==
  /\ calling /\ calling' = FALSE /\ changed' = TRUE
  /\ UNCHANGED <<device, pending, notified, view, stopping, closed>>

\* cache.put: at its capacity the oldest frame makes room.
\* Fault: it makes room too late.
Kept_all(old, frame) ==
  IF Len(old) <= Capacity THEN Append(old, frame) ELSE Append(Tail(old), frame)
Kept(old, frame) ==
  IF Len(old) < Capacity THEN Append(old, frame) ELSE Append(Tail(old), frame)

\* Fault: frames of the stream before stay readable.
StreamChanged_not(item) == FALSE
StreamChanged(item) == item.stream # current

\* Fault: the flag stays up until the next item is offered.
Taken_late == pending' = Nothing /\ changed' = FALSE /\ UNCHANGED <<notified, calling>>
Taken == pending' = Nothing /\ changed' = FALSE /\ notified' = FALSE /\ UNCHANGED calling

Pump ==
  /\ ~stopping /\ changed /\ Taken
  /\ IF pending \in Frames
     THEN /\ frames' = Kept(IF StreamChanged(pending) THEN <<>> ELSE frames, pending)
          /\ current' = pending.stream /\ health' = "ready" /\ seen' = pending.stream
     ELSE frames' = <<>> /\ health' = "disconnected" /\ UNCHANGED <<current, seen>>
  /\ UNCHANGED <<device, stopping, closed>>

\* The oldest frame is older than 5 s.
Expire ==
  /\ frames # <<>> /\ frames' = Tail(frames)
  /\ UNCHANGED <<device, handoff, current, health, seen, stopping, closed>>

\* _close_capture waits three seconds for the thread.
Stop ==
  /\ ~stopping /\ stopping' = TRUE
  /\ UNCHANGED <<device, handoff, view, closed>>
Close ==
  /\ stopping /\ closed = "no"
  /\ closed' = IF capture = "ended" THEN "yes" ELSE "failed"
  /\ frames' = <<>>
  /\ UNCHANGED <<device, handoff, current, health, seen, stopping>>

Next ==
  \/ Open \/ Read \/ CloseDriver \/ Resume
  \/ Called \/ Pump \/ Expire \/ Stop \/ Close

Spec == Init /\ [][Next]_vars

-------------------------------------------------------------------------------
\* Whatever the two threads do, an item waits for the loop only with a wakeup
\* on its way, and the loop is never woken for none; and what can be read is
\* of one stream, in its order, the newest of which the loop has heard: the
\* report of a lost camera may be replaced before it is seen, and the frames
\* before it are gone all the same (camera/node.py, _offer and _pump).
FramesAreLive ==
  /\ pending # Nothing <=> changed \/ calling
  /\ \A i \in DOMAIN frames : frames[i].stream = seen
  /\ \A i, j \in DOMAIN frames : i < j => frames[i].number < frames[j].number
  /\ health = "disconnected" => frames = <<>>
===============================================================================
