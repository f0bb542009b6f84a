------------------------------ MODULE VisionResults ------------------------------
(***************************************************************************)
(* What the detector saw last (nodes/vision/node.py): a loop reads the     *)
(* camera's newest frame, detects in a worker thread, and keeps the result *)
(* and, of the last two, the picture. The camera may start over meanwhile. *)
(***************************************************************************)
EXTENDS Naturals, Sequences

CONSTANTS
  FrameCapacity,   \* pictures kept, 2 in the code
  ResultCapacity,  \* results kept, 8 in the code
  MaxStarts,       \* bound: streams of the camera
  MaxShots,        \* bound: frames of a stream
  Unseen           \* no frame

VARIABLES
  shot,       \* the camera's newest frame
  round,      \* where _observe is
  input,      \* the frame it has read
  previous,   \* the frame of the last result
  newest,     \* state.latest, by its frame
  ready,      \* state.health
  pictures,   \* frames, oldest first
  results     \* results, oldest first

vars == <<shot, round, input, previous, newest, ready, pictures, results>>

Shots == [stream : 1..MaxStarts, number : 1..MaxShots]

TypeOK ==
  /\ shot \in Shots /\ round \in {"reading", "detecting"}
  /\ {input, previous, newest} \subseteq Shots \cup {Unseen} /\ ready \in BOOLEAN
  /\ pictures \in Seq(Shots) /\ Len(pictures) <= FrameCapacity
  /\ results \in Seq(Shots) /\ Len(results) <= ResultCapacity

Init ==
  /\ shot = [stream |-> 1, number |-> 1] /\ round = "reading" /\ input = Unseen
  /\ previous = Unseen /\ newest = Unseen /\ ready = FALSE
  /\ pictures = <<>> /\ results = <<>>

Kept == <<previous, newest, ready, pictures, results>>

\* The camera takes a picture, or starts over with a stream of its own.
Shoot ==
  /\ shot.number < MaxShots /\ shot' = [shot EXCEPT !.number = @ + 1]
  /\ UNCHANGED <<round, input, Kept>>
StartOver ==
  /\ shot.stream < MaxStarts /\ shot' = [stream |-> shot.stream + 1, number |-> 1]
  /\ UNCHANGED <<round, input, Kept>>

\* A frame seen before gives no new result.
ReadFrame ==
  /\ round = "reading" /\ shot # previous
  /\ input' = shot /\ round' = "detecting"
  /\ UNCHANGED <<shot, Kept>>

\* The camera does not answer, its frame is too old, or the detection fails.
\* Fault: the pictures stay.
Forgotten_not == pictures
Forgotten == <<>>
RoundFails ==
  /\ round' = "reading" /\ newest' = Unseen /\ ready' = FALSE /\ pictures' = Forgotten
  /\ UNCHANGED <<shot, input, previous, results>>

Newest(s, n) == IF Len(s) <= n THEN s ELSE SubSeq(s, Len(s) - n + 1, Len(s))

\* retain_frame: of this stream only, and the two newest.
\* Fault: pictures of the stream before stay.
SameStream_any(p) == TRUE
SameStream(p) == p.stream = input.stream
OfStream ==
  LET upto[i \in 0..Len(pictures)] ==
        IF i = 0 THEN <<>>
        ELSE IF SameStream(pictures[i]) THEN Append(upto[i - 1], pictures[i]) ELSE upto[i - 1]
  IN upto[Len(pictures)]
Retained == Newest(Append(OfStream, input), FrameCapacity)
Detected ==
  /\ round = "detecting" /\ round' = "reading"
  /\ newest' = input /\ ready' = TRUE /\ previous' = input
  /\ results' = Newest(Append(results, input), ResultCapacity)
  /\ pictures' = Retained
  /\ UNCHANGED <<shot, input>>

\* Two seconds old, to the loop or to a reader who asks for it.
Expire ==
  /\ pictures # <<>> /\ pictures' = Tail(pictures)
  /\ UNCHANGED <<shot, round, input, previous, newest, ready, results>>

Next ==
  \/ Shoot \/ StartOver \/ ReadFrame \/ RoundFails \/ Detected \/ Expire
Spec == Init /\ [][Next]_vars

-------------------------------------------------------------------------------
\* However the camera's restarts and failures fall into the rounds, the pictures
\* that can be read are of the stream of the latest result, in its order, and of
\* results that can be read too; without a latest result there is none
\* (vision/node.py, retain_frame and _observe: "A camera restart must not leave
\* images from the preceding stream readable").
FramesAreLive ==
  /\ ready <=> newest # Unseen
  /\ \A i \in DOMAIN pictures :
       /\ ready /\ pictures[i].stream = newest.stream
       /\ \E j \in DOMAIN results : results[j] = pictures[i]
  /\ \A i, j \in DOMAIN pictures : i < j => pictures[i].number < pictures[j].number
===============================================================================
