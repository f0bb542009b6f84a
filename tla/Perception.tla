------------------------------- MODULE Perception -------------------------------
(***************************************************************************)
(* Results of the perception nodes and those who use them: the location of *)
(* an object (nodes/vision), its mask (nodes/segmentation), the grasps on  *)
(* it (nodes/grasp), the virtual robot that executes one                   *)
(* (env/wrs_grasp.py) and the preview that shows them (camera/preview.py). *)
(* A node keeps a result for a while (vision/artifacts.py). A stop of the  *)
(* node or its restart revokes what it made: a control epoch and a boot    *)
(* are one number here. Readers ask the node, over calls that can fail. A  *)
(* reference carries the task of the result; others are refused and left   *)
(* out, and so are the times: a result may expire whenever it is kept. The *)
(* robot and the preview only read, so one of them is there at a time.     *)
(***************************************************************************)
EXTENDS Naturals, Sequences

CONSTANTS
  Capacity,      \* results a node keeps, 2 in the code
  MaxResults,    \* bound: results a node makes
  MaxRevoked,    \* bound: stops and restarts of all nodes
  Boxed          \* the mask is cut from a location, not from the camera

VARIABLES
  epoch,   \* of each node: a stop or a restart raises it
  run,     \* the action of each node
  cache,   \* cache.entries of each node, oldest first
  latest,  \* latest_request of each node, 0 for none
  made,    \* for each node, the source of every result it made
  call,    \* the request of each reader
  robot,   \* the virtual robot's grasp action
  view,    \* the preview's update
  shown    \* the result each panel shows, 0 for none

vars == <<epoch, run, cache, latest, made, call, robot, view, shown>>

Nodes == {"vision", "segment", "grasp"}
Source == [vision |-> "camera",
           segment |-> IF Boxed THEN "vision" ELSE "camera",
           grasp |-> "segment"]
Readers == {"segment", "grasp", "robot", "view"}
Ids == 0..MaxResults

\* Nobody reads a location when the mask is cut from the camera.
InUse == {n \in Nodes : n = "vision" => Boxed}

NoRun == [pc |-> "idle", epoch |-> 0, source |-> 0]
NoCall == [pc |-> "none", of |-> "none", node |-> "vision", id |-> 0]
NoMotion == [pc |-> "idle", id |-> 0, fresh |-> FALSE]
NoUpdate == [pc |-> "idle", node |-> "segment", id |-> 0, fresh |-> FALSE]

Entries == [id : Ids, epoch : 0..MaxRevoked, succeeded : BOOLEAN]

TypeOK ==
  /\ epoch \in [Nodes -> 0..MaxRevoked]
  /\ run \in [Nodes -> [pc : {"idle", "reading", "inferring", "inferred", "checked"},
                        epoch : 0..MaxRevoked, source : Ids]]
  /\ \A n \in Nodes : cache[n] \in Seq(Entries) /\ Len(cache[n]) <= Capacity
  /\ latest \in [Nodes -> Ids]
  /\ \A n \in Nodes : made[n] \in Seq(Ids) /\ Len(made[n]) <= MaxResults
  /\ call \in [Readers -> [pc : {"none", "asked", "got", "checked", "replied", "failed"},
                           of : {"none", "data", "latest"}, node : Nodes, id : Ids]]
  /\ robot \in [pc : {"absent", "idle", "reading", "planning", "rereading", "moving"},
                id : Ids, fresh : BOOLEAN]
  /\ view \in [pc : {"absent", "idle", "asking", "reading", "encoding", "confirming"},
               node : {"segment", "grasp"}, id : Ids, fresh : BOOLEAN]
  /\ shown \in [{"segment", "grasp"} -> Ids]

Init ==
  /\ epoch = [n \in Nodes |-> 0] /\ run = [n \in Nodes |-> NoRun]
  /\ cache = [n \in Nodes |-> <<>>] /\ latest = [n \in Nodes |-> 0]
  /\ made = [n \in Nodes |-> <<>>] /\ call = [r \in Readers |-> NoCall]
  /\ \/ robot = NoMotion /\ view = [NoUpdate EXCEPT !.pc = "absent"]
     \/ robot = [NoMotion EXCEPT !.pc = "absent"] /\ view = NoUpdate
  /\ shown = [n \in {"segment", "grasp"} |-> 0]

\* ArtifactCache.get: kept, of this boot and epoch, of an action that succeeded.
Valid(n, id) ==
  \E i \in DOMAIN cache[n] :
    LET e == cache[n][i] IN e.id = id /\ e.epoch = epoch[n] /\ e.succeeded

\* Of a result with the mask it was made from, as _check_segment sees it.
ValidWithSource(n, id) ==
  Valid(n, id) /\ (n = "grasp" => Valid("segment", made[n][id]))

Ask(r, of, node, id) ==
  call' = [call EXCEPT ![r] = [pc |-> "asked", of |-> of, node |-> node, id |-> id]]
Drop(r) == call' = [call EXCEPT ![r] = NoCall]
Became(r, pc) == call' = [call EXCEPT ![r].pc = pc]

-------------------------------------------------------------------------------
(* The nodes.                                                              *)

\* locate, segment and infer: the last result of an earlier action is no longer
\* announced, and the grasp node forgets its own.
Begin(n) ==
  /\ run[n].pc = "idle" /\ Len(made[n]) < MaxResults
  /\ \E id \in IF Source[n] = "camera" THEN {0} ELSE DOMAIN made[Source[n]] :
       /\ run' = [run EXCEPT ![n] =
            [pc |-> IF Source[n] = "camera" THEN "inferring" ELSE "reading",
             epoch |-> epoch[n], source |-> id]]
       /\ IF Source[n] = "camera" THEN UNCHANGED call ELSE Ask(n, "data", Source[n], id)
  /\ latest' = [latest EXCEPT ![n] = 0]
  /\ cache' = IF n = "grasp" THEN [cache EXCEPT ![n] = <<>>] ELSE cache
  /\ UNCHANGED <<epoch, made, robot, view, shown>>

\* stop.is_set()
Stopped(n) == run[n].epoch # epoch[n]

SourceRead(n) ==
  /\ run[n].pc = "reading" /\ call[n].pc \in {"replied", "failed"}
  /\ run' = [run EXCEPT ![n] =
               IF call[n].pc = "failed" \/ Stopped(n) THEN NoRun ELSE [@ EXCEPT !.pc = "inferring"]]
  /\ Drop(n)
  /\ UNCHANGED <<epoch, cache, latest, made, robot, view, shown>>

\* cache.put, and then the action succeeds unless it was stopped.
Put(n) ==
  LET id == Len(made[n]) + 1
      entry == [id |-> id, epoch |-> run[n].epoch, succeeded |-> ~Stopped(n)] IN
  /\ cache' = [cache EXCEPT ![n] =
                 Append(IF Len(@) < Capacity THEN @ ELSE Tail(@), entry)]
  /\ made' = [made EXCEPT ![n] = Append(@, run[n].source)]
  /\ latest' = [latest EXCEPT ![n] = IF n = "vision" THEN 0 ELSE id]
  /\ run' = [run EXCEPT ![n] = NoRun]

\* The model's thread ends, with an error, for nothing, or with a result.
Inferred(n) ==
  /\ run[n].pc = "inferring"
  /\ UNCHANGED <<epoch, call, robot, view, shown>>
Fails(n) == run' = [run EXCEPT ![n] = NoRun] /\ UNCHANGED <<cache, latest, made>>

Located == Inferred("vision") /\ (Fails("vision") \/ (~Stopped("vision") /\ Put("vision")))
Segmented == Inferred("segment") /\ (Fails("segment") \/ (~Stopped("segment") /\ Put("segment")))
GraspsInferred ==
  /\ Inferred("grasp")
  /\ \/ Fails("grasp")
     \/ /\ ~Stopped("grasp") /\ run' = [run EXCEPT !["grasp"].pc = "inferred"]
        /\ UNCHANGED <<cache, latest, made>>

\* The grasp node asks whether the mask still stands.
CheckSegment ==
  /\ run["grasp"].pc = "inferred"
  /\ run' = [run EXCEPT !["grasp"] =
               IF Valid("segment", @.source) THEN [@ EXCEPT !.pc = "checked"] ELSE NoRun]
  /\ UNCHANGED <<epoch, cache, latest, made, call, robot, view, shown>>
PutGrasps ==
  /\ run["grasp"].pc = "checked"
  /\ Put("grasp") \/ Fails("grasp")
  /\ UNCHANGED <<epoch, call, robot, view, shown>>

\* A hold or a cancel of the node, or its restart, which forgets everything.
Revoked == epoch["vision"] + epoch["segment"] + epoch["grasp"]
Stop(n) ==
  /\ Revoked < MaxRevoked /\ epoch' = [epoch EXCEPT ![n] = @ + 1]
  /\ UNCHANGED <<run, cache, latest, made, call, robot, view, shown>>
Restart(n) ==
  /\ Revoked < MaxRevoked /\ epoch' = [epoch EXCEPT ![n] = @ + 1]
  /\ run' = [run EXCEPT ![n] = NoRun] /\ cache' = [cache EXCEPT ![n] = <<>>]
  /\ latest' = [latest EXCEPT ![n] = 0]
  /\ call' = [r \in Readers |->
       IF r = n THEN NoCall
       ELSE IF call[r].node = n /\ call[r].pc \in {"asked", "got", "checked"}
       THEN [call[r] EXCEPT !.pc = "failed"] ELSE call[r]]
  /\ UNCHANGED <<made, robot, view, shown>>

\* _expire: the oldest observation is too old.
Expire(n) ==
  /\ cache[n] # <<>> /\ cache' = [cache EXCEPT ![n] = Tail(@)]
  /\ UNCHANGED <<epoch, run, latest, made, call, robot, view, shown>>

-------------------------------------------------------------------------------
(* The requests to a node.                                                 *)

others == <<epoch, run, cache, latest, made, robot, view, shown>>

\* location().
LookupLocation(r) ==
  /\ call[r].pc = "asked" /\ call[r].node = "vision"
  /\ Became(r, IF Valid("vision", call[r].id) THEN "got" ELSE "failed")
  /\ UNCHANGED others

\* The handler looks its result up, which for "latest" is the announced one.
Lookup(r) ==
  LET c == call[r]
      id == IF c.of = "latest" THEN latest[c.node] ELSE c.id IN
  /\ c.pc = "asked" /\ c.node # "vision"
  /\ call' = [call EXCEPT ![r] =
       IF ~Valid(c.node, id) THEN [c EXCEPT !.pc = "failed"]
       ELSE [c EXCEPT !.id = id,
               !.pc = IF c.node # "grasp" /\ c.of = "latest" THEN "replied" ELSE "got"]]
  /\ UNCHANGED others

\* _check_segment, for a request to the grasp node.
LookupSegment(r) ==
  LET c == call[r] IN
  /\ c.pc = "got" /\ c.node = "grasp"
  /\ Became(r, IF Valid("segment", made["grasp"][c.id]) THEN "checked" ELSE "failed")
  /\ UNCHANGED others

\* Fault: the packed result leaves as it is.
Confirmed_not(c) == TRUE
\* The result is packed in a thread, and looked up once more before it leaves.
Confirmed(c) == Valid(c.node, c.id) /\ (c.of = "latest" => c.id = latest[c.node])
Reply(r) ==
  LET c == call[r] IN
  /\ c.node # "vision" /\ c.pc = IF c.node = "grasp" THEN "checked" ELSE "got"
  /\ Became(r, IF Confirmed(c) THEN "replied" ELSE "failed")
  /\ UNCHANGED others

ReplyLocation(r) ==
  /\ call[r].pc = "got" /\ call[r].node = "vision"
  /\ Became(r, IF Confirmed(call[r]) THEN "replied" ELSE "failed")
  /\ UNCHANGED others

\* The request or its reply is lost: the reader's time runs out.
CallFails(r) ==
  /\ call[r].pc \in {"asked", "replied"} /\ Became(r, "failed")
  /\ UNCHANGED others

-------------------------------------------------------------------------------
(* execute of the virtual robot: read, plan, read again, move.             *)

RobotBegins ==
  /\ robot.pc = "idle"
  /\ \E id \in DOMAIN made["grasp"] :
       /\ robot' = [NoMotion EXCEPT !.pc = "reading", !.id = id]
       /\ Ask("robot", "data", "grasp", id)
  /\ UNCHANGED <<epoch, run, cache, latest, made, view, shown>>
RobotPlans ==
  /\ robot.pc = "reading" /\ call["robot"].pc = "replied"
  /\ robot' = [robot EXCEPT !.pc = "planning"] /\ Drop("robot")
  /\ UNCHANGED <<epoch, run, cache, latest, made, view, shown>>

\* The request that says whether the grasp still stands.
RobotPlanned ==
  /\ robot.pc = "planning"
  /\ robot' = [robot EXCEPT !.pc = "rereading", !.fresh = ValidWithSource("grasp", robot.id)]
  /\ Ask("robot", "data", "grasp", robot.id)
  /\ UNCHANGED <<epoch, run, cache, latest, made, view, shown>>
RobotMoves ==
  /\ robot.pc = "rereading" /\ call["robot"].pc = "replied"
  /\ robot' = [robot EXCEPT !.pc = "moving"] /\ Drop("robot")
  /\ UNCHANGED <<epoch, run, cache, latest, made, view, shown>>

\* It has moved, a request failed, or it gave up for a reason of its own.
RobotEnds ==
  /\ robot.pc \in {"planning", "moving"} \/ call["robot"].pc \in {"replied", "failed"}
  /\ robot' = NoMotion /\ Drop("robot")
  /\ UNCHANGED <<epoch, run, cache, latest, made, view, shown>>

-------------------------------------------------------------------------------
(* The preview: what is the latest, its data, a picture, the latest again. *)

Show(id) == shown' = [shown EXCEPT ![view.node] = id]

ViewAsks(n) ==
  /\ view.pc = "idle" /\ view' = [NoUpdate EXCEPT !.pc = "asking", !.node = n]
  /\ Ask("view", "latest", n, 0)
  /\ UNCHANGED <<epoch, run, cache, latest, made, robot, shown>>

\* A result already shown stays; a new grasp drops the picture before it.
ViewReads ==
  /\ view.pc = "asking" /\ call["view"].pc = "replied"
  /\ IF call["view"].id = shown[view.node]
     THEN view' = NoUpdate /\ Drop("view") /\ UNCHANGED shown
     ELSE /\ view' = [view EXCEPT !.pc = "reading", !.id = call["view"].id]
          /\ Ask("view", "data", view.node, call["view"].id)
          /\ Show(IF view.node = "grasp" THEN 0 ELSE shown[view.node])
  /\ UNCHANGED <<epoch, run, cache, latest, made, robot>>
ViewEncodes ==
  /\ view.pc = "reading" /\ call["view"].pc = "replied"
  /\ view' = [view EXCEPT !.pc = "encoding"] /\ Drop("view")
  /\ UNCHANGED <<epoch, run, cache, latest, made, robot, shown>>
ViewEncoded ==
  /\ view.pc = "encoding"
  /\ view' = [view EXCEPT !.pc = "confirming",
                !.fresh = ValidWithSource(view.node, view.id) /\ latest[view.node] = view.id]
  /\ Ask("view", "latest", view.node, 0)
  /\ UNCHANGED <<epoch, run, cache, latest, made, robot, shown>>
ViewShows ==
  /\ view.pc = "confirming" /\ call["view"].pc = "replied"
  /\ Show(IF call["view"].id = view.id THEN view.id ELSE 0)
  /\ view' = NoUpdate /\ Drop("view")
  /\ UNCHANGED <<epoch, run, cache, latest, made, robot>>
ViewFails ==
  /\ call["view"].pc = "failed"
  /\ Show(0) /\ view' = NoUpdate /\ Drop("view")
  /\ UNCHANGED <<epoch, run, cache, latest, made, robot>>
\* A panel nobody looked at for 1.5 s is dropped.
ViewDrops(n) ==
  /\ view.pc = "idle" /\ shown[n] # 0 /\ shown' = [shown EXCEPT ![n] = 0]
  /\ UNCHANGED <<epoch, run, cache, latest, made, call, robot, view>>

Next ==
  \/ \E n \in InUse : Begin(n) \/ SourceRead(n) \/ Stop(n) \/ Restart(n) \/ Expire(n)
  \/ Located \/ Segmented \/ GraspsInferred \/ CheckSegment \/ PutGrasps
  \/ \E r \in Readers : LookupLocation(r) \/ Lookup(r) \/ LookupSegment(r)
                        \/ Reply(r) \/ ReplyLocation(r) \/ CallFails(r)
  \/ RobotBegins \/ RobotPlans \/ RobotPlanned \/ RobotMoves \/ RobotEnds
  \/ \E n \in {"segment", "grasp"} : ViewAsks(n) \/ ViewDrops(n)
  \/ ViewReads \/ ViewEncodes \/ ViewEncoded \/ ViewShows \/ ViewFails

Spec == Init /\ [][Next]_vars

-------------------------------------------------------------------------------
\* Of a step: a revoked result does not leave its node, though it is packed outside the
\* node's loop; the robot moves only by a grasp that stood, with the mask it
\* was made from, after the motion was planned; and a picture appears only of a
\* result that was the latest after it was drawn (segmentation/node.py read,
\* grasp/node.py read, wrs_grasp.py execute, preview.py _update_segment).
NoRevokedData ==
  /\ \A r \in Readers :
       call'[r].pc = "replied" /\ call[r].pc # "replied" => Valid(call'[r].node, call'[r].id)
  /\ robot'.pc = "moving" => robot'.fresh
  /\ \A n \in DOMAIN shown : shown'[n] \notin {0, shown[n]} => view.fresh
===============================================================================
