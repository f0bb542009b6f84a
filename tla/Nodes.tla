--------------------------------- MODULE Nodes ---------------------------------
(***************************************************************************)
(* The parts that share no state with one another, side by side. `part`    *)
(* says which of them a behaviour is one of; the others stay as they       *)
(* begin. A part that is there twice differs only in its constants.        *)
(***************************************************************************)
EXTENDS Naturals

CONSTANTS
  Requests, Workers, InboxCapacity, Slots,                    \* Transport
  Presses, IntentsOf, HistoryOf, EventsOf, VoiceEpochs,       \* VoiceInput
  ControlCapacity,
  Utterances, Blocks,                                         \* SpeechOutput
  AllowHardware, MaxLinks, ArmEpochs,                         \* UrBackend
  StreamCapacity, MaxStreams, MaxFrames, Broken,              \* CameraStream
  ResultsKept, ResultsMade, Revocations, IsBoxed,             \* Perception
  Instances, ActionService, MaxResources,                     \* NodeLifecycle
  Started,                                                    \* LocalStack
  PlanSteps, Skills, Holds, Makes, Takes, Nothing,            \* PlanOrder
  Intents, Places, PlansKept, MaxSetups,                      \* PlanCache
  MaxItems,                                                   \* PlanReply
  Poses, Home, PathSteps, Nowhere,                            \* VirtualModel
  Boxes, Candidates, NoBox,                                   \* VirtualGrasp
  Objects, Stranger, NoObject,                                \* MockWorld
  FrameCapacity, ResultCapacity, MaxStarts, MaxShots,         \* VisionResults
  Width,                                                      \* JawDrive
  HandleEpochs, MaxBoots,                                     \* ActionHandle
  MaxCancels, MaxRestarts,                                    \* TaskClient
  None

VARIABLES
  part,
  asked, received, inbox, notified, waking, event, worker, shut,
  press, heard, spoken, released, record, epoch, held, tts, holds, agent, first, quiet,
  stop, stopped, handler, cancelled, thread, block, stream, completed, utterance, drained,
  gate, driver, links, open, device, done, switch, action, halt, arm, watcher, closing,
  capture, camStream, taken, pending, camNotified, calling, changed, frames, current,
  health, stopping, closed, seen,
  nodeEpoch, nodeRun, cache, latest, made, call, robot, view, shown,
  pc, lock, session, cleanup, failure, nodeDone, announced,
  launcher, starter, reaper, proc, spawned, next, signalled, late,
  plan, offered, run,
  place, setup, entries, goal, verified,
  config, client, reply, decision,
  vArm, vJaw, vPath, vJawPath, vGoal, vWidth, motion, skill, target, index, vHalt, label,
  reported, outcome, before,
  gArm, gJaw, where, mounted, active, gHeld, object, route, attachAt, grasping, aim, try,
  begun, gIndex, gHalt, gOutcome, gReported,
  fault, remaining, world, task, told, result, past, refused,
  shot, round, input, previous, newest, ready, pictures, results,
  opening, aimed, contact, register, fresh, driving, wanted, turning, waited, jStopped, noted,
  ended, reached,
  node, mine, context, submitted, answer, cancel, stored, polled, struck,
  mode, restarts, tCurrent, report, tPlan, receipt, cancels, poll, watch, tEnded, fenced, tAsked

\* The cases of the parts that are there twice.
Voices == {"voice", "hush", "replay"}
Perceptions == {"segment", "locate"}

Inbox == INSTANCE Transport
Voice(v) == INSTANCE VoiceInput
  WITH Intent <- IntentsOf[v], CaptureHistory <- HistoryOf[v], EventCapacity <- EventsOf[v],
       MaxEpoch <- VoiceEpochs[v], Nobody <- None
Speech == INSTANCE SpeechOutput
Arm == INSTANCE UrBackend WITH MaxEpoch <- ArmEpochs
Camera == INSTANCE CameraStream
  WITH Capacity <- StreamCapacity, Nothing <- None, stream <- camStream, notified <- camNotified
Perceive(p) == INSTANCE Perception
  WITH Capacity <- ResultsKept, MaxResults <- ResultsMade[p], MaxRevoked <- Revocations[p],
       Boxed <- IsBoxed[p], epoch <- nodeEpoch, run <- nodeRun
Life == INSTANCE NodeLifecycle WITH Free <- None, open <- cleanup, done <- nodeDone
Stack == INSTANCE LocalStack WITH Count <- Started, pc <- launcher
Order == INSTANCE PlanOrder WITH Count <- PlanSteps
Cache == INSTANCE PlanCache WITH Capacity <- PlansKept, Nowhere <- None
Reply == INSTANCE PlanReply
Model == INSTANCE VirtualModel
  WITH Steps <- PathSteps, arm <- vArm, jaw <- vJaw, path <- vPath, jawPath <- vJawPath,
       goal <- vGoal, goalWidth <- vWidth, halt <- vHalt
Grasp == INSTANCE VirtualGrasp
  WITH Objects <- Boxes, Nothing <- NoBox, arm <- gArm, jaw <- gJaw, held <- gHeld,
       start <- begun, index <- gIndex, halt <- gHalt, outcome <- gOutcome, reported <- gReported
Mock == INSTANCE MockWorld WITH Nothing <- NoObject
Detector == INSTANCE VisionResults WITH Unseen <- None
Jaw == INSTANCE JawDrive WITH seen <- turning, stopped <- jStopped
Handle == INSTANCE ActionHandle WITH MaxEpoch <- HandleEpochs, asked <- submitted
Client == INSTANCE TaskClient
  WITH current <- tCurrent, plan <- tPlan, ended <- tEnded, asked <- tAsked

\* What the proofs assume of the constants.
ASSUME NodesAssumption ==
  /\ InboxCapacity \in Nat
  /\ None \notin Instances /\ MaxResources \in Nat
  /\ Started \in Nat /\ PlanSteps \in Nat
  /\ StreamCapacity \in Nat \ {0} /\ MaxStreams \in Nat /\ MaxFrames \in Nat
  /\ None # Broken /\ {None, Broken} \cap Camera!Frames = {}
  /\ FrameCapacity \in Nat \ {0} /\ ResultCapacity \in Nat /\ FrameCapacity <= ResultCapacity
  /\ MaxStarts \in Nat \ {0} /\ MaxShots \in Nat \ {0} /\ None \notin Detector!Shots
  /\ ResultsKept \in Nat \ {0}
  /\ \A p \in Perceptions : ResultsMade[p] \in Nat /\ Revocations[p] \in Nat
  /\ PlansKept \in Nat \ {0} /\ MaxSetups \in Nat
  /\ None \notin Nat
  /\ \A v \in Voices :
       VoiceEpochs[v] \in Nat /\ HistoryOf[v] \in Nat \ {0} /\ None \notin Voice(v)!Times
  /\ HandleEpochs \in Nat /\ MaxBoots \in Nat \ {0}
  /\ MaxCancels \in Nat /\ MaxRestarts \in Nat
  /\ Utterances \in Nat /\ Blocks \in Nat /\ Width \in Nat
  /\ ArmEpochs \in Nat \ {0} /\ MaxLinks \in Nat
  /\ PathSteps \in Nat \ {0} /\ Home \in Poses
  /\ Nowhere \notin Poses \cup {"shifted", "between", "open", "close"}
  /\ Candidates \in Nat /\ NoBox \notin Boxes
  /\ NoObject \notin Objects \cup {Stranger}

transport == <<asked, received, inbox, notified, waking, event, worker, shut>>
voice == <<press, heard, spoken, released, record, epoch, held, tts, holds, agent, first, quiet>>
speech == <<stop, stopped, handler, cancelled, thread, block, stream, completed, utterance,
            drained>>
ur == <<gate, driver, links, open, device, done, switch, action, halt, arm, watcher, closing>>
camera == <<capture, camStream, taken, pending, camNotified, calling, changed, frames, current,
            health, stopping, closed, seen>>
perception == <<nodeEpoch, nodeRun, cache, latest, made, call, robot, view, shown>>
life == <<pc, lock, session, cleanup, failure, nodeDone, announced>>
stack == <<launcher, starter, reaper, proc, spawned, next, signalled, late>>
order == <<plan, offered, run>>
plans == <<place, setup, entries, goal, verified>>
replies == <<config, client, reply, decision>>
model == <<vArm, vJaw, vPath, vJawPath, vGoal, vWidth, motion, skill, target, index, vHalt,
           label, reported, outcome, before>>
grasp == <<gArm, gJaw, where, mounted, active, gHeld, object, route, attachAt, grasping, aim,
           try, begun, gIndex, gHalt, gOutcome, gReported>>
mock == <<fault, remaining, world, task, told, result, past, refused>>
detector == <<shot, round, input, previous, newest, ready, pictures, results>>
jaw == <<opening, aimed, contact, register, fresh, driving, wanted, turning, waited, jStopped,
         noted, ended, reached>>
handle == <<node, mine, context, submitted, answer, cancel, stored, polled, struck>>
task_client == <<mode, restarts, tCurrent, report, tPlan, receipt, cancels, poll, watch, tEnded,
                 fenced, tAsked>>

Parts == {"transport", "voice", "hush", "replay", "speech", "arm", "camera", "segment", "locate",
          "life", "stack", "order", "cache", "reply", "model", "grasp", "mock", "detector",
          "jaw", "handle", "task"}

Init ==
  /\ part \in Parts
  /\ Inbox!Init /\ (\A v \in Voices : Voice(v)!Init) /\ Speech!Init /\ Arm!Init /\ Camera!Init
  /\ (\A p \in Perceptions : Perceive(p)!Init)
  /\ (part \notin Perceptions => view.pc = "absent")
  /\ Life!Init /\ Stack!Init /\ Order!Init
  /\ Cache!Init /\ (part # "cache" => place = [o \in Intents |-> CHOOSE p \in Places : TRUE])
  /\ Reply!Init /\ Model!Init /\ Grasp!Init /\ Detector!Init /\ Handle!Init
  /\ Mock!Init /\ (part # "mock" => fault = "none")
  /\ Jaw!Init /\ (part # "jaw" => contact = 0)
  /\ Client!Init /\ (part # "task" => mode = "async")

\* The other parts stay as they are.
Others ==
  /\ IF part = "transport" THEN TRUE ELSE UNCHANGED transport
  /\ IF part \in Voices THEN TRUE ELSE UNCHANGED voice
  /\ IF part = "speech" THEN TRUE ELSE UNCHANGED speech
  /\ IF part = "arm" THEN TRUE ELSE UNCHANGED ur
  /\ IF part = "camera" THEN TRUE ELSE UNCHANGED camera
  /\ IF part \in Perceptions THEN TRUE ELSE UNCHANGED perception
  /\ IF part = "life" THEN TRUE ELSE UNCHANGED life
  /\ IF part = "stack" THEN TRUE ELSE UNCHANGED stack
  /\ IF part = "order" THEN TRUE ELSE UNCHANGED order
  /\ IF part = "cache" THEN TRUE ELSE UNCHANGED plans
  /\ IF part = "reply" THEN TRUE ELSE UNCHANGED replies
  /\ IF part = "model" THEN TRUE ELSE UNCHANGED model
  /\ IF part = "grasp" THEN TRUE ELSE UNCHANGED grasp
  /\ IF part = "mock" THEN TRUE ELSE UNCHANGED mock
  /\ IF part = "detector" THEN TRUE ELSE UNCHANGED detector
  /\ IF part = "jaw" THEN TRUE ELSE UNCHANGED jaw
  /\ IF part = "handle" THEN TRUE ELSE UNCHANGED handle
  /\ IF part = "task" THEN TRUE ELSE UNCHANGED task_client

Next ==
  /\ UNCHANGED part
  /\ \/ part = "transport" /\ Inbox!Next
     \/ \E v \in Voices : part = v /\ Voice(v)!Next
     \/ part = "speech" /\ Speech!Next
     \/ part = "arm" /\ Arm!Next
     \/ part = "camera" /\ Camera!Next
     \/ \E p \in Perceptions : part = p /\ Perceive(p)!Next
     \/ part = "life" /\ Life!Next
     \/ part = "stack" /\ Stack!Next
     \/ part = "order" /\ Order!Next
     \/ part = "cache" /\ Cache!Next
     \/ part = "reply" /\ Reply!Next
     \/ part = "model" /\ Model!Next
     \/ part = "grasp" /\ Grasp!Next
     \/ part = "mock" /\ Mock!Next
     \/ part = "detector" /\ Detector!Next
     \/ part = "jaw" /\ Jaw!Next
     \/ part = "handle" /\ Handle!Next
     \/ part = "task" /\ Client!Next
  /\ Others

vars == <<part, transport, voice, speech, ur, camera, perception, life, stack, order, plans,
          replies, model, grasp, mock, detector, jaw, handle, task_client>>
Spec == Init /\ [][Next]_vars

-------------------------------------------------------------------------------
\* The variables of every part have their types.
NodesTypeOK ==
  /\ Inbox!TypeOK /\ Speech!TypeOK /\ Arm!TypeOK /\ Camera!TypeOK
  /\ Life!TypeOK /\ Stack!TypeOK /\ Order!TypeOK /\ Cache!TypeOK /\ Reply!TypeOK
  /\ Model!TypeOK /\ Grasp!TypeOK /\ Mock!TypeOK /\ Detector!TypeOK /\ Jaw!TypeOK
  /\ Handle!TypeOK /\ Client!TypeOK
  /\ \A v \in Voices : part = v => Voice(v)!TypeOK
  /\ \A p \in Perceptions : part = p => Perceive(p)!TypeOK

\* See Transport: no request waits for a worker that sleeps (Inbox).
NoLostWakeup == Inbox!NoLostWakeup

\* See VoiceInput, ActionHandle, TaskClient: a stop stops what it was meant for,
\* what was confirmed (and not as a refusal) has stopped, what was refused never runs, and a handle says
\* what its own task came to (voice/node.py, asr/node.py, action_rpc.py,
\* handles.py).
StopsAreTrue ==
  /\ \A v \in Voices :
       part = v => Voice(v)!RepeatsStopNothingNew /\ Voice(v)!ConfirmedStopsStopped
  /\ Handle!HandleIsTrue /\ Client!HandleIsTrue

\* See SpeechOutput, UrBackend, JawDrive, VirtualModel, VirtualGrasp, MockWorld: an
\* action of a definite outcome leaves no sound and no motion behind, no device
\* is exchanged under one, and what is reported after it is what the device or
\* the model is in (tts/backend.py, ur.py, ur_rtde.py, wrs.py, wrs_grasp.py,
\* mock.py).
SettledAsReported ==
  /\ Speech!SilentWhenSettled /\ Arm!RestWhenSettled /\ Arm!SameDevice
  /\ Jaw!JawAsReported
  /\ Model!WorldAsReported /\ Grasp!WorldAsReported /\ Mock!WorldAsReported

\* See CameraStream and VisionResults: what can be read is of the stream that is,
\* and no item waits for a loop that nobody wakes (camera/node.py, vision/node.py).
FramesAreLive == Camera!FramesAreLive /\ Detector!FramesAreLive

\* See Perception and PlanCache: what a stop, a restart or a newer result revoked
\* is not used, and a kept plan is used again only where it has proved itself
\* (segmentation/node.py, grasp/node.py, wrs_grasp.py, preview.py; cache.py).
NothingStaleIsUsed ==
  [][/\ \A p \in Perceptions : part = p => [Perceive(p)!NoRevokedData]_perception
     /\ [Cache!CachedAsVerified]_plans]_vars

\* See NodeLifecycle and LocalStack: nothing of a node or of a launcher outlives
\* it, but the router of a cancelled start (node.py, processes.py).
NothingLeftRunning == Life!OneOwner /\ Stack!NothingLeftRunning

\* See PlanReply and PlanOrder: what is executed was proposed, and leaves nothing
\* to a race (planner/providers, plan_validation.py).
PlansAreSound == Reply!OnlyProposalsExecute /\ Order!NothingLeftToRaces

\* See UrBackend: the words of ur.py:178 on the mode switch.
GateWaitsForSwitch == Arm!GateWaitsForSwitch
===============================================================================
