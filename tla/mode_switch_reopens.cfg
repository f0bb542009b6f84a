SPECIFICATION Spec
CONSTANTS
  e1 = e1
  e2 = e2
  None = None
  Broken = Broken
  Requests = {r1, r2, r3}
  Workers = {w1, w2}
  InboxCapacity = 2
  Slots = 2
  Presses = {e1, e2}
  IntentsOf <- Said
  HistoryOf <- PressesKept
  EventsOf <- TextsKept
  VoiceEpochs <- Reopenings
  ControlCapacity = 2
  Utterances = 2
  Blocks = 2
  AllowHardware = TRUE
  MaxLinks = 2
  ArmEpochs = 6
  StreamCapacity = 2
  MaxStreams = 3
  MaxFrames = 3
  ResultsKept = 1
  ResultsMade <- Masks
  Revocations <- Stops
  IsBoxed <- Boxed
  Instances = {i1, i2}
  ActionService = TRUE
  MaxResources = 3
  Started = 2
  PlanSteps = 3
  Skills = {"see", "say", "move"}
  Holds <- Resources
  Makes <- Results
  Takes <- Arguments
  Nothing = "nothing"
  Intents = {o1, o2}
  Places = {here, there}
  PlansKept = 1
  MaxSetups = 1
  MaxItems = 2
  Poses = {"home", "B"}
  Home = "home"
  PathSteps = 2
  Nowhere = "nowhere"
  Boxes = {"left", "right"}
  Candidates = 2
  NoBox = "none"
  Objects = {"left", "right"}
  Stranger = "stranger"
  NoObject = "none"
  FrameCapacity = 2
  ResultCapacity = 3
  MaxStarts = 3
  MaxShots = 3
  Width = 3
  HandleEpochs = 4
  MaxBoots = 2
  MaxCancels = 2
  MaxRestarts = 1
INVARIANT GateWaitsForSwitch
CHECK_DEADLOCK FALSE
