SPECIFICATION Spec
CONSTANTS
  s1 = s1
  s2 = s2
  robot = robot
  tts = tts
  None = None
  Steps = {s1, s2}
  Nodes = {robot, tts}
  Robots = {robot}
  NodeOf <- TwoNodes
  Plans <- BothPlans
  Recoverable = {s1}
  MaxTries = 2
  MaxFaults = 1
  MaxCancels = 1
INVARIANT TaskInv
INVARIANT SettledIsOver
INVARIANT ReportIsTrue
PROPERTY LiftsOnlyOwnFence
PROPERTY BegunAsPlanned
CHECK_DEADLOCK FALSE
