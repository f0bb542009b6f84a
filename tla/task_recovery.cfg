SPECIFICATION FairSpec
CONSTANTS
  s1 = s1
  s2 = s2
  robot = robot
  tts = tts
  None = None
  Steps = {s1, s2}
  Nodes = {robot}
  Robots = {robot}
  NodeOf <- OneRobot
  Plans <- OnlyChained
  Recoverable = {s1, s2}
  MaxTries = 2
  MaxFaults = 2
  MaxCancels = 1
PROPERTY RepeatedOnlyAfterFailure
PROPERTY TaskEnds
PROPERTY CancelConverges
CHECK_DEADLOCK FALSE
