SPECIFICATION FairSpec
CONSTANTS
  a1 = a1
  a2 = a2
  l1 = l1
  l2 = l2
  None = None
  ActionIds = {a1, a2}
  LeaseIds = {l1, l2}
  RobotControls = FALSE
  LeaseCapacity = 1
  RecordCapacity = 2
  ControlCapacity = 1
  MaxBoot = 2
  MaxVersion = 1
PROPERTIES
  NodeComesToRest
  ImplementsContract
CHECK_DEADLOCK FALSE
