SPECIFICATION Spec
CONSTANTS
  a1 = a1
  l1 = l1
  None = None
  ActionIds = {a1}
  LeaseIds = {l1}
  RobotControls = FALSE
  LeaseCapacity = 1
  RecordCapacity = 1
  ControlCapacity = 2
  MaxBoot = 1
  MaxVersion = 1
INVARIANT CancelledNodeReopens
CHECK_DEADLOCK FALSE
