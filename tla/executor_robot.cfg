SPECIFICATION Spec
CONSTANTS
  a1 = a1
  a2 = a2
  l1 = l1
  l2 = l2
  l3 = l3
  None = None
  ActionIds = {a1, a2}
  LeaseIds = {l1, l2, l3}
  RobotControls = TRUE
  LeaseCapacity = 2
  RecordCapacity = 2
  ControlCapacity = 2
  MaxBoot = 2
  MaxVersion = 1
SYMMETRY Symmetry
INVARIANTS
  TypeOK
  OneOwner
  StopIsTrue
  WriteAhead
  AtMostOnce
  NoBlindReopen
  StoppedReceiptHolds
PROPERTIES
  EffectUnderAuthority
  NothingTakenBack
  ImplementsNodeGate
CHECK_DEADLOCK FALSE
