SPECIFICATION RegistrySpec
CONSTANTS
  p1 = p1
  p2 = p2
  p3 = p3
  n1 = n1
  n2 = n2
  ta = ta
  tb = tb
  s1 = s1
  None = None
  Many = Many
  Procs = {p1, p2, p3}
  Names = {n1, n2}
  Targets = {ta, tb}
  NameOf <- Procs3
  TargetOf <- TwoTargets
  Acting = {p1, p2, p3}
  Skills = {s1}
  SkillsOf <- OneSkill
  MaxRecords = 2
  Old = {p1}
  MaxAddresses = 1
  MaxNames = 2
  Playing = {p1, p3}
INVARIANTS
  RegistryTypeOK
  ViewIsTrue
  RoutedToCurrent
PROPERTIES
  NeverTakenOver
  SentToProvider
CHECK_DEADLOCK FALSE
