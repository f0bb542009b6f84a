SPECIFICATION Spec
CONSTANTS
  t1 = t1
  t2 = t2
  t3 = t3
  g1 = g1
  g2 = g2
  h1 = h1
  h2 = h2
  None = None
  Tasks = {t1, t2, t3}
  Goals = {g1, g2}
  Handlers = {h1, h2}
  QueueCapacity = 2
  RequestCapacity = 5
  ResultCapacity = 5
SYMMETRY Symmetry
INVARIANTS
  TypeOK
  NoGoalForgotten
  QueueWaitsForRunning
PROPERTIES
  InterruptCoversAll
  SettledStands
CHECK_DEADLOCK FALSE
