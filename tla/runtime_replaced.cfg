SPECIFICATION Spec
CONSTANTS
  t1 = t1
  t2 = t2
  g1 = g1
  h1 = h1
  None = None
  Tasks = {t1, t2}
  Goals = {g1}
  Handlers = {h1}
  QueueCapacity = 1
  RequestCapacity = 4
  ResultCapacity = 4
INVARIANT OneUnsettledTask
CHECK_DEADLOCK FALSE
