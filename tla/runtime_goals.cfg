SPECIFICATION FairSpec
CONSTANTS
  t1 = t1
  t2 = t2
  t3 = t3
  g1 = g1
  g2 = g2
  h1 = h1
  h2 = h2
  None = None
  Tasks = {t1, t2}
  Goals = {g1, g2}
  Handlers = {h1}
  QueueCapacity = 1
  RequestCapacity = 4
  ResultCapacity = 4
PROPERTIES
  GoalsAnswered
  TasksEnd
CHECK_DEADLOCK FALSE
