SPECIFICATION ServingSpec
CONSTANTS
  W = 2
  Task = {t1, t2}
  Client = {c1}
PROPERTY TasksRun
CHECK_DEADLOCK FALSE
