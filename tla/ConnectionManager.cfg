SPECIFICATION FairSpec
CONSTANTS
  MaxCount = 2
  Client = {a1}
  Poller = poller
  Executor = executor
  KeepAlive = TRUE
  MaxOpens = 3
CHECK_DEADLOCK FALSE
INVARIANTS SlotsPartition 
PROPERTY ListenerStops
