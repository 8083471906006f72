CONSTANTS
  UserWorkers = {}
  SystemWorkers = {s1}
  UserItems = {}
  SystemItems = {b1}
  Hooks = {h1}
  NoItem = NoItem
  NoWorker = NoWorker
  TaskCreateMayFail = FALSE
  MaxOverruns = 0
  QueueCap = 1
  PendingCap = 1
  MaxHooks = 1
SPECIFICATION FairSpec
PROPERTIES WindowCloses AcceptedWorkSettles ShutdownReturns
CHECK_DEADLOCK FALSE
