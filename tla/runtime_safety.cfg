CONSTANTS
  UserWorkers = {u1}
  SystemWorkers = {s1}
  UserItems = {a1}
  SystemItems = {b1, b2}
  Hooks = {}
  NoItem = NoItem
  NoWorker = NoWorker
  TaskCreateMayFail = TRUE
  MaxOverruns = 1
  QueueCap = 1
  PendingCap = 1
  MaxHooks = 1
SPECIFICATION Spec
INVARIANTS RuntimeInv UserWorkWatched WindowTimersMatchState PoolCorrect
PROPERTIES WorkLostOnlyByForce ImplementsWindow
CONSTRAINT SecondItemAlone
SYMMETRY ItemSymmetry
CHECK_DEADLOCK FALSE
