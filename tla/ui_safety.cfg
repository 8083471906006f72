SPECIFICATION Spec
CONSTANTS
  w1 = w1
  w2 = w2
  UiWorkers <- TwoWorkers
  MaxAlarms = 2
  QueueLen = 2
  JoinMayTimeOut = TRUE
  TaskCreateMayFail = FALSE
  PanelMayFail = FALSE
INVARIANTS UiInv UiSettled ScreenKeepsAwake WatchfaceTicks
SYMMETRY WorkerSymmetry
CHECK_DEADLOCK FALSE
