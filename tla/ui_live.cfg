SPECIFICATION FairSpec
CONSTANTS
  w1 = w1
  w2 = w2
  UiWorkers <- OneWorker
  MaxAlarms = 1
  QueueLen = 2
  JoinMayTimeOut = FALSE
  TaskCreateMayFail = TRUE
  PanelMayFail = TRUE
INVARIANT DisplayTruthful
PROPERTIES WakeAnswered InactivitySleeps ScreenGoesAway
CHECK_DEADLOCK FALSE
