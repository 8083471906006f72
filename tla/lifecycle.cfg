CONSTANTS
  Handlers = {"sleep_debug_cb", "start_work_cb", "schedule_imu_work"}
  Null = "null"
  MaxSubscribers = 4
  IrQueueSize = 2
  Values = {1, 2}
  Default = 1
  Invalid = 3
  None = 0
  SystemWorkers = 2
  MaxWrites = 2
  Image <- MCImage
  BlockSize = 2
  RxSize = 3
  MaxRetries = 2
SPECIFICATION Spec
INVARIANTS TeardownClean LifecycleInv SettingKept UpdateSafe InStep
PROPERTY UpdateEnds
CONSTRAINT OneBusy
