CONSTANTS
  Workers = {w1, w2}
  QueueLen = 3
  SensorEvery = 2
  Depth = 2
  Buffer = 3
  History = 2
  MinInference = 2
  MaxPolls = 2
  Millivolts = {3740, 3748}
  ImuOps <- MCImuOps
  MaxFaults = 1
  MaxForced = 1
SPECIFICATION Spec
INVARIANTS ResourcesReturned CrashHasCause DevicesTruthful
SYMMETRY Symmetry
CONSTRAINT OneCause
