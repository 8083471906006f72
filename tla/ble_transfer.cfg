CONSTANTS
  Transfers <- MCTransfers
  Magic = 185
  MaxSize = 2048
  FifoSize = 3
SPECIFICATION Spec
INVARIANTS TransferDelivered Reachable
PROPERTY ShutdownEnds
