CONSTANTS
  MaxAlarms = 2
  Buffer = 1
  Horizon = 3
  MaxEpoch = 5
  MaxSyncs = 2
SPECIFICATION FairAppSpec
INVARIANTS AlarmInv AppInv
PROPERTIES AlarmsSettle DeletesChosen
