CONSTANTS
  Level = {0, 2, 3}
  Windows = {1, 2}
  HistorySize = 6
  MinSamples = 5
  MinBetween = 2
  MaxBetween = 4
  MinProminence = 2
  MinVariance = 1
  MinConsecutive = 3
  IdleSamples = 3
  IdleMax = 4
  QuietWindows = 1
  Grades <- MCGrades
SPECIFICATION StepSpec
INVARIANTS StepsCounted BoutsReported
