CONSTANTS
  Notes = {1, 2, 3, 4, 5, 6}
  NoNote = 0
  MaxNotes = 3
  Visible = 2
  Dates = {0, 1, 2}
  Today = 1
  Hour = 0
  LastHour = 1
  MaxOffset = 1
  MaxWork = 1
  MaxAsked = 2
  Payloads <- MCPayloads
SPECIFICATION Spec
INVARIANTS NotificationsCorrect WeatherCorrect
CONSTRAINT NotBothBusy
