SPECIFICATION Spec
CONSTANTS
  MaxTemp = 2
  MaxLevel = 1
  Awake <- NextPart
  Asleep <- UpToNight
  MaxPending = 1
INVARIANTS TempFollows
