SPECIFICATION Spec
CONSTANTS
  MaxTemp = 2
  MaxLevel = 1
  Awake <- NextPart
  Asleep <- NapOrLong
  MaxPending = 1
INVARIANTS TypeOK TempFollows
