SPECIFICATION FairSpec
CONSTANTS
  Module = "DIMMER"
  SetTimeouts = TRUE
  SuspendUsed = TRUE
  MaxPending = 3
INVARIANTS TypeOK ClientRunsWhenWanted TimeoutsAsWritten
PROPERTY ClientEventuallyRuns
