SPECIFICATION Spec
CONSTANTS
  Module = "DIMMER"
  SetTimeouts = FALSE
  SuspendUsed = TRUE
  MaxPending = 3
INVARIANT NoClientWhilePaused
