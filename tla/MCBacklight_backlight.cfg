SPECIFICATION FairSpec
CONSTANTS
  ScreenConf <- Configured
  Writable <- TwoTimeouts
  lid_pauses = TRUE
  MaxOff = 2
  MaxPending = 1
INVARIANTS TypeOK PausedAsTold CapturesGoOn
PROPERTIES BacklightStarts CaptureUsed
