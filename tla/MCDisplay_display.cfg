SPECIFICATION FairSpec
CONSTANTS
  MaxLevel = 2
  dimmed_pct = 0
  PatientUser = TRUE
  MaxPending = 3
INVARIANTS TypeOK BrightnessRestored DimmedIsDim DpmsFollowsDisplay
PROPERTY DisplayWakes
