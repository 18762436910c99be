SPECIFICATION UPowerSpec
CONSTANTS
  Apps = {a1}
  LockClight = clight
  MaxRefs = 1
  MaxPending = 4
  OwnCookies = FALSE
  UserLock = "any"
  InhibitDocked = TRUE
  Faults = {"ping", "match"}
  PatientHardware = TRUE
  MaxSignals = 2
INVARIANTS UPowerTypeOK HardwareMirrored DockedNeedsLid
PROPERTY HoldsSpec
