SPECIFICATION LockSpec
CONSTANTS
  Faults = {"systemd", "dup", "powermanagement", "release"}
  ToggleConf = TRUE
  MaxRequests = 4
INVARIANTS LockTypeOK LockFollowsInhibition ReportedIsHeld ReleasedOnStop
CHECK_DEADLOCK FALSE
