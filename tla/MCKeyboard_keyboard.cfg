SPECIFICATION Spec
CONSTANTS
  MaxLevel = 2
  Curves <- MCCurves
  MaxPending = 3
INVARIANTS TypeOK KbdFollowsScreen
