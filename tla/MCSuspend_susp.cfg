SPECIFICATION FairSpec
CONSTANTS
  Sources = {"logind", "session", "signal", "pause"}
  Plugin = TRUE
  MaxPending = 3
  MaxHolds = 4
INVARIANTS TypeOK SubscriberFollows SuspendedWhileAsked
PROPERTIES HoldsSpec EventuallyResumed
