SPECIFICATION FairSpec
CONSTANTS
  Locs = {"here", "there"}
  NoLoc = "nowhere"
  Geoclue = TRUE
  MaxLocPending = 1
  DayLength = 8
  SunTimes <- TwoPlaces
  FixedTimes <- SunsetOnly
  EventDuration = 1
  Offsets = {0, 1}
  Sleeps = TRUE
INVARIANTS TypeOK AlarmSet DayFollowsSun
PROPERTIES DaytimeToldWhere CachedLocationUsed
