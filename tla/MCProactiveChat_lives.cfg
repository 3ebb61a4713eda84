SPECIFICATION FairSpec
CONSTANTS
  Sessions = {s1, s2}
  Mode = "delegate"
  Awaited = TRUE
  Assess = FALSE
  Persist = TRUE
  Events = {"teardown", "unsaved", "unread"}
  NoSendAfter = 0
  Cooldown = 1
  Hour = 2
  Day = 6
  MaxPerHour = 1
  MaxPerDay = 2
  QuietStart = 5
  QuietEnd = 0
  MaxAge = 2
  MaxSize = 2
  SaveInterval = 1
  Scores = {2}
  HoldThreshold = 1
  SendThreshold = 2
  MaxTime = 1
INVARIANTS
  SlotsSurvive
PROPERTIES
  HeartbeatEnds
