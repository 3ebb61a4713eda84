SPECIFICATION Spec
CONSTANTS
  Sessions = {s1}
  Mode = "self"
  Awaited = TRUE
  Assess = TRUE
  Persist = TRUE
  Events = {"teardown", "crash", "late", "unsaved", "unread"}
  NoSendAfter = 1
  Cooldown = 2
  Hour = 4
  Day = 6
  MaxPerHour = 2
  MaxPerDay = 2
  QuietStart = 5
  QuietEnd = 0
  MaxAge = 2
  MaxSize = 2
  SaveInterval = 2
  Scores = {1, 2}
  HoldThreshold = 1
  SendThreshold = 2
  MaxTime = 4
INVARIANTS
  TypeOK
  CooldownKept
  OneStubHeld
PROPERTIES
  SlotsAreDeliveries
  RecordedIsDurable
  NoOutreachWhileTorn
