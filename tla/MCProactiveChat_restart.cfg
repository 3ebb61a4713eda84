SPECIFICATION Spec
SYMMETRY Symmetry
CONSTANTS
  Sessions = {s1, s2}
  Mode = "delegate"
  Awaited = FALSE
  Assess = FALSE
  Persist = TRUE
  Events = {"crash"}
  NoSendAfter = 1
  Cooldown = 2
  Hour = 4
  Day = 6
  MaxPerHour = 2
  MaxPerDay = 2
  QuietStart = 5
  QuietEnd = 0
  MaxAge = 2
  MaxSize = 2
  SaveInterval = 2
  Scores = {0, 1, 2}
  HoldThreshold = 1
  SendThreshold = 2
  MaxTime = 3
INVARIANTS
  SlotsSurvive
