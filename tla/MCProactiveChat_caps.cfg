SPECIFICATION Spec
SYMMETRY Symmetry
CONSTANTS
  Sessions = {s1, s2}
  Mode = "self"
  Awaited = TRUE
  Assess = FALSE
  Persist = TRUE
  Events = {"unsaved"}
  NoSendAfter = 1
  Cooldown = 1
  Hour = 2
  Day = 5
  MaxPerHour = 1
  MaxPerDay = 2
  QuietStart = 4
  QuietEnd = 0
  MaxAge = 2
  MaxSize = 2
  SaveInterval = 1
  Scores = {0, 2}
  HoldThreshold = 1
  SendThreshold = 2
  MaxTime = 6
INVARIANTS
  CapsKept
  DeliveriesCounted
PROPERTIES
  SlotsPaced
  ReceiptsPaced
