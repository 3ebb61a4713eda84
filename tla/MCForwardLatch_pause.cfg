SPECIFICATION FairSpec
CONSTANTS
  Hooks = {h1, h2, h3}
  Threshold = 2
  Latch = 3
  Timeout = 1
INVARIANTS
  PauseBounded
PROPERTIES
  PauseEnds
  FailuresPause
