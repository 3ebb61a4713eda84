SPECIFICATION FairSpec
CONSTANTS
  Names = {heartbeat, other}
  Bodies = {old, new}
  Runs = {r1, r2, r3}
INVARIANTS
  RunsAreFlagged
  NoLeakedInterval
PROPERTIES
  TaskRunsAgain
