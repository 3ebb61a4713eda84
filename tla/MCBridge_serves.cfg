SPECIFICATION FairSpec
CONSTANTS
  Absent = Absent
  Junk = Junk
  None = None
  N = 2
  Messages = {r1, r2}
  Faulty = {1}
  Entries = {"bridge", "kernel"}
  Inputs <- AllInputs
INVARIANTS
  SettingsPreferred
  RejectedIsWarned
  SettingsPace
  InServiceWhileUp
PROPERTIES
  AcknowledgedIsHeard
  OnlyBearersAct
  ShutdownEnds
\* A process ends.
CHECK_DEADLOCK FALSE
