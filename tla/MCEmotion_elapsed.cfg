SPECIFICATION Spec
CONSTANTS
  Full = 10
  Growth = 2
  Initial = 5
  Reset = 1
  Assessments = {0, 8}
  MaxTime = 4
INVARIANTS
  NeedIsElapsed
  SavedNeedIsElapsed
