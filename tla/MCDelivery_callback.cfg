SPECIFICATION FairSpec
CONSTANTS
  Sessions = {s1, s2, s3}
  AbortAfter = 1
  Backlog = 2
  MaxRoutes = 2
  MaxAttempts = 3
INVARIANTS
  ArriveInOrder
  FailedNeverArrives
  LastSeenAreRouted
PROPERTIES
  HandedOver
  DeliverySettles
