SPECIFICATION FairSpec
CONSTANTS
  None = None
  Publishers <- MCTwo
  Controls = {"p2"}
  MAX_PENDING = 1
  MAX_CLIENTS = 1
  MayCrash = {"p1"}
  MayClose = TRUE
  MayLinger = FALSE
INVARIANTS
  PendingWithinCap
  SpawnedOnce
  DeliveredStaysReadable
PROPERTIES
  EventuallyClean
  ExchangesEnd
