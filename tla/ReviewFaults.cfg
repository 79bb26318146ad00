SPECIFICATION Spec
CONSTANTS
  None = None
  Bases <- TwoBases
  Shells <- MCShells
  SessionOf <- OneSession
  Commands <- AllCommands
  Cards <- AllCards
  TierOf <- AllTiers
  Messages <- AllMessages
  Workers = {w1, w2}
  MAX_CLIENTS = 1
  Crowd = 0
  LIFETIME = 1
  MAX_BINDINGS = 1
  MaxNow = 1
  MaxGrants = 2
  MaxGeneration = 3
  OperatorRevokes = 0
  Launched = TRUE
  LogMayFail = TRUE
  Says = {"once", "revoke", "grant", "badcard"}
  Surroundings = {"expire", "host", "close", "terminal", "desk"}
INVARIANTS
  StoreSafe
  ClosedStoreIsEmpty
PROPERTIES
  NoReplyAcrossRevoke
  OnlyLiveIsSpent
SYMMETRY WorkerSymmetry
