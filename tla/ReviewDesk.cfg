SPECIFICATION FairDeskSpec
CONSTANTS
  None = None
  Bases <- MCBases
  Shells <- MCShells
  SessionOf <- MCSessionOf
  Commands <- MCCommands
  Cards <- MCCards
  TierOf <- MCTierOf
  Messages <- MCMessages
  Workers = {w1, w2}
  MAX_CLIENTS = 2
  Crowd = 1
  LIFETIME = 1
  MAX_BINDINGS = 1
  MaxNow = 0
  MaxGrants = 2
  MaxGeneration = 8
  OperatorRevokes = 5
  Launched = FALSE
  LogMayFail = FALSE
  Says = {"once", "deny", "abstain", "grant"}
  Surroundings = {"expire", "desk", "close"}
  MAX_PENDING = 1
  MaxKeys = 2
  w1 = w1
  w2 = w2
  Scenarios <- MCScenarios
INVARIANTS
  WaitingIsReachable
PROPERTIES
  AnswerWasSeen
  ImplementsWatcher
  RequestsEndOrWait
  ControlGetsThrough
