SPECIFICATION Spec
CONSTANTS
  None = None
  Bases <- MCBases
  Shells <- MCShells
  SessionOf <- MCSessionOf
  Commands <- GrantCommands
  Cards <- GrantCards
  TierOf <- GrantTiers
  Messages <- GrantMessages
  Workers = {w1, w2, w3}
  MAX_CLIENTS = 3
  Crowd = 0
  LIFETIME = 1
  MAX_BINDINGS = 1
  MaxNow = 0
  MaxGrants = 3
  MaxGeneration = 5
  OperatorRevokes = 1
  Launched = FALSE
  LogMayFail = FALSE
  Surroundings = {}
  Says = {"once", "grant"}
INVARIANTS
  OnlyDeliveredGrants
  GrantIsWhatTheHumanSaw
  NothingOutlivesRevoke
PROPERTIES
  KeepsPromise
SYMMETRY WorkerSymmetry
