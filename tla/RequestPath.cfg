SPECIFICATION Spec
CONSTANTS
  None = None
  Hooks = {"h1", "h2"}
  Servers = {"s1", "s2"}
  Crashes = 1
  Verdicts <- MCVerdicts
  Root <- MCRoot
  MaxSeen = 1
  Scenarios <- MCScenarios
INVARIANTS
  EndpointNamesTheOwner
  HandledOnce
  OnlyRoutineOrAnswered
  ReceiptTellsTheTruth
