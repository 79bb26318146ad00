SPECIFICATION Spec
CONSTANTS
  None = None
  Processes <- MCProcesses
  Starter = "start"
  Checks = {c1, c2}
  Handoffs = {"h1"}
  Receivers = {"r1", "r2"}
  HandoffOf <- MCHandoffOf
  Received <- MCReceived
  Checkpointers = {"k1"}
  Instructions = {"smaller", "larger"}
  Values = {"one", "two"}
  Printed <- MCPrinted
  Scenarios <- MCScenarios
  MaxEdits = 1
  MayDie = {"r1"}
  MayFail = TRUE
INVARIANTS
  ConsentCoversProbe
  LogBehindState
  VerifiedForItsSource
  DeliveredOnce
PROPERTIES
  HistoryKept
SYMMETRY MCSymmetry
