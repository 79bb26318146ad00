SPECIFICATION Spec
CONSTANTS
  None = None
  Processes <- MCProcesses
  Sessions = {"s1", "s2"}
  Parents = {}
  Owners = {"o1"}
  Agent = "o1"
  Watcher = "watcher"
  Starter = "starter"
  Hooks <- MCHooks
  EventOf <- MCEventOf
  SessionOf <- MCSessionOf
  Manual = FALSE
  MayDie = {"watcher", "request"}
  MayFail = TRUE
PROPERTIES
  
  RecordOnlyGrows
