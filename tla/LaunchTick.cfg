SPECIFICATION Spec
CONSTANTS
  None = None
  Processes <- MCProcesses
  Sessions = {"s1", "s2"}
  Parents = {}
  Owners = {"o1"}
  Agent = "o1"
  Watcher = "watcher"
  Starter = "starter"
  Hooks <- MCFewHooks
  EventOf <- MCEventOf
  SessionOf <- MCSessionOf
  Manual = TRUE
  MayDie = {}
  MayFail = FALSE
INVARIANTS
  WatcherEndsWithOwner
