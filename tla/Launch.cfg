SPECIFICATION FairSpec
CONSTANTS
  None = None
  Processes <- MCProcesses
  Sessions = {"s1", "s2"}
  Parents = {}
  Owners = {"o1", "o2"}
  Agent = "o1"
  Watcher = "watcher"
  Starter = "starter"
  Hooks <- MCOneHook
  EventOf <- MCEventOf
  SessionOf <- MCSessionOf
  Manual = FALSE
  MayDie = {"o1"}
  MayFail = FALSE
INVARIANTS
  OwnersInTurn
PROPERTIES
  NoStaleEndpoint
  EveryRunEnds
