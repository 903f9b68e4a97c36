CONSTANTS
  Posts = {p1}
  NoPost = NoPost
  MaxTasks = 4
  MaxRetries = 1
  EngageAfter = 1
  MaxAttempts = 2
  MaxHuman = 2
  MaxStops = 0
  MaxFaults = 1
SPECIFICATION Spec
INVARIANTS InProgressOwned AppliedOnce SafetyInv InterruptReaches
PROPERTIES QuotaParksWork ImplementsLanes
CHECK_DEADLOCK FALSE
