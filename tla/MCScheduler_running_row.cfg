CONSTANTS
  Posts = {p1}
  NoPost = NoPost
  MaxTasks = 4
  MaxRetries = 1
  EngageAfter = 1
  MaxAttempts = 2
  MaxHuman = 2
  MaxStops = 0
  MaxFaults = 0
SPECIFICATION Spec
INVARIANT RunningRowKept
CHECK_DEADLOCK FALSE
