CONSTANTS
  Posts = {p1}
  NoPost = NoPost
  MaxTasks = 7
  MaxRetries = 1
  EngageAfter = 1
  MaxAttempts = 2
  MaxHuman = 1
  MaxStops = 1
  MaxFaults = 0
SPECIFICATION FairSpec
PROPERTIES StopTerminates StopIsFinal
CHECK_DEADLOCK FALSE
