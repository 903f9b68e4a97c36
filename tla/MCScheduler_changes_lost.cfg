CONSTANTS
  Posts = {p1}
  NoPost = NoPost
  MaxTasks = 4
  MaxRetries = 1
  EngageAfter = 1
  MaxAttempts = 2
  MaxHuman = 1
  MaxStops = 0
  MaxFaults = 1
SPECIFICATION Spec
PROPERTY ChangesBecomeTasks
CHECK_DEADLOCK FALSE
