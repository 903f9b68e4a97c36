CONSTANTS
  MaxPlans = 1
  MaxRuns = 1
  MaxHuman = 2
  MaxRetries = 1
  Enabled = TRUE
  MaxFaults = 1
  MaxCrashes = 0
SPECIFICATION Spec
INVARIANT OneApply
CHECK_DEADLOCK FALSE
