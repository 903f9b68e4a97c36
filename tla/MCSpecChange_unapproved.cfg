CONSTANTS
  MaxPlans = 2
  MaxRuns = 2
  MaxHuman = 3
  MaxRetries = 1
  Enabled = TRUE
  MaxFaults = 0
  MaxCrashes = 0
SPECIFICATION Spec
INVARIANT OnlyApprovedLive
CHECK_DEADLOCK FALSE
