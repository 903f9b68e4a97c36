CONSTANTS
  MaxPlans = 2
  MaxRuns = 2
  MaxHuman = 2
  MaxRetries = 1
  Enabled = FALSE
  MaxFaults = 1
  MaxCrashes = 1
SPECIFICATION Spec
INVARIANTS TypeOK AskedOnce ApprovalKept
PROPERTIES DecidedOnce ApprovalLands
CHECK_DEADLOCK FALSE
