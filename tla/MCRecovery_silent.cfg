CONSTANTS
  Enabled = TRUE
  MaxRetries = 1
  Chain = 1
  MaxHuman = 0
  MaxFaults = 0
  MaxCrashes = 0
SPECIFICATION Spec
PROPERTY EveryFailureReported
CHECK_DEADLOCK FALSE
