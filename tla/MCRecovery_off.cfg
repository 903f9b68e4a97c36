CONSTANTS
  Enabled = FALSE
  MaxRetries = 3
  Chain = 2
  MaxHuman = 2
  MaxFaults = 1
  MaxCrashes = 1
SPECIFICATION Spec
INVARIANTS OnePost RetriesCapped ClosedStops NeverSilent PostsSettle OneAgent
PROPERTY TriedAgain
CHECK_DEADLOCK FALSE
