CONSTANTS
  first = first
  second = second
  Issues = {first}
  Setups <- Reviewed
  Words = {"guidance"}
  Signals = {"approve"}
  MaxReviews = 2
  MaxApr = 3
  MaxWork = 3
  MaxHuman = 3
  MaxFaults = 0
SPECIFICATION Spec
PROPERTIES LatestGateDecides
CHECK_DEADLOCK FALSE
