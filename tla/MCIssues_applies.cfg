CONSTANTS
  first = first
  second = second
  Issues = {first}
  Setups <- Reviewed
  Words = {}
  Signals = {}
  MaxReviews = 2
  MaxApr = 2
  MaxWork = 2
  MaxHuman = 1
  MaxFaults = 0
SPECIFICATION Spec
PROPERTIES RunApplies
CHECK_DEADLOCK FALSE
