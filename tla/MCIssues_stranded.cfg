CONSTANTS
  first = first
  second = second
  Issues = {first}
  Setups <- Reviewed
  Words = {"guidance"}
  Signals = {}
  MaxReviews = 3
  MaxApr = 1
  MaxWork = 1
  MaxHuman = 2
  MaxFaults = 0
SPECIFICATION Spec
INVARIANTS NotStranded
CHECK_DEADLOCK FALSE
