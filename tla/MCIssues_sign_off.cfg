CONSTANTS
  first = first
  second = second
  Issues = {first}
  Setups <- SignedOff
  Words = {}
  Signals = {"approve"}
  MaxReviews = 2
  MaxApr = 3
  MaxWork = 3
  MaxHuman = 2
  MaxFaults = 0
SPECIFICATION Spec
PROPERTIES SignOffCompletes
CHECK_DEADLOCK FALSE
