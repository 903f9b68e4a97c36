CONSTANTS
  first = first
  second = second
  Issues = {first}
  Setups <- Reviewed
  Words = {}
  Signals = {}
  MaxReviews = 2
  MaxApr = 3
  MaxWork = 3
  MaxHuman = 1
  MaxFaults = 0
SPECIFICATION Spec
PROPERTIES TerminalIsFinal
CHECK_DEADLOCK FALSE
