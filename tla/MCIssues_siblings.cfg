CONSTANTS
  first = first
  second = second
  Issues = {first, second}
  Setups <- Unreviewed
  Words = {"approve"}
  Signals = {"approve"}
  MaxReviews = 2
  MaxApr = 2
  MaxWork = 2
  MaxHuman = 2
  MaxFaults = 0
SPECIFICATION Spec
INVARIANTS PrimaryStands
PROPERTIES ImplementsDelivery
CHECK_DEADLOCK FALSE
