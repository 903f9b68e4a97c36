CONSTANTS
  first = first
  second = second
  Issues = {first}
  Setups <- Every
  Words = {"approve", "guidance"}
  Signals = {"approve", "merge", "reject"}
  MaxReviews = 2
  MaxApr = 2
  MaxWork = 2
  MaxHuman = 2
  MaxFaults = 1
SPECIFICATION Spec
INVARIANTS TypeOK
PROPERTIES ReworksBounded DoneIsMerged MergeAuthorised
CHECK_DEADLOCK FALSE
