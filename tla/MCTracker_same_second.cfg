CONSTANTS
  e1 = e1
  c1 = c1
  l1 = l1
  r1 = r1
  p1 = p1
  c2 = c2
  Entries = {e1, e2}
  Comments = {c1, c2, c3}
  Reactions = {r1, r2}
  Pulls = {p1, p2}
  Labels = {l1}
  Seed <- MCSeed
  Providers = {"hosted"}
  Platform = {}
  Coarse = TRUE
  MaxWrites = 2
  MaxFaults = 0
SPECIFICATION Spec
PROPERTY Converges
CHECK_DEADLOCK FALSE
