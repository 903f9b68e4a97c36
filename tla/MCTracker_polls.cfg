CONSTANTS
  e1 = e1
  c1 = c1
  l1 = l1
  r1 = r1
  p1 = p1
  c2 = c2
  Entries = {e1, e2}
  Comments = {c1, c2, c3, c4}
  Reactions = {r1, r2}
  Pulls = {p1, p2}
  Labels = {l1}
  Seed <- MCSeed
  Providers = {"local", "hosted"}
  Platform = {c4}
  Coarse = FALSE
  MaxWrites = 2
  MaxFaults = 1
SPECIFICATION Spec
INVARIANTS StampsTell TasksCurrent
PROPERTIES ToldOnce Converges Heard
CHECK_DEADLOCK FALSE
