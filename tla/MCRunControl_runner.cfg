CONSTANTS
  Runners = {r1, r2}
  Nobody = Nobody
  MaxCommands = 1
  MaxComments = 1
  MaxEvents = 1
  MaxSpawns = 2
SPECIFICATION FairSpec
INVARIANTS OneRunner
PROPERTIES StopLands CommandHeard
CHECK_DEADLOCK FALSE
