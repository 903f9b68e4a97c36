CONSTANTS
  Runners = {r1}
  Nobody = Nobody
  MaxCommands = 1
  MaxComments = 1
  MaxEvents = 0
  MaxSpawns = 2
SPECIFICATION Spec
PROPERTY CommandFiresOnce
CHECK_DEADLOCK FALSE
