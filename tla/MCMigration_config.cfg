CONSTANTS
  Procs = {c1}
  Targets = {{}, {"db", "config", "log"}, {"db", "wal", "config", "version"}}
  MaxCommands = 3
  MaxFaults = 0
SPECIFICATION Spec
INVARIANTS OldConfigUsed
CHECK_DEADLOCK FALSE
