CONSTANTS
  Procs = {c1}
  Targets = {{}, {"db", "config", "log"}, {"db", "wal", "config", "version"}}
  MaxCommands = 1
  MaxFaults = 0
SPECIFICATION Spec
INVARIANTS OldLogMoved
CHECK_DEADLOCK FALSE
