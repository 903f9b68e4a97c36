CONSTANTS
  Procs = {c1}
  Targets = {{}, {"db", "config", "log"}, {"db", "wal", "config", "version"}}
  MaxCommands = 3
  MaxFaults = 1
SPECIFICATION Spec
INVARIANTS SidecarFollows
CHECK_DEADLOCK FALSE
