CONSTANTS
  Procs = {c1, c2}
  Targets = {{}, {"db", "config", "log"}, {"db", "wal", "config", "version"}}
  MaxCommands = 3
  MaxFaults = 1
SPECIFICATION Spec
INVARIANTS TypeOK OldKept CurrentShape NotShadowed
CHECK_DEADLOCK FALSE
SYMMETRY Symmetry
