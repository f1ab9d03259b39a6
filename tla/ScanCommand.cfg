SPECIFICATION CommandSpec
CONSTANTS
  None = None
  Args <- MCArgs
  Packaged <- Default
  Machines <- MCMachines
  MaxCommands = 2
  MaxCommits = 1
INVARIANTS
  DetectionReady
  EditsKnowTheHead
PROPERTIES
  GapsDegrade
CHECK_DEADLOCK FALSE
