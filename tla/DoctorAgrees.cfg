SPECIFICATION CommandSpec
CONSTANTS
  None = None
  Args <- MCArgs
  Packaged <- Default
  Machines <- MCMachines
  MaxCommands = 1
  MaxCommits = 1
INVARIANTS
  DoctorAgrees
CHECK_DEADLOCK FALSE
