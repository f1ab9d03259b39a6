SPECIFICATION Spec
CONSTANTS
  AutoStep1 = TRUE
  Oversize = {4}
  Stops = {1, 4, 5, 6, 8}
  MaxScans = 3
  MaxCrashes = 2
  MaxLost = 1
INVARIANTS
  FreshSlate
  Coherent
  CrashCostsOneStage
  StopHonoured
