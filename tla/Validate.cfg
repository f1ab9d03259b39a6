SPECIFICATION Spec
CONSTANTS
  a = a
  b = b
  Findings = {a, b}
  Order <- ReportOrder
  Title <- Titles
  Within <- Prefixes
  Location <- Locations
  NoLocation = "unknown"
  Sessions <- MCSessions
  None = None
  MaxPatches <- Patches
  RootFiles = {"diff.patch", "manifest.json"}
  MaxRuns = 2
  MaxCrashes = 1
PROPERTIES
  ImplementsLifecycle
  ValidatedIsEarned
  ResultAgreesWithDto
