SPECIFICATION Spec
CONSTANTS
  NumEntries = 4
  NameOf <- MCNameOf
  AppOf <- MCAppOf
  SlugOf <- MCSlugOf
  Local = {3}
  MaxBatches = 3
  MaxFaults = 1
INVARIANTS
  ScansOwnCode
  NothingLeft
PROPERTIES
  ReportsKept
