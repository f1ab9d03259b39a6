CONSTANTS
  NumFindings = 2
  Lists <- BothOrders
  ci = ci
  new = new
  File = {ci, new}
  FileOf <- BothInCi
  Existing = {ci}
  Ignorable = {ci}
  Forbidden = {ci, new}
  Binary = {}
  Denied = {2}
  Enforce = TRUE
  MaxSessions = 2
  MaxCrashes = 1
SPECIFICATION Spec
INVARIANTS
  ForbiddenKept
  ClaimIsClean
  PatchIsClean
  SkipsAreDone
PROPERTIES
  OthersEditsKept
