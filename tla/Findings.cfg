SPECIFICATION Spec
CONSTANTS
  Chunk = {"c1", "c2"}
  Finding = {1, 2, 3, 4, 5, 6}
  Desc <- MCDesc
  RunsOf <- MCRunsOf
  VoteThreshold <- MCThreshold
  FindingsCap = 2
  LineBucket = 10
  LineTolerance = 9
  MinConfidence = 1
  NeedEvidence = FALSE
  PreThreshold = 3
  Answers = {"sure", "refuted", "unreadable"}
  Bands = 1
  MaxNamed = 1
INVARIANTS
  Accounted
  IndicesHome
  SitesKept
  ExposureBacked
