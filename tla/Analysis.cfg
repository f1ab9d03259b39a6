SPECIFICATION AnalysisSpec
CONSTANTS
  Files <- MCFiles
  Lang <- MCLang
  Path <- MCPath
  Ext <- MCExt
  Bytes <- MCBytes
  Escaping = {}
  ExclDirs = {"tests"}
  ExclExts = {"png"}
  ExclGlobs = {}
  MaxBytes = 9
  Fns <- MCFns
  Imports <- MCImports
  Plugins = {"python", "java"}
  SourceRules <- MCSources
  SinkRules <- MCSinks
  Compat <- MCCompat
  RiskyKinds = {"exec", "sql"}
  Protected = {"html-response"}
  Sanitizers = {"escape"}
  Accessor <- MCAccessor
  MaxTargets = 2
  BaseHops = 1
  HighHops = 2
  PerSource = 3
  PathBudget = 2
  LargeFanout = 9
  Extra = 1
  FanoutExtra = 1
  ConfigExts = {"yml"}
  Shape <- MCShape
  MinCluster = 3
  KeepPerTopDir = TRUE
  ManyFiles = 500
  ManyEntries = 10
  FewSinks = 5
  AppFile = {}
  MapAnswers <- MCAnswers
  TreeSitter = TRUE
  Rounds = 2
  Loc <- MCLoc
  MaxHops = 3
  MaxTaint = 9
  CleanNames = {"escape"}
  RiskLoc = 40
  MaxFiles = 4
  CatchLoc = 30
  CatchFiles = 2
  SpecLoc = 50
  MinRatio = 20
  SkipExts = {"md"}
  SkipDirs = {"docs"}
  SkipNames = {}
  SecurityConfigs = {}
  IacFiles = {}
  Specialists <- MCSpecialists
  SeenBy <- MCSeenBy
  Threats <- MCThreats
  ThreatFiles = 2
  SmallLoc = 20
  LargeLoc = 40
  Pad = 2
  GraphPad = 1
  MaxFuncs = 3
  Window = 6
  Overlap = 2
  NeighborLines = 3
  MaxNeighbors = 2
  Program <- MCProgram
  Cases <- MCCases
  Plans <- MCPlans
INVARIANTS
  FlowsFound
  SignalsKept
  Covered
  FlowsReviewed
