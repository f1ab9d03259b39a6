SPECIFICATION FairSpec
CONSTANTS
  Worker = {w1, w2}
  Vias = {"cli", "codex"}
  Agentic = FALSE
  RLMaxRetries = 1
  TimeoutMaxRetries = 1
  PendingMaxRetries = 0
  GuardrailFloor = 2
  NumTasks = 2
  RunsOf <- MCRunsOf
INVARIANTS
  QuietOnExit
  CliAbortReachesAll
  AtMostOneLateChild
  OutcomesTruthful
PROPERTIES
  ImplementsContract
  PoolEnds
  AbortEnds
