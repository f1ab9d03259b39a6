SPECIFICATION Spec
CONSTANTS
  Worker = {w1, w2}
  Vias = {"cli", "codex"}
  Agentic = TRUE
  RLMaxRetries = 0
  TimeoutMaxRetries = 0
  PendingMaxRetries = 1
  GuardrailFloor = 2
  NumTasks = 3
SYMMETRY Symmetry
INVARIANTS
  VerdictsTruthful
  NoAbortInReport
PROPERTIES
  ResetRevivesNobody
