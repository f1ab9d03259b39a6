SPECIFICATION Spec
CONSTANTS
  Calls = {c1, c2}
  Sites <- MCSites
  BaseAttempts = 3
  MaxAttempts = 6
  MaxTransients = 1
  MaxShrinks = 2
  TurnCap = 2
  CallsPerTurn = 2
INVARIANTS
  ParametersNeverLose
  OverflowIsLast
  OneClient
PROPERTY
  CallsEnd
