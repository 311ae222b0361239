CONSTANTS
  Runs = {r1}
  Workers = {w1, w2}
  Requests = {q1}
  NoRun = NoRun
  Modes = {"single_agent"}
  ManualStatuses = {}
  Asks = {"tool"}
  MaxDeliveries = 1
  MaxPending = 1
  Faults = {}
  RecoveryRegistered = FALSE
SPECIFICATION Spec
SYMMETRY Symmetry
INVARIANT ExclusiveExecution
