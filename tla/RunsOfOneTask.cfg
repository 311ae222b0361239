CONSTANTS
  Runs = {r1, r2}
  Workers = {w1, w2}
  Requests = {q1}
  NoRun = NoRun
  Modes = {"single_agent", "manager_worker"}
  ManualStatuses = {"cancelled"}
  Asks = {"conflict", "comment", "plan"}
  MaxDeliveries = 1
  MaxPending = 1
  Faults = {"unsent", "abort"}
  RecoveryRegistered = FALSE
SPECIFICATION Spec
SYMMETRY Symmetry
INVARIANT QueuedRunIsDeliverable
INVARIANT TaskNotLeftInProgress
