CONSTANTS
  Runs = {r1}
  Workers = {w1, w2}
  Requests = {q1, q2}
  NoRun = NoRun
  Modes = {"manager_worker", "brainstorm"}
  ManualStatuses = {}
  Asks = {"tool", "comment", "plan"}
  MaxDeliveries = 1
  MaxPending = 1
  Faults = {"crash", "redelivery", "abort"}
  RecoveryRegistered = TRUE
SPECIFICATION Spec
SYMMETRY Symmetry
INVARIANT TypeOK
INVARIANT ClaimIsRespected
INVARIANT ExclusiveUnlessOusted
INVARIANT QueuedRunIsDeliverable
PROPERTY TerminalRunIsAtRest
