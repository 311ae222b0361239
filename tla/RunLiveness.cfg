CONSTANTS
  Runs = {r1}
  Workers = {w1}
  Requests = {q1}
  NoRun = NoRun
  Modes = {"single_agent", "review", "manager_worker", "brainstorm"}
  ManualStatuses = {"needs_review"}
  Asks = {"tool", "conflict", "comment", "plan"}
  MaxDeliveries = 1
  MaxPending = 1
  Faults = {"crash", "redelivery", "unsent", "abort"}
  RecoveryRegistered = TRUE
SPECIFICATION FairSpec
PROPERTY StuckRunReleased
PROPERTY QueuedRunStarts
