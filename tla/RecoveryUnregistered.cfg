CONSTANTS
  Runs = {r1}
  Workers = {w1}
  Requests = {q1}
  NoRun = NoRun
  Modes = {"single_agent"}
  ManualStatuses = {}
  Asks = { }
  MaxDeliveries = 1
  MaxPending = 0
  Faults = {"crash"}
  RecoveryRegistered = FALSE
SPECIFICATION FairSpec
PROPERTY StuckRunReleased
