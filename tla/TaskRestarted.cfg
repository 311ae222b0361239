CONSTANTS
  Runs = {r1, r2}
  Workers = {w1, w2}
  Requests = {q1}
  NoRun = NoRun
  Modes = {"single_agent"}
  ManualStatuses = {}
  Asks = { }
  MaxDeliveries = 1
  MaxPending = 0
  Faults = {}
  RecoveryRegistered = FALSE
SPECIFICATION Spec
SYMMETRY Symmetry
PROPERTY CompletedTaskIsNotRestarted
