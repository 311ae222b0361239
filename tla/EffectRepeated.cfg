CONSTANTS
  Connectors <- Unclaimed
  Sessions = {s1, s2}
  Nobody = Nobody
  MaxVersions = 1
  MaxCalls = 2
  Faults = {}
SPECIFICATION Spec
SYMMETRY Symmetry
CHECK_DEADLOCK FALSE
INVARIANT ApprovalActsOnce
