CONSTANTS
  Graphs <- AllGraphs
  Sessions = {s1, s2}
  Nobody = Nobody
  Nodes = {1, 2, 3, 4}
  End = 0
  MaxChildren = 2
  MaxApprovals = 2
  MaxDisturbances = 1
  Faults = {"crash", "hook", "timer"}
SPECIFICATION FairSpec
CHECK_DEADLOCK FALSE
INVARIANT TypeOK
INVARIANT OneChildPerNode
INVARIANT PassedWithCause
INVARIANT JoinedWithCause
INVARIANT RunningHasSession
INVARIANT NoLostWakeUp
PROPERTY EndIsFinal
PROPERTY KeepsPromise
PROPERTY ChildrenWakeRun
