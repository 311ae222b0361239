CONSTANTS
  Connectors <- Claiming
  Sessions = {s1, s2, s3}
  Nobody = Nobody
  MaxVersions = 2
  MaxCalls = 3
  Faults = {"crash", "raise", "chat", "ambiguous", "owner"}
SPECIFICATION Spec
SYMMETRY Symmetry
CHECK_DEADLOCK FALSE
INVARIANT TypeOK
INVARIANT RunAwaitsCurrentVersion
INVARIANT SentAsApproved
INVARIANT SucceededWasPerformed
INVARIANT DoneIsOnRecord
PROPERTY OutcomeIsFinal
PROPERTY KeepsPromise
