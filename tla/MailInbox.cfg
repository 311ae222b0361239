SPECIFICATION Spec
CONSTANTS
  Subscriptions = {s1, s2}
  Mailbox = Mailbox
  Providers = {"gmail", "outlook"}
  Handlers = {h1}
  Workers = {w1, w2}
  PageSize = 1
  MaxRetries = 1
  MaxMessages = 2
  MaxDisturbances = 1
  Disturbances = {"crash", "provider", "transport", "cursor", "token", "workflow", "webhook", "redelivery", "repeat", "renewal", "disable", "disconnect"}
INVARIANTS
  TypeOK
  CursorBehindRuns
  ProcessedIsHandled
  OneWorkerPerEvent
  InsertedStartsFirst
  NoEventForgotten
SYMMETRY WorkersAreAlike
CHECK_DEADLOCK FALSE
