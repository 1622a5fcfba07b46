SPECIFICATION RecordSpec
CONSTANTS
  Deliveries = {"status1", "status2"}
  Senders = {"status1", "status2", "pay11", "pay12", "pay21", "pay22"}
  Invocations = {1, 2}
  Attempts = {1, 2}
  PayAttempt <- MCPayAttempt
  Keys = {"missed", "pay"}
  NoKey = "nokey"
  MissedKey = "missed"
  PayKey = "pay"
  MaxCrashes = 1
  MaxAskedIfFailed = 1
CHECK_DEADLOCK FALSE
INVARIANTS RecordOK GatewayOutcomeStands PayToldTruth
PROPERTIES ImplementsOutbox EndedCallHasOutcome
