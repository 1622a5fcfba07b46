SPECIFICATION CallSpec
CONSTANTS
  MaxToolFailures = 2
  MaxNegativeTurns = 2
  LiveSentiment = TRUE
  MaxEvents = 4
CHECK_DEADLOCK FALSE
INVARIANTS NoTriggerMissed OneTransferPerCall CallStateExact
PROPERTIES SafetyAlwaysEscalates
