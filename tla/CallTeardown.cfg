SPECIFICATION LifeSpec
CONSTANTS
  MaxTurns = 2
  MaxQueue = 2
  DbFails = TRUE
  Shutdown = TRUE
CHECK_DEADLOCK FALSE
INVARIANTS TurnStoredOnce TurnsAccounted DrainBeforeClose
PROPERTIES CallAlwaysHandedOff
