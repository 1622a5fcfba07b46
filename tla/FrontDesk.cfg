SPECIFICATION FrontSpec
CONSTANTS
  Clients = {"c1", "c2"}
  Numbers = {"n1", "n2"}
  Paths = {1, 2}
  MaxEdits = 2
  Replays = {"r1", "r2", "r3"}
  SlotsPerDay = 4
  Windows <- MCWindows
  HorizonDays = 14
  Postcodes = {"60601"}
  MaxLookups = 2
  Latencies = {800, 1400, 1401}
  Cutoffs = {200, 201}
  Discards = {100, 101}
  MaxRows = 21
  OtherWeight = 7
  MaxTransfers = 2
CHECK_DEADLOCK FALSE
INVARIANTS RegistryOK RulesOK GateOK TransferOK
PROPERTIES EditsTakeEffect ReplayOK RecordingOK
