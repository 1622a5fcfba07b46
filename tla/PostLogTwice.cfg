SPECIFICATION PostSpec
CONSTANTS
  Calls = {"c1", "c2"}
  Analysed = {"c2"}
  MaxRetries = 1
  MaxLost = 1
CHECK_DEADLOCK FALSE
INVARIANT CallLoggedOnce
