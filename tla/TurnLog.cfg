SPECIFICATION TurnSpec
CONSTANTS
  i1 = i1
  i2 = i2
  x1 = x1
  Items = {i1, i2}
  TextItems = {x1}
  NoItem = NoItem
  MaxPlayedMs = 1
  MaxCallerTurns = 2
SYMMETRY MCSymmetry
CHECK_DEADLOCK FALSE
INVARIANTS TurnRowsOK
PROPERTIES TruncationIsFinal NoTextLost
