SPECIFICATION BudgetSpec
CONSTANTS
  Publishers = {"pump", "watch"}
  Viewers = {"all", "one"}
  OnlyOf <- MCOnlyOf
  QueueMax = 2
  MaxEvents = 1
  MaxConnects = 1
  Watch = "watch"
  Budgets <- MCBudgets
  Tick = 1
  MaxStall = 1
  MaxElapsed = 5
CHECK_DEADLOCK FALSE
INVARIANTS FeedOK BudgetOK
PROPERTIES FeedNeverStuck ExpiredCallEnds
