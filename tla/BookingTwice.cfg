SPECIFICATION BookSpec
CONSTANTS
  d1 = d1
  d2 = d2
  k1 = k1
  Dispatches <- MCDispatches
  Keys <- MCKeys
  KeyOf <- MCKeyOf
  MaxAttempts = 2
CHECK_DEADLOCK FALSE
INVARIANTS NoDoubleBooking
