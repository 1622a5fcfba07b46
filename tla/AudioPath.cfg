SPECIFICATION AudioSpec
CONSTANTS
  i1 = i1
  i2 = i2
  ItemIds = {i1, i2}
  NoItem = NoItem
  MarkNames <- MCMarkNames
  ChunkSizes = {8}
  OutboundQueueMax = 2
  MaxFrames = 3
SYMMETRY MCItemSymmetry
CHECK_DEADLOCK FALSE
INVARIANTS LedgerSound AudioStateOK CutQueueOrdered TruncatedOnce
PROPERTIES TruncationHonest ImplementsLedger
