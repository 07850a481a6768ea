SPECIFICATION Spec
CONSTANTS
  Levels <- MCLevels
  Vendors = {"coinbase", "databento", "alpaca"}
  ClockSeq = 9
  Sla = 1
  MaxSeq = 4
  MaxQuotes = 1
  MaxDrops = 1
  MaxCloses = 1
  MaxBad = 1
INVARIANTS
  BookAgrees
  
PROPERTIES
  TicksInOrder
  
CHECK_DEADLOCK FALSE
