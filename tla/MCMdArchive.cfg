\* Bars of two intervals; a client pages through those of the first.
SPECIFICATION ArchiveSpec
CONSTANTS
  Durations = {1, 2}
  Prices = {10, 20}
  Quantities = {1}
  Seeds = 3
  Start = 4
  Asks = {"bars"}
  Limit = 2
  MaxRecords = 3
  MaxClock = 6
  MaxBack = 1
INVARIANTS
  BarsMatchTrades
  BarPagesCover
CHECK_DEADLOCK FALSE
