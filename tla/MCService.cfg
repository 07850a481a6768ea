SPECIFICATION Spec
CONSTANTS
  a1 = a1
  a2 = a2
  c1 = c1
  c2 = c2
  h1 = h1
  h2 = h2
  Accounts <- MCOne
  ClientIds <- MCClientIds
  ExecIds <- MCExecIds
  Limits <- MCLimits
  Handlers <- MCHandlers
  Requests <- MCMixed
  FaultConfigs <- MCVenueKinds
  StartCash = 4
  MaxOrders = 2
  MaxRequests = 3
  MaxFails = 1
  MaxRestarts = 2
  MayCrash <- MCOrderly
  MaxOutages = 1
  MayDrop <- MCFilling
  MaxOps = 1
INVARIANTS
  AckedIsDurable
  AckedInMemory
  StoreWithinMemory
  FailedWriteHalts
  ReserveBacked
SYMMETRY Symmetric
CHECK_DEADLOCK FALSE
