SPECIFICATION Spec
CONSTANTS
  acct = acct
  c1 = c1
  c2 = c2
  c3 = c3
  Accounts <- MCAccounts
  ClientIds <- MCThreeClientIds
  ExecIds <- MCExecIds
  Limits <- MCLimits
  FaultConfigs <- MCFaults
  Requests <- MCMixed
  Lots <- MCOneTwo
  Prices <- MCTwo
  StartCash = 5
  MaxOrders = 3
  MaxReplaces = 1
  ReplaceEach = 1
  MaxTicks = 2
  MaxSessions = 2
  ReplaceStatuses <- IsWorking
INVARIANTS
  PositionIsNetFills
  HeldIsNeeded
  CaughtUp
  ReconcileIsRight
  ApprovedIsReserved
SYMMETRY Symmetric
