SPECIFICATION Spec
CONSTANTS
  acct = acct
  c1 = c1
  c2 = c2
  Accounts <- MCAccounts
  ClientIds <- MCClientIds
  ExecIds <- MCExecIds
  Limits <- MCLimits
  Kinds <- MCKinds
  Requests <- MCRequests
  Lots <- MCOneThree
  Prices <- MCOne
  StartCash = 6
  MaxCommands = 3
  MaxReconnects = 1
  MaxLost = 2
  MaxFaults = 2
INVARIANTS
  NoPhantomFills
  AgreesWithVenue
PROPERTIES
  StreamInOrder
  CallReturns
CHECK_DEADLOCK FALSE
