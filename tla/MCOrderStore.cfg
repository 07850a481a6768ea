SPECIFICATION Spec
CONSTANTS
  acct = acct
  c1 = c1
  c2 = c2
  e1 = e1
  e2 = e2
  e3 = e3
  Accounts <- MCAccounts
  ClientIds <- MCClientIds
  ExecIds <- MCExecIds
  Lots <- MCLots
  Prices <- MCPrices
  ReqSides <- MCSides
  MaxId = 2
  MaxEvents = 5
  MaxRestarts = 1
INVARIANTS
  StatusMatchesFills
  ExecsExplainFills
  AvgWithinTrades
  OneOrderPerKey
PROPERTIES
  TerminalFrozen
SYMMETRY Symmetric
