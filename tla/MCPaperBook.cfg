SPECIFICATION Spec
CONSTANTS
  a1 = a1
  a2 = a2
  k1 = k1
  k2 = k2
  k3 = k3
  k4 = k4
  k5 = k5
  Accounts <- MCAccounts
  Keys <- MCKeys
  Amounts <- MCAmounts
  Lots <- MCLots
  Fees <- MCFees
INVARIANTS
  Solvent
  PositionExplained
SYMMETRY Symmetric
