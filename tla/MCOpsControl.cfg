SPECIFICATION Spec
CONSTANTS
  Handlers = {h1, h2}
  Accounts = {"acct"}
  Instruments = {"XYZ"}
  Actors = {"ann", "bob"}
  Restricted = {"XYZ"}
  Patches <- MCPatches
  Quantities = {1}
  StartLimit = 1
  MaxRequests = 3
  MaxFailures = 1
  MaxCrashes = 1
INVARIANTS
  StopHolds
  TrailIntact
  AckedIsOnRecord
  DualControl
CHECK_DEADLOCK FALSE
