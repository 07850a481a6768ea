SPECIFICATION Spec
CONSTANTS
  i1 = i1
  i2 = i2
  r1 = r1
  r2 = r2
  Instances <- MCInstances
  Requests <- MCRequests
  Prompt <- MCPrompt
  Ttl = 1
  MaxEpoch = 5
  MaxErrors = 1
  MaxFailures = 1
  MaxCrashes = 1
INVARIANTS
  AtMostOneLeader
  LeaderKnowsAcked
PROPERTIES
  SomeoneLeads
