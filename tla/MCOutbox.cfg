SPECIFICATION Spec
CONSTANTS
  p1 = p1
  p2 = p2
  Publishers <- MCPublishers
  BatchLimit = 2
  Window = 1
  MaxEvents = 2
  MaxFaults = 2
  MaxCrashes = 1
  MaxFlips = 1
INVARIANTS
  PublishedWasSent
  CopiesExplained
PROPERTIES
  EventuallyPublished
CHECK_DEADLOCK FALSE
