SPECIFICATION HubSpec
CONSTANTS
  AccessTtl = 1
  RefreshTtl = 2
  Granted = {}
  MaxPairs = 2
  Instruments = {"btc"}
  Capacity = 1
  MaxSubscriptions = 1
  HeartbeatEvery = 1
  SessionTtl = 1
  Kinds = {"Tick"}
  MaxSessions = 2
  MaxEvents = 1
  MaxTexts = 2
  MaxNow = 2
INVARIANTS
  
  SilentAfterRevocation
  OneLiveRefresh
CHECK_DEADLOCK FALSE
