CONSTANTS
  Sessions = {s1}
  Principals = {p1}
  NoOne = NoOne
  Threads = {loop, w1, reaper}
  NoThread = NoThread
  Loop = loop
  Reaper = reaper
  Tools = {"import", "analyze", "close"}
  Ttl = 1
  Idle = 2
  MaxSessions = 1
  MaxPerOwner = 1
  MaxTime = 1
  MaxInFlight = 2
SPECIFICATION DispatchFairSpec
PROPERTIES
  
  EvictionCompletes
  TtlReclaims
