CONSTANTS
  Sessions = {s1}
  Principals = {p1}
  NoOne = NoOne
  Threads = {loop, reaper}
  NoThread = NoThread
  Loop = loop
  Reaper = reaper
  Jobs = {j1}
  Tools = {"import", "close"}
  Ttl = 1
  Idle = 1
  MaxSessions = 1
  MaxPerOwner = 1
  MaxTime = 1
  MaxInFlight = 1
SPECIFICATION StreamFairSpec
PROPERTIES
  EvictionDiscardsJobs
  
