CONSTANTS
  Sessions = {s1}
  Principals = {p1}
  NoOne = NoOne
  Threads = {loop, reaper}
  NoThread = NoThread
  Loop = loop
  Reaper = reaper
  Jobs = {j1, j2, j3}
  Tools = {"import"}
  Ttl = 1
  Idle = 1
  MaxSessions = 1
  MaxPerOwner = 1
  MaxTime = 0
  MaxInFlight = 1
SPECIFICATION StreamSpec
SYMMETRY Symmetry
INVARIANT OneActiveJob
