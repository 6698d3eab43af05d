CONSTANTS
  Sessions = {s1}
  Principals = {p1, p2}
  NoOne = NoOne
  Threads = {loop, w1, reaper}
  NoThread = NoThread
  Loop = loop
  Reaper = reaper
  Tools = {"status", "import", "analyze", "read", "annotate", "retype", "enable", "allow", "disable", "close"}
  Ttl = 2
  Idle = 1
  MaxSessions = 1
  MaxPerOwner = 1
  MaxTime = 2
  MaxInFlight = 2
SPECIFICATION DispatchSpec
SYMMETRY Symmetry
INVARIANTS
  InFlightExact
  MediatedPort
PROPERTY CallKeepsSession
