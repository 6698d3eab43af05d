CONSTANTS
  Sessions = {s1, s2}
  Principals = {p1, p2}
  NoOne = NoOne
  Threads = {t1, t2}
  NoThread = NoThread
  Ttl = 2
  Idle = 1
  MaxSessions = 2
  MaxPerOwner = 1
  MaxTime = 2
  MaxInFlight = 1
SPECIFICATION Spec
SYMMETRY Symmetry
INVARIANTS
  NoOrphanWorker
  
  NotifiedOnce
  
