CONSTANTS
  Threads = {loop, w1}
  Loop = loop
  NoThread = NoThread
  Requests = {r1}
  Streams = {j1, j2, j3}
  Long = j1
  NoId = NoId
  Functions <- MCFunctions
  Room = 2
SPECIFICATION RpcFairSpec
INVARIANTS SocketOwned FaultsExplained CompleteUnlessSignalled
PROPERTIES CancelFrees 
CHECK_DEADLOCK FALSE
