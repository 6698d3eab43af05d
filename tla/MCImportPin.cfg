CONSTANTS
  MaxResults = 2
  StringBudget = 2
  MatchBudget = 1
  IdentifyBudget = 2
  MaxBlocks = 1
  MaxOps = 2
  MaxRead = 3
  ReadLength = 2
  MaxItems = 3
  Entries = {1, 2, 3}
  NoFunction = 0
  MaxNodes = 3
  MaxEdges = 6
  MaxDepth = 2
  Cap = 2
  Depth = 2
  MaxSteps = 4
  MaxStubs = 2
  Ops = {1, 2}
  HeaderSize = 1
  MinPage = 2
  MaxPage = 4
  MaxMembers = 2
  Field = 1
  SizeCap = 7
  Plausible = 6
  MaxOutput = 6
  MaxRatio = 2
  AddressSpace = 4
  MaxFile = 8
  TypeNames = {"A", "B", "C"}
  MaxPointers = 1
  MaxArray = 2
  MaxFields = 4
  MaxOffset = 2
  MaxAddress = 5
  MaxReadBytes = 3
  ProgramFunctions <- MCFunctions
  Calls <- MCCalls
  CallNodes <- MCCallNodes
  Exported <- MCExports
  Renamed = {1}
  Commented <- MCComments
  PageSize = 2
  Caps = {1, 4}
  ChunkSize = 3
  MaxUnkeyed = 1
  Requests = {1}
  Users = {"ann", "bob"}
  WriteScope = "write"
  Clients = {"x", "y", "z"}
  MaxBuckets = 2
  Burst = 2
  Rate = 1
  MaxTime = 4
  MaxDecisions = 5
  Probes = {"a", "b"}
  Ttl = 2
  LastTime = 5
SPECIFICATION ToolsSpec
INVARIANT PinHonoured
CHECK_DEADLOCK FALSE
