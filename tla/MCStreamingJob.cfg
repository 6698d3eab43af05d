CONSTANTS
  Sizes = {1, 3}
  MaxBufferChunks = 2
  MaxBufferBytes = 4
  MaxReplayChunks = 2
  MaxReplayBytes = 4
  MaxFetchBatch = 3
  MaxFunctions = 4
  MaxLosses = 2
SPECIFICATION FairSpec
INVARIANTS GapFree HonestEnd WindowsBounded BytesExact
PROPERTIES ClientLearnsEnd ImplementsContract
CHECK_DEADLOCK FALSE
