CONSTANTS
  Binaries = {"A"}
  NoBinary = "none"
  Composites = {"T", "U"}
  Functions = {"f"}
  Slots = {"s"}
  AutoTypes = {"U"}
  AutoSlots = {"s"}
  ArchiveTypes = {"T"}
  MaxTargets = 1
  MaxBatch = 2
  MaxEntries = 4
  MaxUndo = 2
  Members = {"int", "U"}
SPECIFICATION ProgramSpec
PROPERTIES
  ExportExact
  ReplayRestores
  
