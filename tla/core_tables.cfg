SPECIFICATION Spec
CONSTANTS
  SectorSize = 6
  MiniSectorSize = 2
  DirectorySize = 3
  UInt32Size = 2
  HeaderSlots = 1
  miniStreamCutoffSize = 12
  v1 = v1
  v2 = v2
  Values <- OneValue
  Sizes <- TableSizes
  AppendSizes = {13}
  OpenedFiles = {0, 3}
  MaxSectors = 8
  MaxStreams = 2
  Retries = 1
INVARIANTS
  TypeOK
  Coverage
  ListsMatchSet
  TableSectorsSafe
  FATFoundOnReopen
  TablesMatchMemory
  EntriesSaved
PROPERTY Termination
CHECK_DEADLOCK FALSE
