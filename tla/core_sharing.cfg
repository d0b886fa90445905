SPECIFICATION CarefulSpec
CONSTANTS
  SectorSize = 6
  MiniSectorSize = 2
  DirectorySize = 2
  UInt32Size = 1
  HeaderSlots = 1
  miniStreamCutoffSize = 12
  v1 = v1
  v2 = v2
  Values <- OneValue
  Sizes <- SharedSizes
  AppendSizes = {}
  OpenedFiles = {0, 4}
  MaxSectors = 7
  MaxStreams = 2
  Retries = 0
INVARIANT
  BigChainsApart
CHECK_DEADLOCK FALSE
