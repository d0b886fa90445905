SPECIFICATION GrowSpec
CONSTANTS
  SectorSize = 6
  MiniSectorSize = 2
  DirectorySize = 3
  UInt32Size = 2
  HeaderSlots = 1
  miniStreamCutoffSize = 12
  v1 = v1
  v2 = v2
  Values <- TwoValues
  Sizes <- GrowSizes
  AppendSizes = {5, 13}
  OpenedFiles = {0, 3}
  MaxSectors = 9
  MaxStreams = 2
  Retries = 0
INVARIANT NeverFails
PROPERTY StoreRefined
CHECK_DEADLOCK FALSE
