SPECIFICATION Spec
CONSTANTS
  SectorSize = 6
  MiniSectorSize = 2
  DirectorySize = 3
  UInt32Size = 2
  HeaderSlots = 1
  miniStreamCutoffSize = 12
  v1 = v1
  v2 = v2
  Values <- OneValue
  Sizes <- BigSizes
  AppendSizes = {}
  OpenedFiles = {0}
  MaxSectors = 8
  MaxStreams = 2
  Retries = 0
INVARIANT SetDataSucceeds
CHECK_DEADLOCK FALSE
