SPECIFICATION Spec
CONSTANTS
  SectorSize = 6
  MiniSectorSize = 2
  DirectorySize = 2
  UInt32Size = 1
  HeaderSlots = 1
  miniStreamCutoffSize = 12
  v1 = v1
  v2 = v2
  Values <- OneValue
  Sizes <- SmallSizes
  AppendSizes = {}
  OpenedFiles = {0}
  MaxSectors = 8
  MaxStreams = 2
  Retries = 0
INVARIANT OwnData
CHECK_DEADLOCK FALSE
