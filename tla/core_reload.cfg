SPECIFICATION Spec
CONSTANTS
  SectorSize = 6
  MiniSectorSize = 2
  DirectorySize = 2
  UInt32Size = 1
  HeaderSlots = 1
  miniStreamCutoffSize = 12
  v1 = v1
  v2 = v2
  Values <- OneValue
  Sizes <- ReloadSizes
  AppendSizes = {}
  OpenedFiles = {6}
  MaxSectors = 6
  MaxStreams = 2
  Retries = 0
INVARIANT
  BigStreamsKept
CHECK_DEADLOCK FALSE
