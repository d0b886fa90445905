\* New and opened files of two sectors.
CONSTANTS
  Contents = {c1, c2}
  Headers = {h1, h2}
  NoData = NoData
  Any = Any
  MaxSectors = 2
  MaxOpened = 2
  NewSectors = 2
SPECIFICATION Spec
INVARIANT CommitDurable
SYMMETRY Alike
