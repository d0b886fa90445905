\* New and opened files of up to three sectors.
CONSTANTS
  Contents = {c1, c2}
  Headers = {h1, h2}
  NoData = NoData
  Any = Any
  MaxSectors = 3
  MaxOpened = 2
  NewSectors = 2
SPECIFICATION Spec
INVARIANTS ImageTypeOK UnmodifiedInFile SaveExact CommitExact TornOnly FailuresExplained
SYMMETRY Alike
