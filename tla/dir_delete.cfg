\* A storage with a stream in it, which is deleted.
CONSTANTS
  Nil = Nil
  Names = {1, 2, 9}
  Refused = {9}
  StorageNames = {1}
  InnerNames = {2}
  EarlyNames = {1, 2}
  LateNames = {}
  EntriesPerSector = 4
  MaxEntries = 8
  MaxFree = 4
  MaxLeaked = 0
  Root = root
  Handles = {root, inner}
  IllNames = {}
  ReplacedBy = 1
  Stored <- MCStored
  Documents <- MCNew
SPECIFICATION Spec
CHECK_DEADLOCK FALSE
VIEW AllButCall
INVARIANTS DeleteReturns
