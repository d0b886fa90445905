\* A careful owner: New documents with storages, refused and ill-formed names,
\* and opened documents with deep trees.
CONSTANTS
  Nil = Nil
  Names = {1, 2, 3, 4, 5, 6, 7, 8, 9, 10, 11, 12}
  Refused = {11}
  StorageNames = {1}
  InnerNames = {2}
  EarlyNames = {1, 2, 11, 12}
  LateNames = {3}
  EntriesPerSector = 4
  MaxEntries = 8
  MaxFree = 4
  MaxLeaked = 0
  Root = root
  Handles = {root, inner}
  IllNames = {12}
  ReplacedBy = 2
  Stored <- MCStored
  Documents <- MCDocuments
SPECIFICATION Spec
CHECK_DEADLOCK FALSE
VIEW AllButCall
INVARIANTS StorageTypeOK TreesSound Balanced CleanIsSaved EntriesAccounted HandlesCurrent UniqueNames
PROPERTIES PanicExplained FolderImplemented
