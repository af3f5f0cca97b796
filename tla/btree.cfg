SPECIFICATION Spec
CONSTANTS
  Keys = {1, 2, 3, 4, 5, 6}
  EditKeys = {3, 5, 6}
  DeadSnap = {3, 4}
  MAX_ENTRIES = 2
  MAX_INTERNAL_KEYS = 2
  Kinds = {"Whiteout"}
  Seeds <- MCSeeds
  MaxOps = 3
CHECK_DEADLOCK FALSE
INVARIANTS TreeOK ScansComplete FreeIsUnused RecoversSaved
PROPERTY ImplementsDurableMap
