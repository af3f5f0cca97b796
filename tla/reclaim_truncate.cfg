SPECIFICATION ReclaimSpec
CONSTANTS
  Keys <- MCKeys
  Values <- MCValues
  None = None
  ROOT_SNAP = 3
  MAX_SUBVOL = 4
  Bounds <- MCBounds
  Inos = {1}
  MaxOffset = 2
  MaxBlock = 3
  MaxBudget = 2
  Ops = {"truncate"}
INVARIANTS SharedBlocksKept
