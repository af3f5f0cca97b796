SPECIFICATION Spec
CONSTANTS
  FIRST_DATA_BLOCK_NR = 1
  FREE_CHAIN_ENTRIES = 2
  MaxBlock = 12
  Keys = {1, 2}
  MaxValue = 3
  MaxGroups = 2
  Modes <- MCModes
CHECK_DEADLOCK FALSE
INVARIANT NoLiveBlockFree
