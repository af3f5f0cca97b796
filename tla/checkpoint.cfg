SPECIFICATION Spec
CONSTANTS
  FIRST_DATA_BLOCK_NR = 1
  FREE_CHAIN_ENTRIES = 2
  MaxBlock = 10
  Keys = {1, 2}
  MaxValue = 2
  MaxGroups = 2
  Modes <- MCModes
CHECK_DEADLOCK FALSE
INVARIANTS TypeOK ReadsBack OneOwner RecoveryIsLegal
PROPERTIES ChainKept GcLeavesNoOrphan CheckpointTreeIntact
