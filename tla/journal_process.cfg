SPECIFICATION Spec
CONSTANTS
  ENTRIES_PER_BLOCK = 2
  JOURNAL_BLOCKS = 2
  RingReserve = 1
  MaxRecords = 3
  CrashMode = "process"
  MaxIno = 2
  MaxSeq = 7
INVARIANTS RecoveryIsLegal RingIntact
PROPERTIES AckedFramesKept OnlyLargeGroupsOverrun
