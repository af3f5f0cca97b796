SPECIFICATION Spec
CONSTANTS
  ENTRIES_PER_BLOCK = 2
  JOURNAL_BLOCKS = 4
  RingReserve = 2
  MaxRecords = 3
  CrashMode = "power"
  MaxIno = 2
  MaxSeq = 8
INVARIANT RecoveryIsLegal
