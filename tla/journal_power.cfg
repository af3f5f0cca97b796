SPECIFICATION SpecUntilFailure
CONSTANTS
  ENTRIES_PER_BLOCK = 2
  JOURNAL_BLOCKS = 4
  RingReserve = 2
  MaxRecords = 4
  CrashMode = "power"
  MaxIno = 2
  MaxSeq = 9
INVARIANTS RecoveryIsLegal NoAckedGroupLost
PROPERTY ReclaimKeepsWatermark
