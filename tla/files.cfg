SPECIFICATION Spec
CONSTANTS
  MAX_BYTE = 8
  Names <- MCNames
  Inos = {1, 2, 3, 4}
  Offsets = {0, 1, 2, 3, 4}
  SnapIds <- MCSnapIds
  SubvolIds = {1, 2}
  BLOCK_SIZE = 2
  MaxSize = 4
  MaxReply = 1
  SeedDir <- MCSeedDir
  SeedFile <- MCSeedFile
  Budgets <- MCBudgets
CHECK_DEADLOCK FALSE
INVARIANTS ReadsBack LookupRight ListingRight ReaddirShifts
