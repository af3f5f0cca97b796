SPECIFICATION Spec
CONSTANTS
  Names = {a, b}
  MaxIno = 4
  MaxNlink = 3
  MaxCrashes = 1
INVARIANTS NoDanglingDirent NlinkCounts ReclaimedFilesAreGone AllReachable
