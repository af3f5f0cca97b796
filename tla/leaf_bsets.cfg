SPECIFICATION Spec
CONSTANTS
  MaxKey = 4
  Values = {v}
  BSET_TREE_NR_MAX = 3
  BSET_SOFT_LIMIT = 1
  MAX_ENTRIES = 4
  MaxSeq = 6
INVARIANTS TypeOK ReadsLatest LeafFits WhiteoutsFlagged
