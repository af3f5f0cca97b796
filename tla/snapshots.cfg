SPECIFICATION Spec
CONSTANTS
  Keys = {k1}
  Values = {v1, v2}
  None = None
  ROOT_SNAP = 6
  MAX_SUBVOL = 5
  Bounds <- MCBounds
INVARIANTS TypeOK SnapshotTreeOK FreshIdsAreClean DeadKeysDropped
PROPERTY Isolation
