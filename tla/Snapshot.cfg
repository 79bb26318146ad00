SPECIFICATION Spec
CONSTANTS
  None = None
  Names = {1, 2, 3}
  Unsuitable = {3}
  MaxFiles = 1
  MaxSkipped = 1
  MaxEdits = 2
  MayFail = TRUE
INVARIANTS
  SnapshotInv
  IgnoredStaysOutUnlessMoved
  NoneMissing
