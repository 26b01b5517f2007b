CONSTANTS
  d1 = d1
  d2 = d2
  d3 = d3
  None = None
  Dir <- TwoDirs
  Under <- Nested
  MaxEdits = 2
SPECIFICATION Spec
INVARIANT SnapshotIsItsOwn
