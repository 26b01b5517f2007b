CONSTANTS
  d1 = d1
  d2 = d2
  d3 = d3
  None = None
  Dir <- ThreeDirs
  Under <- Flat
  MaxEdits = 3
SPECIFICATION Spec
SYMMETRY DirSymmetry
INVARIANTS
  PackagedIsPrepared
  ContractIsDigested
  PreparedIsCurrent
PROPERTIES
  NothingIsOverwritten
  ImplementsRelease
