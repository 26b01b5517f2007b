SPECIFICATION Spec
CONSTANTS
  MaxLinks = 6
  Disks <- MCDisks
  Dirs <- MCDirs
  Handlers <- MCHandlers
  Outputs <- MCOutputs
INVARIANTS
  Relocates
  MeasuredIsArchived
PROPERTY WritesAreConfined
