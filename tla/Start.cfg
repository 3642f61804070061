CONSTANTS
  Segments <- MCSegments
  Regions <- MCRegions
  MaxRegions = 4
  MaxFailures = 1
  NR_TASK = 2
  NR_PROCESS = 3
  StackSize <- MCStackSize
SPECIFICATION Spec
INVARIANTS
  KernelIntact
  AllMapped
  OwnSegments
  HandsOver
CHECK_DEADLOCK FALSE
