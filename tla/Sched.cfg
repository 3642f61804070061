CONSTANTS
  NProcs = 3
  Priority <- MCPriorityOf
  Irqs = {"clock", "keyboard"}
  MaxNested = 2
SPECIFICATION FairSpec
INVARIANTS
  OneScheduler
  CallerKept
  StackBounded
  ReadyToRun
PROPERTIES
  GreatestChosen
  NoStarvation
