SPECIFICATION Spec
CONSTANTS
  Batched <- MCBatched
  MaxBatch <- MCMaxBatch
  SampleInterval = 2
  SingleInterval = 3
  FlushDelay = 5
  TimeModulus = 40
  MaxDelay = 2
  Boots <- MCBoots
  Horizon = 15
  MaxLosses = 1
  MaxStarts = 2
  None = None
CHECK_DEADLOCK FALSE
INVARIANTS
  TypeOK
  ReadTimeIsClose
  PlotTimeIsClose
PROPERTIES
  OnlyTheWrapLosesAFrame
