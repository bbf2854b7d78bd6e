SPECIFICATION FairSpec
CONSTANTS
  Address = {0, 1}
  Size = {1, 2}
  QueueLength = 1
  MaxStarts = 2
  MaxCode = 2
  MaxEvents = 2
  MaxTicks = 3
INVARIANTS
  
  NoSampleLeftBehind
PROPERTIES
  StopReturns
  SamplesAreProcessed
CHECK_DEADLOCK FALSE
