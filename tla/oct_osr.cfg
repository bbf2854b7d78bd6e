SPECIFICATION FairSpec
CONSTANTS
  Job = {j1, j2}
  f1 = f1  f2 = f2  s1 = s1  s2 = s2
  a = a  b = b  c = c  d = d  e = e
  Function <- OneFunction
  Shared <- OneShared
  SharedOf <- SharedOfOne
  Loop <- NestedLoops
  LoopOf <- LoopOfNested
  LoopDepth <- DepthOfNested
  Large = {s1}
  NoJob = NoJob  NoFunction = NoFunction  NoLoop = NoLoop
  Capacity = 1
  OsrSlack = 1
  MaxNesting = 2
  Block = FALSE
  Delay = FALSE
  ApiCallbacks = FALSE
INVARIANTS
  TypeOK
  UniqueOsrEntry
  BackEdgesMatchLevel
PROPERTIES
  ImplementsJobs
  FlushForgetsEverything
  FlushAndStopReturn
  
  GateOpens
