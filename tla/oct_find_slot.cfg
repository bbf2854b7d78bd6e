SPECIFICATION Spec
CONSTANTS
  Job = {j1, j2, j3, j4, j5}
  f1 = f1  f2 = f2  s1 = s1  s2 = s2
  a = a  b = b  c = c  d = d  e = e
  Function <- OneFunction
  Shared <- OneShared
  SharedOf <- SharedOfOne
  Loop <- FiveLoops
  LoopOf <- LoopOfFive
  LoopDepth <- DepthOfFive
  Large = {s1}
  NoJob = NoJob  NoFunction = NoFunction  NoLoop = NoLoop
  Capacity = 1
  OsrSlack = 4
  MaxNesting = 1
  Block = FALSE
  Delay = FALSE
  ApiCallbacks = FALSE
SYMMETRY JobSymmetry
CONSTRAINT NothingInstalled
INVARIANTS
  OsrSlotIsFound
