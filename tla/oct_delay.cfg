SPECIFICATION Spec
CONSTANTS
  Job = {j1, j2, j3}
  f1 = f1  f2 = f2  s1 = s1  s2 = s2
  a = a  b = b  c = c  d = d  e = e
  Function <- TwoClosures
  Shared <- OneShared
  SharedOf <- SharedOfClosures
  Loop <- OneLoop
  LoopOf <- LoopOfOne
  LoopDepth <- DepthOfOne
  Large = {s1}
  NoJob = NoJob  NoFunction = NoFunction  NoLoop = NoLoop
  Capacity = 1
  OsrSlack = 1
  MaxNesting = 1
  Block = FALSE
  Delay = TRUE
  ApiCallbacks = TRUE
SYMMETRY JobSymmetry
INVARIANTS
  HeldIsLive
  SingleOwner
  StoppedClean
CHECK_DEADLOCK FALSE
