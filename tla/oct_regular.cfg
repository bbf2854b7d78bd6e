SPECIFICATION Spec
CONSTANTS
  Job = {j1, j2, j3, j4}
  f1 = f1  f2 = f2  s1 = s1  s2 = s2
  a = a  b = b  c = c  d = d  e = e
  Function <- TwoClosures
  Shared <- TwoShareds
  SharedOf <- SharedOfFunctions
  Loop <- OneLoop
  LoopOf <- LoopOfOne
  LoopDepth <- DepthOfOne
  Large = {s2}
  NoJob = NoJob  NoFunction = NoFunction  NoLoop = NoLoop
  Capacity = 2
  OsrSlack = 0
  MaxNesting = 1
  Block = TRUE
  Delay = FALSE
  ApiCallbacks = FALSE
SYMMETRY JobSymmetry
INVARIANTS
  TokenAccounting
  CompileNextHasJob
  ReadyCodeIsAnnounced
