SPECIFICATION Spec
CONSTANTS
  f = f  g = g  h = h  l1 = l1  l2 = l2
  f1 = f1  f2 = f2  g1 = g1  h1 = h1
  fa = fa  fb = fb  fc = fc  ga = ga  ha = ha
  NoLoop = NoLoop  NoChunk = NoChunk  NoShared = NoShared
  Process = "load"
  Literal = {f}
  Eval = {}
  LazyAllowed = {f}
  Shared = {f1}
  Closure = {fa, fb}
  PositionOf <- Positions
  Callee <- Callees
  LoopOf <- TwoLoops
  LiteralOf <- Literals
  SharedOf <- Shareds
  MaxCode = 2
  MaxDepth = 2
INVARIANTS
  OsrEntryOfRequestedLoop
