SPECIFICATION QueuesSpec
CONSTANTS
  Job = {j1, j2}
  NoJob = NoJob
  Record = {j1, j2}
  NoRecord = NoJob
  Capacity = 3
  Node = {n1, n2, n3, n4}
  NoNode = NoNode
INVARIANTS
  NoDanglingNode
  ListMatchesSent
  EachJobInOnePlace
PROPERTIES
  ImplementsDeque
  Delivered
