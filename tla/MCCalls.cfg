CONSTANTS
  Main = Main
  t1 = t1
  t2 = t2
  t3 = t3
  t4 = t4
  Threads <- MCThreads
  Builds = {TRUE, FALSE}
  MaxSize = 5
  ThreadCounts <- MCThreadCounts
  Grains <- MCGrains
  N = 5
  InputPairs <- MCPairs
  MaxPairs = 4

SPECIFICATION MCSpec

INVARIANTS
  CallTypeOK
  EachIndexOnce
  ReturnsComplete
  ThreadCap
  TypeOK
  ForestIsPartition
  ResultIsComponents

PROPERTIES
  CallReturns
  Terminates
  Refines

CHECK_DEADLOCK FALSE
