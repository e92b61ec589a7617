CONSTANTS
  Main = Main
  w1 = w1
  w2 = w2
  Threads <- MCThreads
  Builds = {TRUE}
  Inputs <- MCInputs
  ThreadCounts = {1, 2, 3}
  Hardware = 2
  Threshold = 3
  MaxRows = 2
  TargetBytes = 2
  ChunksPerThread = 1
  RowOverhead = 1
  SizeMax = 100
  NoCode = NoCode
  CodeCalls <- MCCodeCalls
  NoDate = NoDate
  Unset = Unset
  DateCalls <- MCDateCalls
  Years <- MCYears
  StreamThreshold = 4

SPECIFICATION RowsSpec

INVARIANTS
  ChunksTile
  CodesExact
  DatesExact

PROPERTIES
  MapsRows
  Answers

CHECK_DEADLOCK FALSE
