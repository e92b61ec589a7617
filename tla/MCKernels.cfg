CONSTANTS
  Letters = {1, 2, 3}
  MaxLength = 4
  EditW = 3
  Absent = Absent
  Jobs <- MCJobs
  ScriptLetters = {1, 2}
  ScriptLength = 5
  ScoreHint = 2
  MatrixBytes = 1
  SplitColumns = 2
  SplitRows = 2
  MaxCells = 11
  ScriptCalls <- MCScriptCalls
  Least <- MCLeast
  AlignCalls <- MCAlignCalls
  Na = Na
  WordBits = 4
  PairCap = 3
  MaskCap = 4
  RotationCap = 3
  JaroCalls <- MCJaroCalls
  Full = 72072000
  W = 2
  Latin = 5
  TasksWanted = 4
  ChunkMin = 2
  Calls <- MCCalls
  Tables <- MCTables

SPECIFICATION KernelsSpec

INVARIANTS
  DistancesExact
  RowsScored
  TablesExact
  ScriptsExact
  MetricsExact
  JaroExact

CHECK_DEADLOCK FALSE
