CONSTANTS
  Letters = {1, 2, 3}
  MaxLength = 1
  EditW = 3
  Absent = Absent
  Jobs <- MCNoCalls
  ScriptLetters = {1, 2}
  ScriptLength = 1
  ScoreHint = 2
  MatrixBytes = 1
  SplitColumns = 2
  SplitRows = 2
  MaxCells = 11
  ScriptCalls <- MCNoCalls
  Least <- MCLeast
  AlignCalls <- MCSilentCalls
  Na = Na
  WordBits = 4
  PairCap = 3
  MaskCap = 4
  RotationCap = 3
  JaroCalls <- MCNoCalls
  Full = 72072000
  W = 2
  Latin = 5
  TasksWanted = 4
  ChunkMin = 2
  Calls <- MCNoCalls
  Tables <- MCNoCalls

SPECIFICATION KernelsSpec

INVARIANT EditexSilent

CHECK_DEADLOCK FALSE
