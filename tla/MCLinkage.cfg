CONSTANTS
  Main = Main
  w1 = w1
  Threads <- MCThreads
  Builds = {TRUE}
  Problems <- MCProblems
  RowsPerChunk = 2
  Threshold = 4
  Limit = 4
  NA = NA
  Bad = Bad
  Records <- MCRecords
  Outcomes <- MCOutcomes
  Levels <- MCLevels
  Points <- MCPoints
  Tolerance = 2
  LevelWeight <- MCLevelWeight
  Sessions <- MCSessions
  Options <- MCOptions
  Given <- MCGiven

SPECIFICATION MCSpec

INVARIANTS
  ResultExact
  BoundCovers
  SessionExact
  LinksExact

PROPERTY PairsReturned

CHECK_DEADLOCK FALSE
