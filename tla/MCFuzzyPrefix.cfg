CONSTANTS
  Letters = {1, 2}
  MaxLength = 5
  NA = NA
  ChunkSize = 2
  HighBits <- MCHighBits
  MaxRows = 11
  Calls <- MCPrefixCalls
  WithinCalls <- MCNoCalls
  PackedBytes = 2
  PackedPoints = 2
  PointValues = 1024
  PreparedCells = 4
  PreparedBytes = 900
  Grain = 3
  QCalls <- MCNoCalls
  CharValues = 8
  PackedChars = 2
  Idf <- MCIdf
  TfCalls <- MCNoCalls
  HashOf <- MCHash
  Permuted <- MCPermuted
  BandKey <- MCBandKey
  MostPairs = 5
  MinCalls <- MCNoCalls

SPECIFICATION LookupSpec

INVARIANT ExactHitIsScanned

CHECK_DEADLOCK FALSE
