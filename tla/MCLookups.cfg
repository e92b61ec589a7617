CONSTANTS
  Letters = {1, 2, 3}
  MaxLength = 4
  NA = NA
  ChunkSize = 2
  HighBits <- MCHighBits
  MaxRows = 11
  Calls <- MCCalls
  WithinCalls <- MCWithinCalls
  PackedBytes = 2
  PackedPoints = 2
  PointValues = 1024
  PreparedCells = 4
  PreparedBytes = 900
  Grain = 3
  QCalls <- MCQCalls
  CharValues = 8
  PackedChars = 2
  Idf <- MCIdf
  TfCalls <- MCTfCalls
  HashOf <- MCHash
  Permuted <- MCPermuted
  BandKey <- MCBandKey
  MostPairs = 5
  MinCalls <- MCMinCalls

SPECIFICATION LookupSpec

INVARIANTS
  ResultExact
  WithinExact
  QgramsExact
  TopExact
  BandsExact

CHECK_DEADLOCK FALSE
