CONSTANTS
  Calls <- MCCalls
  EditCalls <- MCEditCalls
  Jobs <- MCJobs
  Texts <- MCTexts
  LowerOf <- MCLowerOf
  DenseLimit = 16

SPECIFICATION SearchSpec

INVARIANTS
  SearchesLegal
  AnswersExact
  ReplacedExactly
  ScanExact

PROPERTIES
  SearchesEnd
  SearchesAdvance

CHECK_DEADLOCK FALSE
