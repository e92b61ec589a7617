CONSTANTS
  Calls <- MCCalls
  EditCalls <- MCEditCalls
  Jobs <- MCJobs
  Texts <- MCTexts
  LowerOf <- MCLowerOf
  DenseLimit = 16

SPECIFICATION SearchSpec

INVARIANT FailedUnmatched

CHECK_DEADLOCK FALSE
