CONSTANTS
  NA = NA
  Calls <- MCSigmaCalls
  MaxBytes = 1000
  HashOf <- MCHashOf
  Slots = 2

SPECIFICATION Spec

INVARIANT FinalSigmaRule

CHECK_DEADLOCK FALSE
