CONSTANTS
  NA = NA
  Calls <- MCEncodingCalls
  MaxBytes = 1000
  HashOf <- MCHashOf
  Slots = 2

SPECIFICATION Spec

INVARIANT ResultIsUtf8

CHECK_DEADLOCK FALSE
