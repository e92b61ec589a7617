CONSTANTS
  NA = NA
  Calls <- MCCalls
  MaxBytes = 6
  HashOf <- MCHashOf
  Slots = 2

SPECIFICATION Spec

INVARIANTS
  ViewsOneEncoding
  PointsExact
  TextExact

CHECK_DEADLOCK FALSE
