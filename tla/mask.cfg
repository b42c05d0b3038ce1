SPECIFICATION Spec
CONSTANTS
  Mask <- ShortXs
  Complete = 10
  Digits = {"0", "1"}
  Pastes <- Typed
INVARIANTS PhoneIsMasked
PROPERTY DeletingDeletes
CHECK_DEADLOCK FALSE
