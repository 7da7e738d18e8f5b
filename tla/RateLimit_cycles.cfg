SPECIFICATION Spec
CONSTANTS
  Keys = {"k"}
  Limit = 2
  Window = 2
  MaxExponent = 2
  Horizon = 24
INVARIANTS
  TypeOK
  BurstBound
  RetryAfterHolds
PROPERTIES
  LockoutsFair
