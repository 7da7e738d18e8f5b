SPECIFICATION Spec
CONSTANTS
  Locked = Locked
  MaxRotations = 3
  Settings <- OverlapOnly
PROPERTIES
  ClearedSafely
