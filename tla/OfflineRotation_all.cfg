SPECIFICATION FairSpec
CONSTANTS
  Locked = Locked
  MaxRotations = 2
  Settings <- Setting
INVARIANTS
  TypeOK
  Recoverable
  ServerNotAhead
  HardenedRefused
  IndicatorHonest
PROPERTIES
  ClearedOnceConfirmed
  ImplementsHandover
  EventuallyRegistered
