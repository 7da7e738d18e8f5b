SPECIFICATION Spec
CONSTANTS
  d1 = d1
  d2 = d2
  h1 = h1
  h2 = h2
  Devices = {d1, d2}
  Handlers = {h1, h2}
  HandlerDevice <- HandlerPerDevice
  MaxRecords = 2
  MaxChallenges = 3
INVARIANTS
  TypeOK
  SingleUse
  AuthorisedBySignature
PROPERTIES
  NoRevert
  ImplementsExchange
