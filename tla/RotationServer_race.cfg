SPECIFICATION Spec
CONSTANTS
  d1 = d1
  d2 = d2
  h1 = h1
  h2 = h2
  Devices = {d1}
  Handlers = {h1, h2}
  HandlerDevice <- TwoHandlers
  MaxRecords = 2
  MaxChallenges = 1
INVARIANTS
  SingleUse
