SPECIFICATION Spec
CONSTANTS
  Emails = {a, b}
  Passwords = {p, q}
  NoRecord = NoRecord
  Malformed = Malformed
  Slots = {s, t}
  MaxStates = 2
SYMMETRY Symmetry
INVARIANTS
  TypeOK
  ConsumedOnce
  Authenticated
PROPERTIES
  OnlyOwnerReplaces
  ImplementsAccounts
