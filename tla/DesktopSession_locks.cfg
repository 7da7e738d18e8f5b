SPECIFICATION Spec
CONSTANTS
  Clients = {"c1", "c2"}
  NoClient = "none"
  Passwords = {"p", "q"}
  NoPassword = "nothing"
  MaxVaults = 2
  MaxCalls = 4
INVARIANTS
  TypeOK
  KeysEndWithSession
  RightKey
PROPERTIES
  AccountKept
  CallsSettle
