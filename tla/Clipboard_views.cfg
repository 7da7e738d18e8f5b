SPECIFICATION Spec
CONSTANTS
  MaxCopies = 2
  MaxViews = 2
INVARIANTS
  TypeOK
  NothingForgotten
  ExitClears
PROPERTIES
  AutoCleared
