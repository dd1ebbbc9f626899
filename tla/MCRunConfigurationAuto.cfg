CONSTANTS
  Foreign = "foreign"
  MaxEdits = 0
SPECIFICATION Spec
INVARIANTS
  RouterHasConnection
