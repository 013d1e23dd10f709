SPECIFICATION Spec
CONSTANTS
  Items <- SomeItems
  Malformed <- SomeMalformed
  MaxItems = 1
INVARIANTS
  OutOfBoundsIsError
CHECK_DEADLOCK FALSE
