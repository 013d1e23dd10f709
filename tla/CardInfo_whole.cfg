SPECIFICATION Spec
CONSTANTS
  Items <- SomeItems
  Malformed <- SomeMalformed
  MaxItems = 3
INVARIANTS
  TypeOK
  ItemsAreTheCards
  OkLosesNoItem
  ErrorsHaveCause
  ItemsAreComplete
CHECK_DEADLOCK FALSE
