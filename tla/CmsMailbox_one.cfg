SPECIFICATION Spec
CONSTANTS
  c1 = c1
  c2 = c2
  Clients = {c1}
  CardLen = 6
  PollTries = 2
INVARIANTS
  TypeOK
  InfoIsCards
PROPERTIES
  KeepsService
  InfoAgain
