SPECIFICATION Spec
CONSTANTS
  c1 = c1
  c2 = c2
  Clients = {c1, c2}
  CardLen = 6
  PollTries = 1
INVARIANTS
  InfoIsCards
