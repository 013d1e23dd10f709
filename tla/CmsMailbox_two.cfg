SPECIFICATION Spec
CONSTANTS
  c1 = c1
  c2 = c2
  Clients = {c1, c2}
  CardLen = 4
  PollTries = 2
INVARIANTS
  InitIsDone
PROPERTIES
  MonitoringStays
