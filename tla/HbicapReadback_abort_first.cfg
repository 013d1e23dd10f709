SPECIFICATION AgainSpec
CONSTANTS
  c1 = c1
  c2 = c2
  Clients = {c1}
  Regs <- TwoRegs
  FifoDepth = 3
  ReadFifoDepth = 2
  MaxBurst = 2
  ProgramWords = 3
  PollTries = 2
  AbortFirst = TRUE
INVARIANTS
  TypeOK
  OkIsTheRegister
  OkLeavesQuiet
  NothingBeforeReadClears
PROPERTIES
  ReadbackAgain
