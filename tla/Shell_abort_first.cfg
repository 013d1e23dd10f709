SPECIFICATION ShellAgainSpec
CONSTANTS
  c1 = c1
  i1 = i1
  i2 = i2
  Clients = {c1}
  Images = {i1, i2}
  NoImage = NoImage
  Bytes <- AlignedBytes
  Regs <- TwoRegs
  FifoDepth = 3
  ReadFifoDepth = 2
  MaxBurst = 2
  ProgramWords = 3
  PollTries = 2
  DebugLog = TRUE
  AbortFirst = TRUE
INVARIANTS
  ShellTypeOK
  OkIsTheRegister
  ProgrammedBetweenReadbacks
PROPERTIES
  ReadbackLeavesImage
  KeepsPromiseBetweenReadbacks
  BothAgain
