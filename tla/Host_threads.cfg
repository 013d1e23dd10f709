SPECIFICATION HostSpec
CONSTANTS
  t1 = t1
  t2 = t2
  Threads = {t1, t2}
  MaxFds = 7
  Unit = 4
  WordBytes = 2
  Sizes <- SmallSizes
  Period = 10
  Durations <- ShortDurations
  MaxUsize = 2
INVARIANTS
  HostTypeOK
  ChannelsAreOpen
  NoDescriptorLeaks
  BuffersStayAligned
  DecouplerIsAsPromised
PROPERTIES
  PollsForItsDuration
  CallsEnd
