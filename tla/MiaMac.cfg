SPECIFICATION FairSpec
CONSTANTS
  Disf = 3
  FrameTicks = 3
  Backoffs = {1}
  Capacity = 1
  Retrans = {0, 1}
  EventDepth = 3
  PollPeriod = 1
  CarefulCaller = TRUE
  EarlyReplies = FALSE
  StartBitRace = FALSE
  MaxFrames = 2
  MaxFaults = 2
  MaxSends = 3
PROPERTIES ParsedOnceInOrder NoSilentDrop MessageSettled
