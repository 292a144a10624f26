SPECIFICATION Spec
CONSTANTS
  Difs = 2
  T35 = 3
  Backoffs = {1}
  Capacity = 2
  Retrans = {0}
  TxTypes = {"polling"}
  EventDepth = 4
  PollPeriod = 6
  CarefulCaller = TRUE
  LongPackets = TRUE
  MaxFrames = 2
  MaxSends = 4
INVARIANT SendsBounded
