SPECIFICATION FairSpec
CONSTANTS
  Difs = 3
  T35 = 3
  Backoffs = {1, 2}
  Capacity = 2
  Retrans = {0, 2}
  TxTypes = {"polling", "dmaorint"}
  EventDepth = 2
  PollPeriod = 1
  CarefulCaller = TRUE
  LongPackets = TRUE
  MaxFrames = 3
  MaxSends = 4
INVARIANTS TypeOK SendsBounded FillsOtherBuffer
PROPERTIES ParsedOnceInOrder NoSilentDrop AckMatchesSend ClaimsAfterSilence MessageSettled
