SPECIFICATION Spec
CONSTANTS
  Difs = 2
  AckTicks = {0, 4}
  Retrans = {0, 2}
  Capacity = 2
  TxTypes = {"polling", "dmaorint"}
  DirectTypes = {"dmaorint"}
  TickMasked = TRUE
  EventDepth = 3
  PollPeriod = 1
  T35 = 3
  MaxFrames = 2
  MaxSends = 4
PROPERTY NoSilentDrop
