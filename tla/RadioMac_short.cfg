CONSTANTS
  Difs = 3
  Bbte = 4
  MaxBackoff = 3
  Retrans = {0, 2}
  AirTicks = 3
  Gap = 3
  PollPeriod = 0
  ParseTicks = 0
  ShortPackets = TRUE
  Assesses = TRUE
  MaxReplies = 2
  MaxPackets = 4
SPECIFICATION Spec
PROPERTY ClaimsAfterSilence
