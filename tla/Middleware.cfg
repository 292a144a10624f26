SPECIFICATION Spec
CONSTANTS
  Difs = 3
  Bbte = 4
  MaxBackoff = 3
  Retrans = {0, 2}
  AirTicks = 3
  Gap = 3
  PollPeriod = 1
  ParseTicks = 2
  ShortPackets = FALSE
  Assesses = TRUE
  MaxReplies = 2
  MaxPackets = 4
  Timers = {"a", "b", "c"}
  Periods = {1, 3}
  Modes = {TRUE}
  CountWord = 4
  IsrTimers = {"c"}
  Preempt = FALSE
  MaxCalls = 4
  NSlots = 4
  PerBlock = 2
  Word = 8
  Values = {"a", "zeros"}
  Zeros = "zeros"
  MaxSaves = 6
  MaxFaults = 4
INVARIANTS RadioSound TimerSound StoreSound
PROPERTIES ClaimsAfterSilence ImplementsDeadlines ExpiryIsCalled Settles
CHECK_DEADLOCK FALSE
