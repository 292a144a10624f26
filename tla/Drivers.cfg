SPECIFICATION Spec
CONSTANTS
  Kinds = {"led", "buzzer", "infrared", "timer", "pwmc", "serial", "gpio", "gpio_group", "analog", "rtc", "wdt", "flash"}
  Users = {u1, u2}
  Freqs = {9, 10}
  Counts = {2, 3}
  Forever = forever
  OpenFails = {"led", "infrared", "timer", "pwmc", "serial", "gpio", "gpio_group", "analog", "rtc", "wdt", "flash"}
  ReinitFails = {}
  Interrupted = {"led"}
  Preempt = FALSE
  ByteBits = 2
  RecoverClocks = 3
  Address = 1
  Lengths = {1, 2}
  Payload = {0, 2}
  StuckSlave = TRUE
  RomIds <- Ids
  W1Data <- Commands
  MaxW1Calls = 3
  MaxPlugs = 2
  ShortedBus = FALSE
  EeStart = 2
  EeEnd = 6
  BlockSize = 2
  AddrSpan = 8
  Worn = {3, 4}
  EeUsers = {u1}
  EeOffsets = {0, 1, 3, 4}
  EeLengths = {0, 1, 3}
  EePreempt = FALSE
  EraseBeyond = FALSE
  NfEnd = 4
  PageSize = 2
  SectorSize = 2
  NfUsers = {u1, u2}
  NfAddrs = {0, 1, 4}
  NfLengths = {1, 3}
  NfIds = {good, bad}
  Supported = {good}
  SlowChip = FALSE
  FifoSize = 5
  Threshold = 2
  LengthMod = 8
  LengthLimit = 8
  Groups = {"packet"}
  WriteLengths = {1, 5, 9}
  PreambleBytes = 1
  RxLengths <- Receivers
  RadioFreqs = {"f1"}
  ChipSilent <- Silent
  Slack = 1
  Overlapping = FALSE
  BufferReused = FALSE
  ShortLong = FALSE
  Oversized = FALSE
  WhileFixed = FALSE
  SkCommands = {"connect", "delete user", "delete all"}
  PackLen = 3
  SkPolls = 1
  MaxRequests = 2
  MaxEvents = 1
  SkFaults = 1
  MaxBlock = 3
  Straddling = FALSE
  LateAnswers = FALSE
  Chatter = {"quiet", "waiting"}
  BufLen = 8
  MaxAsked = 3
  MaxNotes = 2
  Junk = {"plain"}
  MaxJunk = 2
  MaxUnread = 1
  ResetAgain = FALSE
  ReopenStale = FALSE
  TwoTasks = FALSE
  Cards = {c1, c2, c3}
  NoCard = none
  MaxNoise = 3
  EmptyAnswers = FALSE
  TgSize = 4
  TgWord = 2
  TgUsers = {u1}
  NoUser = nobody
  TgAddrs = {0, 1}
  TgLengths = {0, 2, 3}
  MaxRf = 1
  TgPreempt = FALSE
  MostBytes = 3
  A7Lengths = {2, 5}
  A7Heard = {1, 3}
  A7BufLen = 2
  MaxHeard = 2
  MaxWritten = 2
  PinFunctions = {"packet", "sync", "preamble"}
  ReadLate = FALSE
  ServedLate = FALSE
  SlowTask = FALSE
INVARIANTS DevicesKept  ModulesKept
PROPERTIES ReportedWasDone
CHECK_DEADLOCK FALSE
