SPECIFICATION Spec
CONSTANTS
  Threads = {t1, t2}
  Alignment = 2
  StructSize = 2
  HeapAddress = 3
  TotalSize = 33
  AllocateBit = 1000
  Requests = {0, 1, 2, 3, 5, 1001}
  DoubleFree = FALSE
  Heads = {h1, h2}
  Nodes = {n1, n2, n3}
  Nil = nil
  Accounts = {center, a, b}
  Main = center
  Cached = {a}
  Twins = {}
  SelfUnlink = FALSE
  NestedRead = FALSE
  DeinitMounted = FALSE
  Timed = {b}
  MaxDepth = 1
  Names = {m1, m2}
  Pointers = {p1, p2}
  NoPointer = none
  Strings = {s1, s2, s3}
  MaxResources = 3
  AddedTwice = FALSE
  Rewritten = FALSE
  LongTimes = {3, 5}
  PressingPeriod = 2
  KeyTime = 12
  ChangedInPress = FALSE
  Buttons = {b1}
  DebounceTicks = 3
  ShortTicks = 2
  LongTicks = 4
  TickMod = 8
  RepeatMod = 4
  MaxPresses = 3
  MbReinit = FALSE
  LogBufLen = 16
  OffsetMod = 32
  DefaultLevel = 1
  Levels = {0, 1, 2}
  Texts <- Lines
  MaxLogs = 3
  ConsoleKinds = {"free", "taken"}
  Stations = {x, y}
  Messages <- Samples
  Capacity = 2
  FaultTicks = 3
  Gap = 24
  Latency = 8
  MaxSends = 3
  SumBytes = {0, 1, 49, 128, 255}
  MaxBytes = 3
INVARIANTS StoresKept FoundAsPut PressesTold WireKept
PROPERTIES ListsAndLogKept
CHECK_DEADLOCK FALSE
