SPECIFICATION QueueSpec
CONSTANTS
  Byte = {0, 1, 2}
  Size = 3
  MaxLength = 4
  Users = {"bytes", "queue", "semaphore", "message"}
  Bodies <- UpToMaxLength
  MemberSize = 2
  LengthSize = 1
  Length <- LowestFirst
  Capacities = {0, 1, 2}
INVARIANTS HeadNeverReachesTail TakesOnlyWhatIsThere NothingLeftBehind
PROPERTIES ImplementsFifo HandsOutWhole
