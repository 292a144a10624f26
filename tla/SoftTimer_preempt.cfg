CONSTANTS
  Timers = {"b", "c"}
  Periods = {1, 3}
  Modes = {TRUE}
  Word = 4
  IsrTimers = {"c"}
  Preempt = TRUE
  MaxCalls = 3
SPECIFICATION Spec
PROPERTY NeverEarly
