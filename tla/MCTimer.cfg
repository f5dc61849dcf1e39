\* Two timers, two timeouts, four ticks, four requests and a queue of two.
CONSTANTS
  Timers = {a, b}
  MaxTimeout = 2
  MaxMillis = 4
  Word = 4
  MaxCalls = 4
  Capacity = 2
  None = None
SPECIFICATION Spec
SYMMETRY Symmetry
INVARIANT TypeOK
INVARIANT OnTime
INVARIANT LinkedIffWanted
INVARIANT CaughtUp
PROPERTY StopSilences
CHECK_DEADLOCK FALSE
