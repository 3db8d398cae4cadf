SPECIFICATION MCSpec
CONSTANTS
  Procs = {p1, p2}
  MaxStarts = 3
  MaxEvents = 2
  MaxTime = 3
  Rate = 1
  Timeframe = 1
  StaleAfter = 2
  Events = {e1, e2, e3}
  Flushes = {f1, f2}
SYMMETRY Symmetry
INVARIANTS
  LockSound
  RateLimit
PROPERTIES
  FlushFinal
\* The bounds end the sessions; every event is settled and every flush made.
CHECK_DEADLOCK FALSE
