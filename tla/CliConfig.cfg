SPECIFICATION Spec
CONSTANTS
  Procs = {p1, p2}
  MaxStarts = 3
  MaxEvents = 1
SYMMETRY Symmetry
CONSTRAINT UnreadAlone
INVARIANTS
  NeverWhenForced
  OptOutLasts
CHECK_DEADLOCK FALSE
