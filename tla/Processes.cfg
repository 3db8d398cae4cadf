SPECIFICATION MCSpec
CONSTANTS
  c1 = c1
  c2 = c2
  Calls = {c1, c2}
  CodeOf <- MCCodeOf
  Undefined = Undefined
  NoCode = NoCode
  Startup = Startup
  MaxRuns = 2
  Evals = {e1, e2}
  Interrupts = {i1, i2}
  NoEval = NoEval
INVARIANTS
  EndSound
  EvaluationsApart
PROPERTIES
  ProcessEnds
  InterruptIsEffective
\* The process has ended, or the worker's session is over.
CHECK_DEADLOCK FALSE
