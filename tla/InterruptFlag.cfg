SPECIFICATION MCSpec
CONSTANTS
  find = find
  process1 = process1
  process2 = process2
  Calls <- MCCalls
  Processes <- MCProcesses
  MaxInterrupts = 2
  Chunks = {}
  MaxChars = 0
  MaxEvals = 0
  MaxEvents = 0
  MaxToggles = 0
INVARIANTS InterruptsClean
PROPERTIES HitCallsSettle
