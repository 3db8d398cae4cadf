SPECIFICATION MCSpec
CONSTANTS
  Chunks <- MCAll
  MaxChars = 5
  MaxEvals = 3
  MaxEvents = 3
  MaxToggles = 3
  Calls = {}
  Processes = {}
  MaxInterrupts = 0
INVARIANTS
  NoOverrun
  ListenersSafe
  BuffersFaithful
PROPERTIES
  GateSpec
  ForwardedUnlessSwallowed
  
  EventsTracked
