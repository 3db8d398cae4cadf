SPECIFICATION Spec
CONSTANTS
  MaxEvals = 2
  m1 = m1
  m2 = m2
  Mongos <- MCMongos
  Default <- MCDefault
INVARIANTS
  OneInterrupt
  NoCallOnSuspendedMongo
  
  OpenIsTracked

  
