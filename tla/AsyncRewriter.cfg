CONSTANT Programs <- MCPrograms
SPECIFICATION Spec
INVARIANTS
    CallsInOrder
    SameResult
CHECK_DEADLOCK FALSE
