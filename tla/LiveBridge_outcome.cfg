\* One turn that ends the call. The call ends, so the system stops.
CONSTANT MaxTurns = 1
SPECIFICATION Spec
INVARIANT OutcomeComputed
CHECK_DEADLOCK FALSE
