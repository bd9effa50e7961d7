SPECIFICATION Spec
CONSTANTS
    Attempts = {a1, a2}
    MaxPolls = 2
    Faults = {"agent", "lost", "crash"}
    MaxFaults = 3
    NoDid = NoDid
INVARIANTS TypeOK WaitsAreExact
PROPERTIES ImplementsDidPublication
CHECK_DEADLOCK FALSE
