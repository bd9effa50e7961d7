SPECIFICATION Spec
CONSTANTS
    MaxEvents = 1
    BatchSize = 1
    Faults = {"timeout"}
    MaxFaults = 1
INVARIANTS NothingLeftSubscribed
CHECK_DEADLOCK FALSE
