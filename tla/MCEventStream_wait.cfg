SPECIFICATION FairSpec
CONSTANTS
    MaxEvents = 3
    BatchSize = 2
    Faults = {"timeout", "lost", "error", "crash", "relay"}
    MaxFaults = 2
INVARIANTS TypeOK OneSubscription
PROPERTIES ImplementsEventWait MatchReachesClient StreamEnds
CHECK_DEADLOCK FALSE
