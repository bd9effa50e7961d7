SPECIFICATION Spec
CONSTANTS
    Processors = {p1, p2}
    Events = {e1, e2}
    Txns = {t1}
    MaxRetries = 2
    Faults = {"http_error", "connect_timeout", "transport", "agent", "lost_response", "ack", "slow", "subscribe", "crash"}
    MaxFaults = 2
    MaxRegistryChanges = 2
    NoEvent = NoEvent
SYMMETRY Symmetry
INVARIANTS TypeOK LateCallsBounded
PROPERTIES ImplementsAtLeastOnce EndorsesOnlyForIssuers
CHECK_DEADLOCK FALSE
