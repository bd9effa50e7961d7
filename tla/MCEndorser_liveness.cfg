SPECIFICATION FairSpec
CONSTANTS
    Processors = {p1}
    Events = {e1, e2}
    Txns = {t1}
    MaxRetries = 4
    Faults = {"http_error", "slow", "subscribe", "crash", "publish", "stop"}
    MaxFaults = 3
    MaxRegistryChanges = 0
    NoEvent = NoEvent
PROPERTIES EveryEventConsumed StopTerminates ApplicableEventuallyEndorsed
CHECK_DEADLOCK FALSE
