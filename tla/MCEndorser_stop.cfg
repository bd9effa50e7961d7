SPECIFICATION Spec
CONSTANTS
    Processors = {p1, p2}
    Events = {e1}
    Txns = {t1}
    MaxRetries = 5
    Faults = {"stop"}
    MaxFaults = 1
    MaxRegistryChanges = 0
    NoEvent = NoEvent
PROPERTIES StopKeepsEvents
CHECK_DEADLOCK FALSE
