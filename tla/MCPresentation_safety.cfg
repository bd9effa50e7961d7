SPECIFICATION Spec
CONSTANTS
    Schemas = {s1}
    Exchanges = {e1}
    NoExchange = NoExchange
    Requests = {r1, r2}
    Registers <- SmallRegisters
    MaxChanges = 1
SYMMETRY Symmetry
INVARIANTS TypeOK PresentedOnlyToVerifiers RequestedOnlyByVerifiers
PROPERTIES RejectionsAreTold
CHECK_DEADLOCK FALSE
