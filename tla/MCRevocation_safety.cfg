SPECIFICATION Spec
CONSTANTS
    c1 = c1
    c2 = c2
    d1 = d1
    g1 = g1
    g2 = g2
    Creds = {c1, c2, d1}
    Registries = {g1, g2}
    RegistryOf <- RegistryOfEach
    Requests = {r1, r2}
    Calls <- ClientCalls
    MaxPolls = 2
    MaxTries = 2
    Faults = {"agent", "lost", "crash"}
    MaxFaults = 2
INVARIANTS TypeOK PublishAnswersAreOnLedger AnswersAreTrue
PROPERTIES PendingLeavesOnRequest ImplementsCredentialStatus RequestsEnd
CHECK_DEADLOCK FALSE
