SPECIFICATION Spec
CONSTANTS
    Requests = {r1, r2}
    Names = {n1}
    AttrSets = {a1, a2}
    Dids = {d1, d2, d3}
    MaxPolls = 2
    Faults = {"registry", "connect_timeout", "agent", "lost", "race", "crash"}
    MaxFaults = 2
    MaxChanges = 1
    NoAttrs = NoAttrs
    NoName = NoName
    NoId = NoId
SYMMETRY Symmetry
INVARIANTS TypeOK RegisteredAreOnLedger AnswersMatchLedger CredDefsOfRegisteredSchemas AnsweredAreUsable CreatedAreRegisteredUnlessFailed
CHECK_DEADLOCK FALSE
