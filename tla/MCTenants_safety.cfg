SPECIFICATION Spec
CONSTANTS
    Requests = {r1, r2}
    Wallets = {w1, w2}
    Labels = {l1, l2}
    Faults = {"registry", "connect_timeout", "agent", "public_did", "lost", "crash"}
    MaxFaults = 2
    NoWallet = NoWallet
    NoLabel = NoLabel
    NoActor = NoActor
SYMMETRY Symmetry
INVARIANTS TypeOK ActorNamesUnique IssuersOnboarded DeletedIsGone FailedCreateLeavesNoWallet
CHECK_DEADLOCK FALSE
