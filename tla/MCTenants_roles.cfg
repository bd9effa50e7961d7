SPECIFICATION Spec
CONSTANTS
    Requests = {r1, r2}
    Wallets = {w1}
    Labels = {l1, l2}
    Faults = {}
    MaxFaults = 0
    NoWallet = NoWallet
    NoLabel = NoLabel
    NoActor = NoActor
PROPERTY RolesNeverRevoked
CHECK_DEADLOCK FALSE
