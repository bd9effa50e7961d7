SPECIFICATION Spec
CONSTANTS
    Dids = {d1, d2}
    NoDid = NoDid
    Schemas = {s1}
    NoSchema = NoSchema
    Exchanges = {e1}
    NoExchange = NoExchange
    Requests = {r1}
    Keeps = {"default", "save", "delete"}
    Preserve = FALSE
    MaxChanges = 2
SYMMETRY Symmetry
INVARIANTS TypeOK OffersVouched HeldVouched
PROPERTIES RecordsEndAsAsked
CHECK_DEADLOCK FALSE
