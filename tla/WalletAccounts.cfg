SPECIFICATION FairSpec
CONSTANTS
    Users = {u1}
    Requests = {r1, r2, r3}
    Authorities = {p1}
    NoRequest = NoRequest
    NoRef = NoRef
    Kinds <- MCKinds
    Features <- MCFeatures
    Refs <- MCRefs
    MaxBalance = 3
    IntMax = 4
    MinCharge = 1
    MaxCharge = 2
    Amounts = {2}
    Discounts = {0, 50}
    Opening = {2}
    Settings <- HostSwitch
    Operations = {"startCharge", "callback", "charge", "adminCredit", "saveAdminSettings"}
    Failures = {"statement", "answer", "crash"}
CHECK_DEADLOCK FALSE
INVARIANTS
    TypeOK
    RefundUndoesOneCharge
    LedgerExplainsBalance
PROPERTIES
    RequestsEnd
