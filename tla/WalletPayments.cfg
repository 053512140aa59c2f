SPECIFICATION Spec
CONSTANTS
    Users = {u1}
    Requests = {r1, r2, r3, r4}
    Authorities = {p1, p2}
    NoRequest = NoRequest
    NoRef = NoRef
    Kinds <- MCKinds
    Features <- MCFeatures
    Refs <- MCRefs
    MaxBalance = 4
    IntMax = 5
    MinCharge = 1
    MaxCharge = 2
    Amounts = {2}
    Discounts = {0, 50}
    Opening = {0}
    Settings <- FeesOn
    Operations = {"startCharge", "callback", "adminCredit"}
    Failures = {"statement", "answer", "crash"}
SYMMETRY RequestSymmetry
CHECK_DEADLOCK FALSE
INVARIANTS
    CreditedExactlyOnce
PROPERTIES
    DecidedIsFinal
    ImplementsTopUp
