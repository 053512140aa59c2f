SPECIFICATION Spec
CONSTANTS
    s1 = s1
    s2 = s2
    Symbols = {s1, s2}
    Users = {u1}
    Requests = {r1, r2}
    Refs = {r1, r2}
    NoRef = NoRef
    Kinds <- MCKinds
    Portfolios = {p1}
    Owner <- MCOwner
    MaxQty = 2
    Suggestions <- One
    EditLists <- MCEditLists
    CashMoves <- MCCashMoves
    Capitals = {1}
    Fee = 1
    MaxBalance = 2
    IntMax = 2
    Amounts = {1}
    Opening = {1}
    Operations = {"suggest", "strategies", "hedge", "analyze", "rebalance", "monthly", "apply",
                  "suggestion", "edit", "adjust", "strategy", "cash", "create", "delete", "credit"}
    Failures = {"statement", "model", "crash"}
CHECK_DEADLOCK FALSE
SYMMETRY RequestSymmetry
INVARIANTS
    
    EditsBuildOnTheirBase
PROPERTIES
    HistoryIsKept
