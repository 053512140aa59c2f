SPECIFICATION Spec
CONSTANTS
    Users = {u1}
    Calls = {c1, c2}
    c1 = c1
    c2 = c2
    KindsOf <- AnyAndSystemOne
    Models = 2
    ToolSets = 1
    Tokens = {1}
    Limits = {0, 1}
    Disturbances = 1
    Failures = {"statement", "model"}
CHECK_DEADLOCK FALSE
INVARIANTS
    QuotaIsRespected
    
