SPECIFICATION Spec
CONSTANTS
    Users = {u1, u2}
    Holders = {}
    Runs = {r1, r2}
    Refs = {r1, r2}
    Nobody = Nobody
    NoRef = NoRef
    Kinds <- MCKinds
    MaxBalance = 3
    IntMax = 4
    LastDay = 2
    Minutes = 2
    RetryAfter = 1
    Fee = 1
    Configs <- EveryDay
    Choices <- NewsOnly
    Amounts = {1}
    Opening = {0, 1}
    Operations = {"tick", "manual"}
    Failures = {"telegram", "crash"}
SYMMETRY RunSymmetry
CHECK_DEADLOCK FALSE
INVARIANTS
    OneRunAtATime
    DayIsAccountedFor
