SPECIFICATION FairSpec
CONSTANTS
    Users = {u1, u2}
    Holders = {u1}
    Runs = {r1}
    Refs = {r1}
    Nobody = Nobody
    NoRef = NoRef
    Kinds <- MCKinds
    MaxBalance = 1
    IntMax = 2
    LastDay = 1
    Minutes = 1
    RetryAfter = 1
    Fee = 1
    Configs <- OnAndOff
    Choices <- Changing
    Amounts = {1}
    Opening = {1}
    Operations = {"tick", "manual", "choose", "configure", "credit"}
    Failures = {"statement", "telegram", "answer", "speech", "crash"}
CHECK_DEADLOCK FALSE

    
PROPERTIES
    FlagIsReleased
