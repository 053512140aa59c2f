SPECIFICATION FairSpec
CONSTANTS
    Syncs = {t1, t2}
    Ingests = {i1, i2}
    Symbols = {s1}
    LastDate = 3
    TradingDays = {1, 3}
    FirstDay = 2
    FirstMinute = 3
    LastMinute = 3
    AtMinute = 1
    RetryGap = 2
    Backoff = 2
    MaxDays = 2
    Lookback = 2
    MaxIncidents = 1
    Faults = {"statement", "row", "blank", "source", "options", "crash"}
CHECK_DEADLOCK FALSE
INVARIANTS
    OkIsBacked
PROPERTIES
    AutomaticIngestsAreApart
    DayIsStored
