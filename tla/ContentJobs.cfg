SPECIFICATION Spec
CONSTANTS
    Jobs = {j1, j2, j3}
    AtOnce = 2
    LastDay = 2
    Scenes <- MCScenes
    Disturbances = 1
    Failures = {"statement", "source", "restart"}
    Rates = {1, 2}
    Quoted <- MCQuoted
    Points = {1}
    Coins = {1}
    Interest = {1}
    Lucid = {t1}
    Months = {1, 2}
    Keep = 1
SYMMETRY JobSymmetry
CHECK_DEADLOCK FALSE
INVARIANTS
    JobsStayApart
PROPERTIES
    DollarRowsOfTheirDay
    
