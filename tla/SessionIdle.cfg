SPECIFICATION SessionSpec
CONSTANTS
  Tabs = {t1}
  IdleLimit = 2
  Life = 3
  MaxSignIns = 1
INVARIANTS
  SessionEndsWhenIdle
CHECK_DEADLOCK FALSE
