SPECIFICATION SessionSpec
CONSTANTS
  Tabs = {t1, t2}
  IdleLimit = 1
  Life = 2
  MaxSignIns = 1
INVARIANTS
  DoorsAgree
PROPERTIES
  TabsFindTheirPlace
CHECK_DEADLOCK FALSE
