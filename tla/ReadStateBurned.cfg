SPECIFICATION Spec
CONSTANTS
    Tabs = {t1}
    MaxSeq = 3
    Mine = {2}
    MaxLogins = 1
    MaxFaults = 1
CHECK_DEADLOCK FALSE
INVARIANT ReadingAllLeavesNone
