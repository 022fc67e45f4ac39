SPECIFICATION Spec
CONSTANTS
    Tabs = {t1, t2}
    Messages = {m1, m2}
    Users = {ann}
    Nobody = Nobody
CHECK_DEADLOCK FALSE
INVARIANT KeptUntilStored
