SPECIFICATION Spec
CONSTANTS
    Tabs = {t1}
    Messages = {m1}
    Users = {ann, bob}
    Nobody = Nobody
CHECK_DEADLOCK FALSE
INVARIANT StoredAsAuthors
