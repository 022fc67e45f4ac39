SPECIFICATION FairSpec
CONSTANTS
    Tabs = {t1}
    MaxSeq = 3
    Mine = {2}
    MaxLogins = 1
    MaxFaults = 1
CHECK_DEADLOCK FALSE
INVARIANTS
    TypeOK
    UnreadCoversStored
PROPERTIES
    ImplementsHighWaterMark
    HeardIsMarked
