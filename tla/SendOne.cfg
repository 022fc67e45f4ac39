SPECIFICATION FairSpec
CONSTANTS
    Msgs = {m1}
    Instances = {i1, i2}
    None = None
    Slots <- MCSlots
    RateLimit = 1
    MaxSeq = 3
    MaxFaults = 2
INVARIANTS
    ExactlyOnce
    ThreadMatchesLog
    AnnouncedOnce
PROPERTY
    SendingSettles
CHECK_DEADLOCK FALSE
