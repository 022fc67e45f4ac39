SPECIFICATION FairSpec
CONSTANTS
    Msgs = {m1}
    Instances = {i1}
    None = None
    Slots <- MCSlots
    RateLimit = 1
    MaxSeq = 3
    MaxFaults = 0
PROPERTY
    SendsAutomatically
CHECK_DEADLOCK FALSE
