SPECIFICATION Spec
CONSTANTS
    Msgs = {m1}
    Instances = {i1, i2}
    None = None
    Slots <- MCSlots
    RateLimit = 2
    MaxSeq = 3
    MaxFaults = 2
INVARIANT
    RoomAlreadyReceived
CHECK_DEADLOCK FALSE
