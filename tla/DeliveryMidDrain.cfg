SPECIFICATION Spec
CONSTANTS
    MaxSeq = 3
    Page = 1
    MaxFaults = 1
INVARIANT MidDrainRedelivery
CHECK_DEADLOCK FALSE
