SPECIFICATION Spec
CONSTANTS
    MaxSeq = 3
    Page = 3
    MaxFaults = 1
INVARIANT DeliveredIffWatermark
CHECK_DEADLOCK FALSE
