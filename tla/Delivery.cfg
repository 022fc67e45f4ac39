SPECIFICATION FairSpec
CONSTANTS
    MaxSeq = 3
    Page = 1
    MaxFaults = 1
INVARIANTS
    TypeOK
    WatermarkBacked
    SessionCoversLog
PROPERTIES
    ImplementsHighWaterMark
    CaughtUp
CHECK_DEADLOCK FALSE
