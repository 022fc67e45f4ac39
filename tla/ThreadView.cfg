SPECIFICATION FairSpec
CONSTANTS
    MaxSeq = 4
    Page = 1
    MaxPage = 2
    Fits = 1
    MaxFaults = 1
INVARIANTS
    TypeOK
    HistoryLeavesNoGap
PROPERTY HistoryReached
