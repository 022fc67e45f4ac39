SPECIFICATION FairSpec
CONSTANTS
    Socks = {s1}
    Instances = {i1}
    Lease = 3
    MaxMisses = 1
    MaxNews = 2
    MaxFaults = 1
PROPERTY GoneIsSeen
