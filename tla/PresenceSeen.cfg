SPECIFICATION FairSpec
CONSTANTS
    Socks = {s1, s2}
    Instances = {i1}
    Lease = 3
    MaxMisses = 1
    MaxNews = 2
    MaxFaults = 0
PROPERTY ConnectedIsSeen
