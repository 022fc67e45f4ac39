SPECIFICATION Spec
CONSTANTS
    Socks = {s1, s2}
    Instances = {i1, i2}
    Lease = 3
    MaxMisses = 1
    MaxNews = 1
    MaxFaults = 1
SYMMETRY MCSymmetry
INVARIANTS
    TypeOK
    PresentWhileConnected
    OnlineWasAnnounced
PROPERTY GhostsOnlyAge
