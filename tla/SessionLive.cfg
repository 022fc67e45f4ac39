SPECIFICATION FairSpec
INVARIANTS
    TypeOK
    SocketInSession
    BootAwaits
PROPERTIES
    ExpiredIsSwept
    TransportLossHeals
