SPECIFICATION Spec
CONSTANTS
    Msgs = {m1, m2}
    Instances = {i1, i2}
    None = None
    Slots <- MCOneSlot
    RateLimit = 1
    MaxSeq = 3
    MaxFaults = 3
SYMMETRY MCSymmetry
INVARIANTS
    TypeOK
    CausalOrder
    ConfirmedIsCommitted
    RenderedOnce
PROPERTY ImplementsPromise
CHECK_DEADLOCK FALSE
