SPECIFICATION Spec
CONSTANTS
    Convs = {c1, c2}
    MaxEvents = 4
    Nobody = Nobody
CHECK_DEADLOCK FALSE
INVARIANTS
    StartsAreStopped
PROPERTIES
    IndicatorClears
