SPECIFICATION Spec
CONSTANTS
    t1 = t1
    t2 = t2
    t3 = t3
    b1 = b1
    b2 = b2
    Tabs = {t1, t2, t3}
    Browsers = {b1, b2}
    BrowserOf <- MCMixed
    Requests = {r1, r2}
    Nobody = Nobody
    MaxTokens = 3
    MaxMishaps = 2
SYMMETRY MCSymmetry
INVARIANTS
    TypeOK
    FamilyKeepsToken
    NoFalseAlarm
PROPERTY OnlyOwnFamily
