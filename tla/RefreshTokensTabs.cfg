SPECIFICATION Spec
CONSTANTS
    t1 = t1
    t2 = t2
    t3 = t3
    b1 = b1
    b2 = b2
    Tabs = {t2, t3}
    Browsers = {b2}
    BrowserOf <- MCTogether
    Requests = {r1, r2}
    Nobody = Nobody
    MaxTokens = 4
    MaxMishaps = 0
SYMMETRY MCSymmetry
INVARIANT SharingSuffices
