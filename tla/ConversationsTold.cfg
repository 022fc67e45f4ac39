SPECIFICATION Spec
CONSTANTS
    ann = ann
    bob = bob
    s1 = s1
    s2 = s2
    r1 = r1
    r2 = r2
    r3 = r3
    r4 = r4
    ghost = ghost
    Users = {ann, bob}
    Sockets = {s1, s2}
    Owner <- MCOwner
    Requests = {r1, r2, r3, r4}
    Via <- MCVia
    Named <- MCNamed
    Dms = {r1, r2, r4}
    Nothing = Nothing
PROPERTY ToldIsInside
