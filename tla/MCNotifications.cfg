CONSTANTS
    Note = {n1, n2, n3, n4, n5}
    Stored = {n1, n2, n3}
    Req = {r1, r2, r3}
    None = None
SYMMETRY Symmetry
SPECIFICATION Spec
INVARIANTS TypeOK BadgeLacksOnlyMissed
