CONSTANTS
    User = {u1, u2, u3}
    Identity = {x1}
    None = None
    Req = {r1, r2}
    MaxEntries = 2
    TTL = 1
    QueryMax = 1
SYMMETRY Symmetry
SPECIFICATION Spec
INVARIANTS TypeOK CacheBounded
PROPERTIES AnswersRecent
