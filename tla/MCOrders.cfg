CONSTANTS
    User = {u1, u2}
    ItemId = {i1}
    OrderId = {o1, o2}
    MaxQty = 1
    None = None
    Req = {r1, r2}
    PoolMax = 2
SYMMETRY Symmetry
VIEW View
SPECIFICATION Spec
INVARIANTS TypeOK LockedRowsAreCurrent IndexNeverFires LockHoldersNeverWait ClosingToldOnce
PROPERTIES RefinesMarketplace
