CONSTANTS
    User = {u1, u2}
    ItemId = {i1}
    OrderId = {o1, o2}
    MaxQty = 2
    None = None
    Req = {r1, r2}
    PoolMax = 1
    OldItem = i1
    OldOrder = o1
SYMMETRY Symmetry
VIEW View
SPECIFICATION LegacySpec
INVARIANTS OnlyOldOrderExceeds
PROPERTIES OversizedOrderSellsOut
