CONSTANTS
    User = {u1, u2}
    ItemId = {i1}
    OrderId = {o1}
    MaxQty = 1
    None = None
    Req = {r1, r2}
    PoolMax = 1
SPECIFICATION FairSpec
PROPERTIES RequestsFinish
