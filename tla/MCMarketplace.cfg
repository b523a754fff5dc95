CONSTANTS
    User = {u1, u2, u3}
    ItemId = {i1, i2}
    OrderId = {o1, o2, o3}
    MaxQty = 2
    None = None
SYMMETRY Symmetry
SPECIFICATION Spec
INVARIANTS TypeOK OnePending PendingMeansReserved PendingFitsStock
PROPERTIES ClosedIsFinal StockFollowsCompletion
