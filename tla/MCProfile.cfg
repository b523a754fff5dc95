CONSTANTS
    File = {f1, f2}
    MaxImages = 2
    Device = {d1, d2}
    Phone = {p1, p2}
    Foreign = foreign
    Nowhere = nowhere
    Undefined = undefined
    None = None
SYMMETRY Symmetry
SPECIFICATION ProfileSpec
INVARIANTS ProfileTypeOK FailureLeavesNothing QrStaysInBucket AcceptedChangesStay
