CONSTANTS
    Writer = {w1, w2}
    MaxRow = 4
    MaxMove = 1
    Size = 2
    Kinds = {"history", "list", "inbox"}
SYMMETRY Symmetry
SPECIFICATION Spec
INVARIANTS TypeOK OnlyReversedAffected OffsetWalkShifts InboxMissesOnlyMoved
