CONSTANTS
    Writer = {w1, w2}
    MaxRow = 3
    MaxMove = 0
    Size = 1
    Kinds = {"history"}
SYMMETRY Symmetry
SPECIFICATION Spec
INVARIANTS WalkIsComplete
