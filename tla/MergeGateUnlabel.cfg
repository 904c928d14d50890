SPECIFICATION Spec
CONSTANTS
    h1 = h1
    h2 = h2
    w1 = w1
    w2 = w2
    Head <- Heads
    Worker <- Workers
    None = None
    MaxMoves = 5
    Moves <- NoMoves
SYMMETRY MergeSymmetry
INVARIANTS
    WithdrawnStaysWithdrawn
CHECK_DEADLOCK FALSE
