SPECIFICATION Spec
CONSTANTS
    p1 = p1
    p2 = p2
    c1 = c1
    c2 = c2
    Patches <- TwoPatches
    Comments <- TwoComments
    None = None
    MaxChanges = 2
    MaxRuns = 2
    MaxRestarts = 1
SYMMETRY ScopeSymmetry
INVARIANTS
    BaselineWasRead
    WatermarkWasShown
    ListedReviewMissesNothing
CHECK_DEADLOCK FALSE
