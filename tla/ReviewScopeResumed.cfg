SPECIFICATION Spec
CONSTANTS
    p1 = p1
    p2 = p2
    c1 = c1
    c2 = c2
    Patches <- TwoPatches
    Comments <- TwoComments
    None = None
    MaxChanges = 2
    MaxRuns = 2
    MaxRestarts = 1
INVARIANT BaselineIsReviewed
CHECK_DEADLOCK FALSE
