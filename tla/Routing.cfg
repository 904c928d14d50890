SPECIFICATION Spec
CONSTANTS
    None = None
    Triggers <- AllTriggers
    MaxRelabels = 1
INVARIANTS
    OutsiderGetsReviewOnly
    OneReading
    CommentAsksWithinGrant
CHECK_DEADLOCK FALSE
