SPECIFICATION Spec
CONSTANTS
    None = None
    Triggers <- AllTriggers
    MaxRelabels = 1
INVARIANT CommitIsPermitted
CHECK_DEADLOCK FALSE
