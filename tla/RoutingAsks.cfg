SPECIFICATION Spec
CONSTANTS
    None = None
    Triggers <- AllTriggers
    MaxRelabels = 1
INVARIANT PRAsksAgree
CHECK_DEADLOCK FALSE
