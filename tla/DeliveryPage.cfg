SPECIFICATION Spec
CONSTANTS
    None = None
    Page = 2
    MaxRevisions = 2
    MaxOthers = 2
    MaxCrashes = 1
INVARIANT RevisesItsComment
CHECK_DEADLOCK FALSE
