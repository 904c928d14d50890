\* A page of two entries stands for GitHub's hundred: one more overflows it.
SPECIFICATION Spec
CONSTANTS
    None = None
    Page = 2
    MaxRevisions = 2
    MaxOthers = 2
    MaxCrashes = 1
INVARIANTS
    OutcomeIsTrue
    NothingPostedTwice
    FollowsItsPR
CHECK_DEADLOCK FALSE
