SPECIFICATION Spec
CONSTANTS
    c1 = c1
    c2 = c2
    c3 = c3
    f1 = f1
    f2 = f2
    w1 = w1
    w2 = w2
    Commit <- Commits
    Workflow <- Workflows
    Worker <- Workers
    None = None
    MaxMoves = 5
    Faults <- NoFaults
SYMMETRY HealSymmetry
INVARIANTS
    OneHealPerCommit
CHECK_DEADLOCK FALSE
