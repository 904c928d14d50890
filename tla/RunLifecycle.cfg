\* No unbounded queue wait, no restart: runs are lost, dispatches refused, the store fails.
SPECIFICATION Spec
CONSTANTS
    a1 = a1
    a2 = a2
    a3 = a3
    Attempt <- Attempts
    None = None
    PrepTicks = 1
    RunTicks = 2
    FinalizeTicks = 1
    MarginTicks = 3
    Faults <- Lossy
SYMMETRY AttemptSymmetry
INVARIANTS
    OneRunPerSession
    LeaseOutlivesRun
    OutcomeHasOwner
