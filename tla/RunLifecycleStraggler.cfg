\* A run may wait in the host's queue past its lease; then it comes late.
SPECIFICATION Spec
CONSTANTS
    a1 = a1
    a2 = a2
    a3 = a3
    Attempt <- TwoAttempts
    None = None
    PrepTicks = 1
    RunTicks = 2
    FinalizeTicks = 1
    MarginTicks = 3
    Faults <- Queues
PROPERTY FreedOnlyByItsRun
