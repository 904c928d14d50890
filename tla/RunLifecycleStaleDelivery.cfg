\* A run that delivered is lost; the takeover of its session runs to its end.
SPECIFICATION Spec
CONSTANTS
    a1 = a1
    a2 = a2
    a3 = a3
    Attempt <- TwoAttempts
    None = None
    PrepTicks = 1
    RunTicks = 2
    FinalizeTicks = 1
    MarginTicks = 3
    Faults <- Loses
PROPERTY SettlesOwnDelivery
