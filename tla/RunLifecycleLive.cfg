\* Runs wait in the queue past their lease, are lost or refused:
\* what comes late frees no other's claim, and every fair behaviour frees the session.
SPECIFICATION FairSpec
CONSTANTS
    a1 = a1
    a2 = a2
    a3 = a3
    Attempt <- TwoAttempts
    None = None
    PrepTicks = 1
    RunTicks = 1
    FinalizeTicks = 1
    MarginTicks = 3
    Faults <- Late
PROPERTIES
   LateReleaseSparesTakeover
   SessionNeverWedges
   EveryRunIsSettled
