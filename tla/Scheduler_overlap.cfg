\* Three overlapping writes of one service, every failure.
SPECIFICATION Spec
CONSTANTS
    s1 = s1
    s2 = s2
    None = None
    Services <- OneService
    Workers <- FiveWorkers
    MaxVersion = 3
    Faults <- AnyFault
INVARIANTS
    TypeOK
    NoOrphan
    RegisteredIsRunning
    StopOwnership
    RefreshReadsNotified
    FleetInv
