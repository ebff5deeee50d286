\* Two services, so that one poll stops several workers.
\* Lossy notifications and reads, and a shutdown at any time; no restart for ever.
SPECIFICATION FairSpec
CONSTANTS
    s1 = s1
    s2 = s2
    None = None
    Services <- TwoServices
    Workers <- SixWorkers
    MaxVersion = 1
    Faults <- LossyShutdown
PROPERTIES
    NeverOverwritten
    ImplementsFleet
    Converges
    ShutdownTerminates
