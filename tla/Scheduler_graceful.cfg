\* A refresh in flight during the shutdown.
SPECIFICATION Spec
CONSTANTS
    s1 = s1
    s2 = s2
    None = None
    Services <- OneService
    Workers <- ThreeWorkers
    MaxVersion = 1
    Faults <- Shutdown
INVARIANT GracefulStop
