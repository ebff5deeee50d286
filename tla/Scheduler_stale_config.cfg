\* One write, a refresh and a poll in flight at once, no failure.
SPECIFICATION FairSpec
CONSTANTS
    s1 = s1
    s2 = s2
    None = None
    Services <- OneService
    Workers <- ThreeWorkers
    MaxVersion = 1
    Faults <- NoFault
PROPERTY ConfigConverges
