\* As many connections as workers, and one request of the API that competes.
SPECIFICATION FairSpec
CONSTANTS
  w1 = w1
  w2 = w2
  c1 = c1
  Workers <- TwoWorkers
  Clients <- OneClient
  PoolSize = 2
  MaxChecks = 3
  Faults <- AllFaults
INVARIANTS
  TypeOK
  ConnectionsReturned
  CountersCoverHistory
PROPERTIES
  VerdictToldOrStored
  KeepsChecking
CHECK_DEADLOCK FALSE
