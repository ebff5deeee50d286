\* Half seconds: gaps of 1 and 1.5 seconds, a cache that lives for 1 second.
SPECIFICATION ServiceSpec
CONSTANTS
  None = None
  r1 = r1
  r2 = r2
  Readers <- TwoReaders
  Unit = 2
  MinGap = 2
  MaxGap = 3
  MaxChecks = 4
  Ttl = 2
  Slow = 1
  MaxTime = 8
SYMMETRY ReaderSymmetry
INVARIANTS
  ServiceTypeOK
  ServedFresh
  FullSlaMeansNoFailure
  SlaCountsUptime
  CurrentUptimeIsStreak
CHECK_DEADLOCK FALSE
