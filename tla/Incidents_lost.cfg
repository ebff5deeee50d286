CONSTANTS
  None = None
  h1 = h1
  h2 = h2
  Handlers <- OneHandler
  SlaTarget = 75
  Cooldown = 2
  Window = 2
  MaxTime = 3
  Faults <- AbortFault
SPECIFICATION Spec
INVARIANT OwnersTold
CHECK_DEADLOCK FALSE
