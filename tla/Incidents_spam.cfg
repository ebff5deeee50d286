CONSTANTS
  None = None
  h1 = h1
  h2 = h2
  Handlers <- OneHandler
  SlaTarget = 75
  Cooldown = 2
  Window = 2
  MaxTime = 6
  Faults <- LogFault
SPECIFICATION Spec
INVARIANT ReminderSpacing
CHECK_DEADLOCK FALSE
