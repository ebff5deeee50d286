CONSTANTS
  None = None
  h1 = h1
  h2 = h2
  Handlers <- OneHandler
  SlaTarget = 75
  Cooldown = 2
  Window = 2
  MaxTime = 4
  Faults <- AllOfThem
SPECIFICATION Spec
INVARIANTS
  TypeOK
  OutageTracked
  IncidentsDisjoint
  MailsInOrder
  LoggedRemindersSpaced
PROPERTIES
  ImplementsOutage
CHECK_DEADLOCK FALSE
