CONSTANTS
  None = None
  h1 = h1
  h2 = h2
  Handlers <- TwoHandlers
  SlaTarget = 75
  Cooldown = 1
  Window = 2
  MaxTime = 2
  Faults <- TwoHandlerFaults
SPECIFICATION Spec
SYMMETRY HandlerSymmetry
INVARIANTS
  OneOpen
  AnnouncedOnce
  MailsAreCommitted
  IncidentsInv
CHECK_DEADLOCK FALSE
