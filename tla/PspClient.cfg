SPECIFICATION LiveSpec
CONSTANTS
  Pcs = {pc1, pc2}
  None = None
  Broadcast = Broadcast
  AckTimeout = 1
  SleepDelay = 1
  HoldTime = 1
  ReadsFail = TRUE
INVARIANTS
  LinksAreTakenDown
  SavesPowerOnlyWhileServed
  AuthorizedPcGetsInput
PROPERTIES
  NoSilentSwitch
  PcIsFound
  ExitCompletes
