SPECIFICATION FairSpec
CONSTANTS
  Addresses = {wifi, usb}
  Inputs = {neutral, pressed, tilted}
  Neutral = neutral
  NeutralTimeout = 2
  SessionTimeout = 3
  RetryDelay = 2
  Faults = {"connect", "apply"}
  NoAddress = NoAddress
  Absent = Absent
  Never = Never
INVARIANTS
  PressedPadIsOwned
  FailureLeavesNoSession
  RetryBelongsToFailure
PROPERTIES
  ImplementsSafePad
  SilenceReleases
  RetryIsMade
  StopCompletes
