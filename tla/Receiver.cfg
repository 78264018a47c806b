SPECIFICATION Spec
CONSTANTS
  w1 = w1
  w2 = w2
  t1 = t1
  t2 = t2
  usb = usb
  Modulus = 4
  HalfRange = 2
  None = None
  WifiAddresses <- OneAddress
  UsbAddress = usb
  Tokens <- TwoTokens
  RequirePairing = TRUE
  SwitchGrace = 1
  ActiveTimeout = 2
  Retention = 2
  AckInterval = 2
  PadReadiness = {TRUE}
  Offered = {0}
  MaxTime = 3
  Stalls = 1
SYMMETRY Symmetry
INVARIANTS
  OwnerIsKnown
  WifiClientsArePaired
  BlockedIsKnownAndIdle
PROPERTIES
  OwnerKeepsPad
  RelaunchIsHeard
  DisconnectionStands
  AcksAreSpaced
CHECK_DEADLOCK FALSE
