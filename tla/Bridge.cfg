SPECIFICATION BridgeSpec
CONSTANTS
  w1 = w1
  t1 = t1
  usb = usb
  Modulus = 12
  HalfRange = 6
  None = None
  WifiAddresses <- OneAddress
  UsbAddress = usb
  Tokens <- OneToken
  RequirePairing = TRUE
  SwitchGrace = 2
  ActiveTimeout = 3
  Retention = 4
  AckInterval = 1
  PadReadiness = {TRUE}
  Offered = {}
  MaxTime = 5
  Stalls = 1
  WifiAddress = w1
  Token = t1
  MaxSent = 3
  MaxDelay = 1
  CallbackStalls = FALSE
PROPERTIES
  NoRollback
  NewestIsTaken
CHECK_DEADLOCK FALSE
