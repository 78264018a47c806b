SPECIFICATION LiveSpec
CONSTANTS
  UserMay = {"disconnect", "authorize", "settings", "close"}
  SocketFails = TRUE
  MaxBridges = 2
  MaxMessages = 2
INVARIANTS
  TypeOK
  OneReceiverRuns
PROPERTIES
  RestartIsMade
  PlayIsShown
  LossIsShown
