SPECIFICATION SetupLiveSpec
CONSTANTS
  Attempts = 2
  Ports = {"A", "B"}
INVARIANTS
  NoDeviceIsOrphaned
  AtMostOneLatePacket
PROPERTIES
  ThreadEnds
  CableIsUsed
