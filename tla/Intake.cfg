SPECIFICATION Spec
CONSTANTS
  None = None
  h1 = h1
  h2 = h2
  Hosts <- TwoHosts
  WifiKinds = {"malformed", "unpaired", "foreign"}
  CableKinds = {"odd"}
  MaxEntries = 2
  TTL = 2
  MaxLag = 1
  MaxTime = 4
  MaxDatagrams = 4
  MaxErrors = 1
SYMMETRY Symmetry
INVARIANT CountersAddUp
PROPERTY RejectionsAreLogged
CHECK_DEADLOCK FALSE
