SPECIFICATION Spec
CONSTANTS
  Tokens = {1, 16909060}
  DemoIndices = {0, 51, 128, 179, 333}
  ByteValues = {0, 1, 2, 28, 32}
  MaxDamage = 1
INVARIANTS
  AcceptedIsCanonical
  CodeIsTheToken
  OnlyTheCodeOpensWifi
  PadFollowsPsp
