SPECIFICATION SilenceSpec
CONSTANTS
  Addresses = {wifi}
  Inputs = {neutral, pressed}
  Neutral = neutral
  NeutralTimeout = 1
  SessionTimeout = 3
  RetryDelay = 2
  Faults = {"neutralize"}
  NoAddress = NoAddress
  Absent = Absent
  Never = Never
INVARIANT
  PressedPadIsOwned
