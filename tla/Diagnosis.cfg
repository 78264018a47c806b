SPECIFICATION Spec
CONSTANTS
  Codes = {"a"}
  PspCode = "a"
PROPERTY GuidanceConverges
