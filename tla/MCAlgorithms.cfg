CONSTANTS
  SCALAR_LEN = 2
  MAX_KEYS = 3
  MIN_BUF_LEN = 4
  MAX_BUF_LEN = 20
  U32_MAX = 99
  MaxPayload = 33
  LengthFields = {0, 1, 4, 5, 12, 16, 20, 32, 36, 65536, 65537}
  OptionLength = 5
  Symbol <- MCSymbol
  Name <- MCName
  Sent <- MCSent
  Foreign <- MCForeign
  Connections <- MCConnections
  Lines <- MCLines
  Commands <- MCCommands
  Lookups <- MCLookups
SPECIFICATION Spec
INVARIANTS FramingSound HostKeysAgree AuthorizedKeysRight
CHECK_DEADLOCK FALSE
