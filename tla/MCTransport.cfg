CONSTANTS
  Size <- MCSize
  SequenceModulus = 5
  Eager = FALSE
  Capacity = 5
  MaxStrays = 1
  MaxMessages = 1
  MaxOutputs = 1
  MaxExchanges = 3
SPECIFICATION FairTransport
INVARIANTS NoTransportError NoncesUnique SessionIdAgrees
PROPERTIES DeliversInOrder EverythingArrives
CHECK_DEADLOCK FALSE
