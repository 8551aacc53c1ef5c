CONSTANTS
  Size <- MCSize
  SequenceModulus = 5
  Eager = FALSE
  Capacity = 5
  MaxStrays = 0
  MaxMessages = 1
  MaxOutputs = 1
  MaxExchanges = 3
SPECIFICATION SpecTransport
INVARIANT IgnoreIsIgnored
CHECK_DEADLOCK FALSE
