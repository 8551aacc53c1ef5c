CONSTANTS
  Size <- MCSize
  SequenceModulus = 5
  Eager = TRUE
  Capacity = 5
  MaxStrays = 0
  MaxMessages = 2
  MaxOutputs = 1
  MaxExchanges = 3
SPECIFICATION SpecTransport
INVARIANT IdentifiedFromStart
CHECK_DEADLOCK FALSE
