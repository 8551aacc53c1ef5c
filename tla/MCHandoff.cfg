\* Three handoffs, one of which may hang, on two workers.  Messages of two and
\* of five bytes: the length alone, and more than the socket or a chunk holds.
CONSTANTS
  Conns = {c1, c2, c3}
  Workers = 2
  Fragile = {c1}
  Sizes = {0, 3}
  PREFIX = 2
  CHUNK = 3
  BUFFER = 4
SPECIFICATION FairHandoff
INVARIANTS NeverOnlyInFlight ExactState ReturnedMeansServing
PROPERTIES OwnerMoves HandoffsEnd NothingStranded
\* Every handoff may be over.
CHECK_DEADLOCK FALSE
