\* The session process dies before it acknowledges.
CONSTANTS
  Conns = {c1, c2}
  Workers = 2
  Fragile = {c1}
  Sizes = {0, 4}
  PREFIX = 2
  CHUNK = 3
  BUFFER = 4
SPECIFICATION FairHandoff
PROPERTY DeathNoticed
\* Every handoff may be over.
CHECK_DEADLOCK FALSE
