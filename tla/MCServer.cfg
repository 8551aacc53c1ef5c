CONSTANTS
  Conns = {"c1", "c2", "c3"}
  SessionIds = {"c1", "c2", "c3"}
  Names = {"alice"}
  Users = {"alice"}
  Unknown = {}
  Root = {}
  AllowRoot = FALSE
  Algorithms = {"ed25519"}
  Supported = {"ed25519"}
  Blobs = {"k1"}
  FakeBlob = "fake"
  Options = {"plain"}
  NoOptions = "plain"
  KeyFiles <- MCKeyFiles
  Packets <- MCPackets
  MAX_ATTEMPTS = 2
  MaxFiles = 1
  MaxPermits = 2
SPECIFICATION FairServer
INVARIANTS PermitsAccounted HandoffIsClean
PROPERTIES ImplementsAdmission HandshakesEnd
CHECK_DEADLOCK FALSE
