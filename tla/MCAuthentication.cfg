CONSTANTS
  Conns = {"c1"}
  SessionIds = {"c1", "c2"}
  Names = {"alice", "bob", "root", "mallory", "m@llory"}
  Users = {"alice", "bob", "root"}
  Unknown = {"mallory"}
  Root = {"root"}
  AllowRoot = FALSE
  Algorithms = {"ed25519", "rsa"}
  Supported = {"ed25519"}
  Blobs = {"k1", "k2"}
  FakeBlob = "fake"
  Options = {"plain", "command"}
  NoOptions = "plain"
  KeyFiles <- MCKeyFiles
  Packets <- MCPackets
  MAX_ATTEMPTS = 4
  MaxFiles = 4
SPECIFICATION SpecAuthentication
INVARIANTS TypeOKAuthentication SoundAuthentication OneAnswerEach SuccessIsDelivered
CHECK_DEADLOCK FALSE
