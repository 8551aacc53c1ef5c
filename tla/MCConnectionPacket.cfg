CONSTANTS
  MaxShells = 1
  ExitCodes = {exit0}
  PtyIn = 2
  PtyOut = 1
  MaxOutput = 1
  IoErrors = FALSE
  MaxId = 0
  MaxWindow = 4
  INITIAL_WINDOW_SIZE = 4
  READ_BUF = 1
  MAX_ENV = 1
  BANNER_LEN = 2
  RemoteIds = {7}
  Sizes = {0, 1, 2, 3}
  MaxWrite = 1
  MaxCredit = 9
  MaxSteps = 0
  MaxRead = 2
  ClientWindow = 2
  ClientPacket = 1
  DataSizes = {1, 3}
  Optional = {"env", "window-change", "other", "data", "eof", "close", "global", "ignore", "disconnect", "rekey"}
SPECIFICATION SpecConnection
INVARIANT WithinPacket
CHECK_DEADLOCK FALSE
