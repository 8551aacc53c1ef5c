CONSTANTS
  MaxShells = 1
  ExitCodes = {exit0}
  PtyIn = 1
  PtyOut = 1
  MaxOutput = 0
  IoErrors = FALSE
  MaxId = 0
  MaxWindow = 4
  INITIAL_WINDOW_SIZE = 4
  READ_BUF = 1
  MAX_ENV = 1
  BANNER_LEN = 1
  RemoteIds = {7}
  Sizes = {0, 1, 2, 3}
  MaxWrite = 0
  MaxCredit = 9
  MaxSteps = 2
  MaxRead = 2
  ClientWindow = 1
  ClientPacket = 1
  DataSizes = {2}
  Optional = {"data", "close"}
SPECIFICATION FairInteractive
PROPERTY InputDelivered
CHECK_DEADLOCK FALSE
