CONSTANTS
  MaxShells = 1
  ExitCodes = {exit0}
  PtyIn = 1
  PtyOut = 1
  MaxOutput = 1
  IoErrors = TRUE
  MaxId = 0
  MaxWindow = 4
  INITIAL_WINDOW_SIZE = 4
  READ_BUF = 1
  MAX_ENV = 0
  BANNER_LEN = 1
  RemoteIds = {7}
  Sizes = {3}
  MaxWrite = 0
  MaxCredit = 5
SPECIFICATION SpecSession
INVARIANTS TypeOK WithinCredit WindowReplenished ShellsOwned WriteTargetRuns
PROPERTIES ChannelsKeepIdentity RekeyQuiet ImplementsChannels
CHECK_DEADLOCK FALSE
