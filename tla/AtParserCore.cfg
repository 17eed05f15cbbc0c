SPECIFICATION ParserSpec
CONSTANTS
  CMD_CACHE_MAX_LEN = 5
  BufferSize = 2
  WinSize = 4
  Scripts <- MCScripts
  MaxItems = 3
  Lens = {1, 2, 3, 4, 6}
  MaxData = 3
INVARIANTS  RunAgain DataWritten
CHECK_DEADLOCK FALSE
