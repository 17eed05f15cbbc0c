SPECIFICATION Spec
CONSTANTS
  MAX_SOCKET_NUM = 2
  CacheSize = 2
  Fds = {0, 1}
  MaxBytes = 3
INVARIANTS  StreamKept
