SPECIFICATION FairSpec
CONSTANTS
  Addrs = {a1, a2}
  NoAddr = none
  QLen = 2
INVARIANTS  NotedRight
PROPERTY LooperReturns
CHECK_DEADLOCK FALSE
