\* Callbacks and threads attach and detach, a caller waits for its handler, and
\* the queue fills.  With no message left to come the looper waits for ever.
SPECIFICATION FairSpec
CONSTANTS
  one = one
  all = all
  Obs <- TheObs
  Events <- TheEvents
  Watch <- TheWatch
  ALL_SUBTYPE = 65535
  Callers = {c1}
  NoOne = none
  QLen = 2
  MaxMsgs = 3
  MaxCalls = 5
INVARIANTS ListSound EachOnce
PROPERTIES OnlyArmed EventNotified
CHECK_DEADLOCK FALSE
