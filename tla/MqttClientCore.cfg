\* A connection, and calls under a timer, over a network that may be late or
\* break at any point.  Once the calls are used up the system rests.
SPECIFICATION FairSpec
CONSTANTS
  Topics = {a}
  NoTopic = none
  Inbound <- TheInbound
  Body <- TheBody
  MaxId = 3
  MaxHandlers = 1
  MaxCalls = 3
  MaxPubs = 1
  MaxDue = 1
  MaxRemain = 3
INVARIANTS InSync PingNotForgotten AcksAwaited AckIsOurs MessageHandled
PROPERTY CallReturns
CHECK_DEADLOCK FALSE
