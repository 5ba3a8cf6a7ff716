CONSTANTS
  x = x
  a = a
  b = b
  None = None
  Event = Event
  Conns = {x}
  Requests = {a, b}
  ConnOf <- MCConnOf
  QueueSize = 1
  OutboxSize = 1
  MaxEvents = 1
SPECIFICATION FairSpec
INVARIANTS TypeOK OkMeansRan
PROPERTIES CallsReturn ClientsForgotten ShutdownCompletes
CHECK_DEADLOCK FALSE
