CONSTANTS
  sweep = sweep
  drain = drain
  poll = poll
  Timers = {sweep, drain, poll}
  Poll = poll
  Sweep = sweep
  Rank <- MCRank
  Interval <- MCInterval
  IdleBackoff = 1
  MaxMultiplier = 2
  MaxNow = 7
SPECIFICATION Spec
INVARIANTS TypeOK BoundedOvertaking
CHECK_DEADLOCK FALSE
