CONSTANTS
  u = u
  v = v
  a = a
  b = b
  r = r
  Units = {u, v}
  Finds <- MCFinds
  Replayed = {r}
  Slots = 2
  Room <- MCRoom
  Budget <- MCBudget
  MaxCost = 1
  BreakerAt = 1

SPECIFICATION FairSpec
CHECK_DEADLOCK FALSE
INVARIANTS TypeOK NoSendAfterClose HonestResult ReserveForVerify BoundedOvershoot
PROPERTIES RunReturns
