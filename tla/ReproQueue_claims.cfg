CONSTANTS
  f1 = f1
  f2 = f2
  w1 = w1
  w2 = w2
  NoFp = NoFp
  Fingerprints = {f1}
  Workers = {w1, w2}
  NeedsHuman = {}
  WitnessOnly = {}
  Gated = {f1}
  MaxAttempts = 3
  SlowAttempts = FALSE
  AttendedRuns = TRUE
  MaxFaults = 3
  MaxInterrupts = 1
  MaxReopens = 1
SPECIFICATION Spec
INVARIANTS TypeOK ExclusiveClaim BudgetAccounting NoBurnedAttempt
PROPERTY RowsImplementLifecycle
