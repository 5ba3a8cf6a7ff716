CONSTANTS
  f1 = f1
  f2 = f2
  w1 = w1
  w2 = w2
  NoFp = NoFp
  Fingerprints = {f1, f2}
  Workers = {w1}
  NeedsHuman = {f2}
  WitnessOnly = {f1}
  Gated = {f1}
  MaxAttempts = 2
  SlowAttempts = FALSE
  AttendedRuns = FALSE
  MaxFaults = 2
  MaxInterrupts = 1
  MaxReopens = 1
SPECIFICATION FairSpec
PROPERTY QueueDrains
