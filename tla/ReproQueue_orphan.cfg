CONSTANTS
  f1 = f1
  f2 = f2
  w1 = w1
  w2 = w2
  NoFp = NoFp
  Fingerprints = {f1}
  Workers = {w1}
  NeedsHuman = {}
  WitnessOnly = {}
  Gated = {}
  MaxAttempts = 3
  SlowAttempts = FALSE
  AttendedRuns = FALSE
  MaxFaults = 3
  MaxInterrupts = 0
  MaxReopens = 0
SPECIFICATION FairSpec
PROPERTY OrphanRecovered
