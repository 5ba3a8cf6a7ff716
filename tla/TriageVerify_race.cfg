CONSTANTS
  a = a
  b = b
  c = c
  d = d
  lensA = lensA
  lensB = lensB
  lensC = lensC
  locus1 = locus1
  locus2 = locus2
  locus3 = locus3
  kind1 = kind1
  NoKind = NoKind
  NoCand = NoCand
  Cands = {a, b, c, d}
  Lens <- Lenses3
  Locus <- LociAll
  Kind <- Kind1
  Unfit = {}
  Recurring = {}
  Near <- Pairs
  Alike <- AlikeAB
  RootCause <- RootBC
  Arbiter = TRUE
  MaxRuns = 1
  MaxCrashes = 0
  MaxFaults = 0
  MaxCommands = 0
SPECIFICATION Spec
INVARIANTS CorroborationReachesRow ResultMatchesStore
CHECK_DEADLOCK FALSE
