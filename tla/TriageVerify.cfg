CONSTANTS
  a = a
  b = b
  c = c
  d = d
  lensA = lensA
  lensB = lensB
  lensC = lensC
  locus1 = locus1
  locus2 = locus2
  locus3 = locus3
  kind1 = kind1
  NoKind = NoKind
  NoCand = NoCand
  Cands = {a, b, c}
  Lens <- Lenses3
  Locus <- LociAll
  Kind <- Kind1
  Unfit = {c}
  Recurring = {a}
  Near <- Pairs
  Alike <- AlikeAB
  RootCause <- RootBC
  Arbiter = TRUE
  MaxRuns = 2
  MaxCrashes = 1
  MaxFaults = 1
  MaxCommands = 1
SPECIFICATION Spec
INVARIANTS TypeOK ClaimNeverLost SuppressedStayClosed InFlightUnsuppressed
PROPERTY CleanScanEmptiesWal
CHECK_DEADLOCK FALSE
