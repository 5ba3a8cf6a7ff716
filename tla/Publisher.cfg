CONSTANTS
  Findings = {f1, f2}
  MaxIssues = 4
  Similar <- Drifted
  CloseOnFixed = TRUE
  MaxChanges = 4
  MaxCrashes = 1
  MaxFaults = 1
SPECIFICATION FairSpec
INVARIANTS TypeOK NoDuplicateIssue CleanRunMirrors
PROPERTY CatchesUp
CHECK_DEADLOCK FALSE
