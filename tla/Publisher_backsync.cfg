CONSTANTS
  Findings = {f1, f2}
  MaxIssues = 4
  Similar <- Drifted
  CloseOnFixed = TRUE
  MaxChanges = 4
  MaxCrashes = 1
  MaxFaults = 1
SPECIFICATION Spec
PROPERTY OnlyPeopleDismiss
CHECK_DEADLOCK FALSE
