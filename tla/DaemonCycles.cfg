CONSTANTS
  here = here
  there = there
  NoContent = NoContent
  Paths = {here, there}
  Files = {here}
  Remote = TRUE
  MaxCommits = 2
  MaxTroubles = 1
  MaxDismissals = 1
SPECIFICATION FairSpec
INVARIANTS TypeOK AnchorWasJudged DismissalKeepsSuppression
PROPERTIES EveryVersionScanned FindingsFollowCode
