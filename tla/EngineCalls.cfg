SPECIFICATION FairSpec
CONSTANTS
  Calls = {c1, c2}
  Reviewers = {r1}
  Keys = {k1}
  NoKey = NoKey
  Definitions <- GateLast
  Postgres = TRUE
  MaxCrashes = 0
INVARIANT OneRunPerKey
PROPERTY RunsComeToRest
CHECK_DEADLOCK FALSE
