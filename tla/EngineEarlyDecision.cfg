SPECIFICATION Spec
CONSTANTS
  Calls = {c1}
  Reviewers = {r1}
  Keys = {}
  NoKey = NoKey
  Definitions <- OneGate
  Postgres = TRUE
  MaxCrashes = 0
INVARIANT WaitingRunIsDecidable
CHECK_DEADLOCK FALSE
