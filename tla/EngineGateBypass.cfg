SPECIFICATION Spec
CONSTANTS
  Calls = {c1}
  Reviewers = {r1, r2}
  Keys = {}
  NoKey = NoKey
  Definitions <- GateAfterGate
  Postgres = TRUE
  MaxCrashes = 0
INVARIANT GatesHold
CHECK_DEADLOCK FALSE
