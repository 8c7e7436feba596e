SPECIFICATION Spec
CONSTANTS
  Calls = {c1}
  Reviewers = {r1, r2}
  Keys = {}
  NoKey = NoKey
  Definitions <- GateAfterGate
  Postgres = TRUE
  MaxCrashes = 1
SYMMETRY Symmetry
INVARIANTS
  TypeOK
  TraceInv
  GatesHoldUnlessRedecided
  StepsFollowChain
  CompletedRunsAreWhole
  FailedRunsShowWhy
PROPERTIES SettledIsFinal RunsAreGated
CHECK_DEADLOCK FALSE
