SPECIFICATION Spec
CONSTANTS
  Starters = {s1}
  Reviewers = {r1, r2}
  Replies <- TwoGates
  MaxTurns = 1
  MaxCrashes = 1
SYMMETRY Symmetry
INVARIANTS
  TypeOK
  ConsequentialNeedsGrant
  ExecutedOnce
PROPERTY SettledIsFinal
CHECK_DEADLOCK FALSE
