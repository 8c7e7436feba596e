SPECIFICATION FairSpec
CONSTANTS
  Automations = {a1, a2}
  Ticks = {t1, t2}
  Operators = {}
  Intervals = {1, 2}
  Null = Null
  Postgres = TRUE
  MaxTime = 2
  MaxEdits = 0
  MaxCrashes = 1
INVARIANT NoOccurrenceSkipped
PROPERTY DueIsServed
CHECK_DEADLOCK FALSE
