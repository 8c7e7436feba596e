SPECIFICATION Spec
CONSTANTS
  Automations = {a1}
  Ticks = {t1, t2}
  Operators = {o1, o2}
  Intervals = {1}
  Null = Null
  Postgres = TRUE
  MaxTime = 2
  MaxEdits = 2
  MaxCrashes = 1
SYMMETRY Symmetry
INVARIANTS
  TypeOK
  OccurrenceRunsOnce
CHECK_DEADLOCK FALSE
