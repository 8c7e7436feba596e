SPECIFICATION Spec
CONSTANTS
  Automations = {a1}
  Ticks = {t1}
  Operators = {o1}
  Intervals = {1}
  Null = Null
  Postgres = TRUE
  MaxTime = 2
  MaxEdits = 1
  MaxCrashes = 0
INVARIANT CursorInSync
CHECK_DEADLOCK FALSE
