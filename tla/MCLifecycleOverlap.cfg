CONSTANTS
  c = c
  d = d
  Callers <- Two
  MaxStarts = 2
  MaxFailures = 1
  Overlap = TRUE
  Bootstrap = FALSE
SPECIFICATION Spec
INVARIANT FreedIsUnused
CHECK_DEADLOCK FALSE
