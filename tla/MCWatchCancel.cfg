\* Files are deleted as well.
SPECIFICATION Spec
CONSTANTS
  a = a
  b = b
  c1 = c1
  c2 = c2
  Absent = Absent
  Path = {a, b}
  Content = {c1, c2}
  Deletes = TRUE
  Edits = 3
  Flushes = 0
  Overflows = 0
CHECK_DEADLOCK FALSE
INVARIANTS
  NothingMissed
